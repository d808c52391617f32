-------------------------- MODULE RetentionProofs --------------------------
(***************************************************************************)
(* TLAPS proofs about the retention pruner and the dashboard's detail page *)
(* (Retention, Dashboard), for every set of names, every retention period  *)
(* and any number of outside events: pruning leaves no orphans, an outcome *)
(* keeps its RCA, no history goes early, only finished CRs are pruned, the *)
(* detail page is truthful, and the list is the slice it claims to be.     *)
(*                                                                         *)
(* What makes these true is one fact about ages, RowMatches: the row of a  *)
(* finished CR is as old as each copy of it that a worker, the cache or    *)
(* the API server holds, unless the row is behind and not expired.         *)
(***************************************************************************)
EXTENDS Dashboard, FiniteSetTheorems, SequenceTheorems, TLAPS

-----------------------------------------------------------------------------
(* The inductive invariant, for one name *)

\* A worker between its first upsert and its last patch.
Writing == {"start", "run", "insert", "finish", "final"}

Copies(k) == {cr[k], seen[k]}

\* The stamps from which a row may be mirrored, now or later.
Stamps(k) == Copies(k) \cup (IF pc[k] = "mirror" THEN {loc[k]} ELSE {})

\* The row a worker started with is there while it works.
RowKept(k) ==
    /\ pc[k] \in Writing => inc[k] # None /\ inc[k].age <= Retention
    /\ pc[k] \in Writing \ {"final"} => inc[k].phase = "Diagnosing"
    /\ pc[k] = "final" => inc[k].phase = "Diagnosing" \/ inc[k].age = 0

CarriesOutcome(k) ==
    /\ pc[k] \in {"insert", "finish", "final"} =>
         Terminal(loc[k]) /\ loc[k].age = 0
    /\ pc[k] = "mirror" => Settled(loc[k])
    /\ pc[k] \in {"finish", "final"} /\ loc[k].phase = "Done" => diags[k]

\* Two terminal copies are copies of the same version.
CopiesAgree(k) ==
    /\ pc[k] \in {"run", "insert", "finish", "final"} => ~Terminal(cr[k])
    /\ Terminal(seen[k]) /\ Terminal(cr[k]) => seen[k] = cr[k]
    /\ Terminal(cr[k]) /\ seen[k] # cr[k] => cr[k].age = 0
    /\ pc[k] = "mirror" =>
         \A s \in Copies(k) :
             Terminal(s) => loc[k] = s \/ (Again(loc[k]) /\ s.age = 0)
    /\ pc[k] \in Writing \cup {"upsert"} =>
         \A s \in Copies(k) : Terminal(s) => s.age = 0

\* Only a settled CR is kept.  A stored diagnosis was finished a moment ago when
\* it is run again, and while its copies tell different stories nothing of it
\* is past retention.
RerunIsYoung(k) ==
    /\ \A s \in Copies(k) : s.kept => Settled(s)
    /\ Again(cr[k]) => Settled(seen[k])
    /\ Again(cr[k]) /\ Again(seen[k]) => seen[k] = cr[k]
    /\ pc[k] \in {"upsert", "start"} => ~Again(cr[k]) /\ ~Again(seen[k])
    /\ Terminal(cr[k]) /\ Again(seen[k]) => seen[k].age <= Retention
    /\ Again(cr[k]) /\ Terminal(seen[k]) =>
         /\ cr[k].age = 0 /\ seen[k].age = 0
         /\ inc[k] # None /\ inc[k].age <= Retention

\* The same, of a copy that is about to be mirrored.
MirrorIsYoung(k) ==
    pc[k] = "mirror" =>
        \A s \in Copies(k) :
            /\ Again(loc[k]) /\ Again(s) => s = loc[k]
            /\ Again(loc[k]) /\ Terminal(s) => loc[k].age <= Retention
            /\ Terminal(loc[k]) /\ Again(s) =>
                 /\ s.age = 0 /\ loc[k].age = 0
                 /\ inc[k] # None /\ inc[k].age <= Retention

\* The row is not younger than a run that is made again, unless that run has
\* just ended.
RerunMatches(k) ==
    \A s \in Stamps(k) :
        Again(s) /\ inc[k] # None =>
            \/ s.age <= inc[k].age
            \/ inc[k].phase # "Diagnosing" /\ s.age <= Retention

RowMatches(k) ==
    \A s \in Stamps(k) :
        Terminal(s) /\ inc[k] # None =>
            /\ s.age <= inc[k].age
            /\ \/ inc[k].age <= s.age
               \/ inc[k].phase # s.phase /\ inc[k].age <= Retention

\* Whatever shows Done has its RCA, or is past retention.
RCAKept(k) ==
    \A s \in Stamps(k) \cup {inc[k]} :
        s.phase = "Done" /\ ~diags[k] => s.age > Retention

\* Pruning left nothing of k behind.
NoOrphan(k) == inc[k] = None => ~diags[k] /\ (chat[k] => late[k])

\* Who is listed is finished, gone, or was created again.
VictimsDone(k) ==
    /\ Terminal(seen[k]) =>
         Terminal(cr[k]) \/ cr[k] = None \/ k \in reborn \/ seen[k].age = 0
    /\ k \in victims =>
         \/ Terminal(cr[k]) /\ cr[k].age >= Retention
         \/ cr[k] = None
         \/ k \in reborn

HistoryOf(k) ==
    /\ RowKept(k)
    /\ CarriesOutcome(k)
    /\ CopiesAgree(k)
    /\ RerunIsYoung(k)
    /\ MirrorIsYoung(k)
    /\ RerunMatches(k)
    /\ RowMatches(k)
    /\ RCAKept(k)
    /\ NoOrphan(k)
    /\ VictimsDone(k)

HistoryInv == \A k \in Keys : HistoryOf(k)

-----------------------------------------------------------------------------
(* One step, one name *)

KeyStep(k) ==
    \/ Create(k) \/ UserDelete(k) \/ Deliver(k)
    \/ Begin(k) \/ Work(k) \/ InsertFails(k) \/ ReconcileFails(k)
    \/ Ask(k) \/ Load(k) \/ Reply(k)
    \/ DeleteVictim(k)

\* What a step that concerns k leaves alone.
OthersKept(k) ==
    \A j \in Keys \ {k} :
        /\ cr'[j] = cr[j] /\ seen'[j] = seen[j]
        /\ pc'[j] = pc[j] /\ loc'[j] = loc[j]
        /\ inc'[j] = inc[j] /\ diags'[j] = diags[j]
        /\ chat'[j] = chat[j] /\ late'[j] = late[j]
        /\ j \in victims' <=> j \in victims
        /\ j \in reborn' <=> j \in reborn

HistoryKept ==
    UNCHANGED <<crVars, workVars, rowVars, chatVars, sweepVars>>

LEMMA HistoryMoves ==
  ASSUME [Next]_vars
  PROVE  \/ \E k \in Keys : KeyStep(k)
         \/ PruneRows \/ ListVictims \/ SweepEnds \/ Tick \/ Crash
         \/ HistoryKept
  <1> USE DEF HistoryKept, historyVars
  <1>1. CASE Request
    BY <1>1 DEF Request, Detail, List
  <1>2. CASE Answer
    BY <1>2 DEF Answer, DetailRead, ListCount, ListPage, Respond
  <1>3. CASE Background
    BY <1>3 DEF Background, HistoryStep, Sweep, KeyStep
  <1>4. CASE Time \/ Restart
    BY <1>4 DEF Time, Restart
  <1>5. CASE UNCHANGED vars
    BY <1>5 DEF vars
  <1> QED
    BY <1>1, <1>2, <1>3, <1>4, <1>5 DEF Next

-----------------------------------------------------------------------------
(* Typing *)

LEMMA StampTypes ==
  /\ None \in Stamp
  /\ \A p \in Phases, a \in Ages : At(p, a) \in Stamp
  /\ 0 \in Ages
  /\ \A s \in Stamp : Older(s) \in Stamp /\ OlderCR(s) \in Stamp
  BY RetentionAssumption DEF None, Stamp, At, Ages, Older, OlderCR

\* What a run does to the status of its CR.
LEMMA EndedStatus ==
  ASSUME NEW s \in Stamp, NEW o \in Stamp
  PROVE  /\ Ended(s, o) \in Stamp
         /\ Ended(s, o).phase = o.phase /\ Ended(s, o).age = o.age
  <1>1. (o.kept \/ s.kept) \in BOOLEAN
    OBVIOUS
  <1> QED
    BY <1>1 DEF Ended, Stamp

LEMMA StatusSteps ==
  ASSUME NEW s \in Stamp
  PROVE  /\ Started(s) \in Stamp
         /\ Started(s).phase = "Diagnosing" /\ ~Terminal(Started(s))
         /\ Again(Started(s)) => Started(s).age = s.age
         /\ Again(Started(s)) => s.kept
         /\ NotPersisted(s) \in Stamp
         /\ NotPersisted(s).phase = s.phase /\ ~Again(NotPersisted(s))
         /\ ~NotPersisted(s).kept
  <1>0. 0 \in Ages
    BY StampTypes
  <1>1. \A t \in Stamp : /\ Dated(t) \in Stamp
                         /\ Dated(t).phase = t.phase /\ Dated(t).kept = t.kept
                         /\ Settled(t) => Dated(t).age = t.age
    BY <1>0 DEF Dated, Stamp
  <1>2. [s EXCEPT !.phase = "Diagnosing"] \in Stamp
    BY DEF Stamp, Phases
  <1>3. [s EXCEPT !.kept = FALSE] \in Stamp
    BY DEF Stamp
  <1>6. /\ NotPersisted(s) \in Stamp
        /\ NotPersisted(s).phase = s.phase /\ ~Again(NotPersisted(s))
        /\ ~NotPersisted(s).kept
    BY <1>1, <1>3 DEF NotPersisted, Again, Stamp
  <1>7. /\ Started(s) \in Stamp
        /\ Started(s).phase = "Diagnosing" /\ Started(s).kept = s.kept
    BY <1>1, <1>2 DEF Started, Stamp
  <1>8. Again(Started(s)) => Started(s).age = s.age
    BY <1>1, <1>2, <1>7 DEF Started, Stamp, Again, Settled
  <1> QED
    BY <1>6, <1>7, <1>8 DEF Terminal, Finals, Again

\* What ageing does to a stamp.
LEMMA OlderStamp ==
  ASSUME NEW s \in Stamp
  PROVE  /\ Older(s).phase = s.phase
         /\ Older(s).age = IF s.age > Retention THEN s.age ELSE s.age + 1
         /\ Older(s).kept = s.kept
         /\ OlderCR(s) = IF Settled(s) THEN Older(s) ELSE s
         /\ s.age \in Nat /\ s.age <= Retention + 1
  BY RetentionAssumption DEF Stamp, Ages, Older, OlderCR

\* HistoryTypeOK, variable by variable, but for the count of events.
Typed ==
    /\ cr \in [Keys -> Stamp]
    /\ seen \in [Keys -> Stamp]
    /\ loc \in [Keys -> Stamp]
    /\ inc \in [Keys -> Stamp]
    /\ pc \in [Keys -> {"idle", "mirror", "upsert", "start", "run", "insert",
                        "finish", "final"}]
    /\ diags \in [Keys -> BOOLEAN]
    /\ chat \in [Keys -> BOOLEAN]
    /\ late \in [Keys -> BOOLEAN]
    /\ turn \in [Keys -> {"idle", "load", "stream"}]
    /\ sweep \in {"idle", "list", "delete", "asleep"}
    /\ victims \in SUBSET Keys
    /\ reborn \in SUBSET Keys

LEMMA TypedOK == HistoryTypeOK <=> Typed /\ events \in 0..MaxEvents
  BY DEF HistoryTypeOK, Typed

LEMMA TypedKeyStep ==
  ASSUME Typed, NEW k \in Keys, KeyStep(k)
  PROVE  Typed'
  <1> USE DEF crVars, workVars, rowVars, chatVars, sweepVars, Goto, Typed
  <1>0. /\ None \in Stamp
        /\ At("Pending", 0) \in Stamp /\ At("Diagnosing", 0) \in Stamp
        /\ \A p \in Finals : At(p, 0) \in Stamp
    BY StampTypes DEF Phases
  <1>1. CASE Create(k) \/ UserDelete(k) \/ Deliver(k)
    BY <1>0, <1>1 DEF Create, UserDelete, Deliver
  <1>2. CASE Begin(k)
    BY <1>0, <1>2 DEF Begin
  <1>3. CASE Mirror(k) \/ UpsertDiagnosing(k)
    BY <1>0, <1>3 DEF Mirror, MirrorOf, UpsertDiagnosing
  <1>4. CASE Run(k)
    BY <1>0, <1>4 DEF Run
  <1>5. CASE InsertDiagnosis(k)
    BY <1>5 DEF InsertDiagnosis
  <1>6. CASE PatchDiagnosing(k) \/ PatchFinal(k) \/ InsertFails(k)
    <2>1. /\ Started(cr[k]) \in Stamp /\ NotPersisted(cr[k]) \in Stamp
          /\ Ended(cr[k], loc[k]) \in Stamp
      BY StatusSteps, EndedStatus
    <2>2. CASE PatchDiagnosing(k)
      BY <2>1, <2>2 DEF PatchDiagnosing
    <2>3. CASE PatchFinal(k)
      BY <1>0, <2>1, <2>3 DEF PatchFinal
    <2>4. CASE InsertFails(k)
      <3>1. cr' = cr \/ cr' = [cr EXCEPT ![k] = NotPersisted(cr[k])]
        BY <2>4 DEF InsertFails
      <3> QED
        BY <1>0, <2>1, <2>4, <3>1 DEF InsertFails
    <2> QED
      BY <1>6, <2>2, <2>3, <2>4
  <1>7. CASE Finish(k)
    <2>1. At(loc[k].phase, 0) \in Stamp
      BY StampTypes DEF At, Stamp
    <2> QED
      BY <1>7, <2>1 DEF Finish
  <1>8. CASE Gone(k) \/ ReconcileFails(k) \/ DeleteVictim(k)
    BY <1>0, <1>8 DEF Gone, ReconcileFails, DeleteVictim
  <1>9. CASE Ask(k) \/ Load(k) \/ Reply(k)
    <2>1. ASSUME ChatRow(k)
          PROVE  chat' \in [Keys -> BOOLEAN] /\ late' \in [Keys -> BOOLEAN]
      BY <2>1 DEF ChatRow
    <2> QED
      BY <1>9, <2>1 DEF Ask, Load, Reply
  <1> QED
    BY <1>1, <1>2, <1>3, <1>4, <1>5, <1>6, <1>7, <1>8, <1>9
       DEF KeyStep, Work

LEMMA TypedStep ==
  ASSUME Typed, [Next]_vars
  PROVE  Typed'
  <1> USE DEF crVars, workVars, rowVars, chatVars, sweepVars
  <1>1. CASE \E k \in Keys : KeyStep(k)
    BY <1>1, TypedKeyStep
  <1>2. CASE PruneRows
    <2>1. inc' \in [Keys -> Stamp]
      <3>1. None \in Stamp /\ inc \in [Keys -> Stamp]
        BY StampTypes DEF Typed
      <3>2. inc' = inc \/ inc' = Without(inc, {k \in Keys : Expired(inc[k])}, None)
        BY <1>2 DEF PruneRows, Prune
      <3> QED
        BY <3>1, <3>2 DEF Without
    <2>2. /\ diags' \in [Keys -> BOOLEAN]
          /\ chat' \in [Keys -> BOOLEAN]
          /\ late' \in [Keys -> BOOLEAN]
      BY <1>2 DEF PruneRows, Prune, Without, Typed
    <2> QED
      BY <1>2, <2>1, <2>2 DEF PruneRows, Typed
  <1>3. CASE ListVictims \/ SweepEnds
    BY <1>3 DEF ListVictims, SweepEnds, Typed
  <1>4. CASE Tick
    BY <1>4, StampTypes DEF Tick, Typed
  <1>5. CASE Crash
    BY <1>5, StampTypes DEF Crash, Typed
  <1>6. CASE HistoryKept
    BY <1>6 DEF HistoryKept, Typed
  <1> QED
    BY <1>1, <1>2, <1>3, <1>4, <1>5, <1>6, HistoryMoves

\* What comes from outside is counted, whoever it meets.
LEMMA EventsStep ==
  ASSUME events \in 0..MaxEvents, [Next]_vars
  PROVE  events' \in 0..MaxEvents
  <1>1. Outside \/ UNCHANGED events
    <2>1. CASE Request
      BY <2>1 DEF Request, Detail, List
    <2>2. CASE Answer
      BY <2>2 DEF Answer, DetailRead, ListCount, ListPage, Respond, historyVars
    <2>3. CASE Background
      BY <2>3 DEF Background, HistoryStep, Sweep, PruneRows, ListVictims,
                  DeleteVictim, SweepEnds, Create, UserDelete, Deliver, Begin,
                  Work, Mirror, UpsertDiagnosing, PatchDiagnosing, Run,
                  InsertDiagnosis, InsertFails, Finish, PatchFinal, Gone,
                  ReconcileFails, Ask, Load, Reply
    <2>4. CASE Time \/ Restart
      BY <2>4 DEF Time, Restart, Tick, Crash
    <2>5. CASE UNCHANGED vars
      BY <2>5 DEF vars, historyVars
    <2> QED
      BY <2>1, <2>2, <2>3, <2>4, <2>5 DEF Next
  <1> QED
    BY <1>1, RetentionAssumption DEF Outside

-----------------------------------------------------------------------------
(* The invariant, action by action *)

LEMMA KeptByKeyStep ==
  ASSUME Typed, NEW k \in Keys, KeyStep(k)
  PROVE  OthersKept(k)
  <1> USE DEF crVars, workVars, rowVars, chatVars, sweepVars, Goto, Typed,
              OthersKept
  <1>1. CASE Create(k) \/ UserDelete(k) \/ Deliver(k) \/ DeleteVictim(k)
    BY <1>1 DEF Create, UserDelete, Deliver, DeleteVictim
  <1>2. CASE Begin(k) \/ Mirror(k) \/ UpsertDiagnosing(k)
    BY <1>2 DEF Begin, Mirror, UpsertDiagnosing
  <1>3. CASE PatchDiagnosing(k) \/ Run(k) \/ InsertDiagnosis(k)
    BY <1>3 DEF PatchDiagnosing, Run, InsertDiagnosis
  <1>4. CASE Finish(k) \/ PatchFinal(k) \/ InsertFails(k)
    BY <1>4 DEF Finish, PatchFinal, InsertFails
  <1>5. CASE Gone(k) \/ ReconcileFails(k)
    BY <1>5 DEF Gone, ReconcileFails
  <1>6. CASE Ask(k) \/ Load(k) \/ Reply(k)
    BY <1>6 DEF Ask, Load, Reply, ChatRow
  <1> QED
    BY <1>1, <1>2, <1>3, <1>4, <1>5, <1>6 DEF KeyStep, Work

LEMMA HistoryKeyStep ==
  ASSUME Typed, NEW k \in Keys, HistoryOf(k), KeyStep(k)
  PROVE  HistoryOf(k)'
  <1> USE DEF crVars, workVars, rowVars, chatVars, sweepVars
  <1>0. /\ cr[k] \in Stamp /\ seen[k] \in Stamp /\ loc[k] \in Stamp
        /\ inc[k] \in Stamp
        /\ Retention \in Nat /\ Retention >= 1
    BY RetentionAssumption DEF Typed
  <1>1. \A s \in Stamp : /\ s.age \in Nat
                         /\ Terminal(s) => s # None
                         /\ Terminal(s) => s.phase \notin {"None", "Diagnosing"}
                         /\ s.phase = "Done" => Terminal(s)
                         /\ Again(s) => ~Terminal(s) /\ s.phase = "Diagnosing"
                         /\ Settled(s) <=> Terminal(s) \/ Again(s)
    BY RetentionAssumption
       DEF Stamp, Ages, Terminal, Finals, None, At, Again, Settled
  <1>2. /\ ~Terminal(None) /\ None.phase # "Done" /\ None.age = 0
        /\ \A p : At(p, 0) # None \/ p = "None"
        /\ \A p : At(p, 0).phase = p /\ At(p, 0).age = 0
        /\ ~Terminal(At("Pending", 0)) /\ ~Terminal(At("Diagnosing", 0))
        /\ \A p \in Finals : Terminal(At(p, 0))
        /\ ~None.kept /\ ~At("Pending", 0).kept
        /\ ~Again(None) /\ ~Again(At("Pending", 0))
        /\ ~Again(At("Diagnosing", 0))
    BY DEF None, At, Terminal, Finals, Again
  <1>3. CASE Create(k)
    <2>1. /\ cr[k] = None /\ cr'[k] = At("Pending", 0)
          /\ k \in reborn' <=> k \in reborn \/ seen[k] # None \/ k \in victims
          /\ UNCHANGED <<seen, pc, loc, inc, diags, chat, late, victims>>
      BY <1>3 DEF Create, Typed
    <2>2. cr'[k].phase = "Pending" /\ ~Terminal(cr'[k]) /\ ~cr'[k].kept
      BY <1>2, <2>1
    <2>3. RowKept(k)' /\ CarriesOutcome(k)' /\ NoOrphan(k)'
      BY <2>1 DEF HistoryOf, RowKept, CarriesOutcome, NoOrphan
    <2>4. CopiesAgree(k)'
      BY <2>1, <2>2 DEF HistoryOf, CopiesAgree, Copies
    <2>5. RowMatches(k)'
      BY <2>1, <2>2 DEF HistoryOf, RowMatches, Stamps, Copies
    <2>6. RCAKept(k)'
      BY <2>1, <2>2 DEF HistoryOf, RCAKept, Stamps, Copies
    <2>7. VictimsDone(k)'
      BY <1>0, <1>1, <1>2, <2>1, <2>2 DEF HistoryOf, VictimsDone
    <2>8. RerunIsYoung(k)' /\ MirrorIsYoung(k)'
      BY <1>0, <1>1, <1>2, <2>1, <2>2
         DEF HistoryOf, RerunIsYoung, MirrorIsYoung, Copies
    <2>9. RerunMatches(k)'
      BY <1>0, <1>1, <1>2, <2>1, <2>2
         DEF HistoryOf, RerunMatches, Stamps, Copies
    <2> QED
      BY <2>3, <2>4, <2>5, <2>6, <2>7, <2>8, <2>9 DEF HistoryOf
  <1>4. CASE UserDelete(k) \/ DeleteVictim(k)
    <2>1. /\ cr'[k] = None \/ cr' = cr
          /\ k \in victims' => k \in victims
          /\ UNCHANGED <<seen, reborn, pc, loc, inc, diags, chat, late>>
      BY <1>4 DEF UserDelete, DeleteVictim, Typed
    <2>2. RowKept(k)'
      BY <1>0, <1>1, <1>2, <2>1 DEF HistoryOf, RowKept, Writing
    <2>3. CarriesOutcome(k)'
      BY <1>0, <1>1, <1>2, <2>1 DEF HistoryOf, CarriesOutcome
    <2>4. CopiesAgree(k)'
      BY <1>0, <1>1, <1>2, <2>1 DEF HistoryOf, CopiesAgree, Copies, Writing
    <2>5. RowMatches(k)'
      BY <1>0, <1>1, <1>2, <2>1 DEF HistoryOf, RowMatches, Stamps, Copies
    <2>6. RCAKept(k)'
      BY <1>0, <1>1, <1>2, <2>1 DEF HistoryOf, RCAKept, Stamps, Copies
    <2>7. NoOrphan(k)'
      BY <1>0, <1>1, <1>2, <2>1 DEF HistoryOf, NoOrphan
    <2>8. VictimsDone(k)'
      BY <1>0, <1>1, <1>2, <2>1 DEF HistoryOf, VictimsDone
    <2>9. RerunIsYoung(k)' /\ MirrorIsYoung(k)'
      BY <1>0, <1>1, <1>2, <2>1
         DEF HistoryOf, RerunIsYoung, MirrorIsYoung, RowKept, CarriesOutcome,
             CopiesAgree, Copies, Writing
    <2>12. RerunMatches(k)'
      BY <1>0, <1>1, <1>2, <2>1
         DEF HistoryOf, RerunMatches, RerunIsYoung, MirrorIsYoung, RowKept,
             CarriesOutcome, Stamps, Copies, Writing
    <2> QED
      BY <2>2, <2>3, <2>4, <2>5, <2>6, <2>7, <2>8, <2>9, <2>12 DEF HistoryOf
  <1>5. CASE Deliver(k)
    <2>1. /\ seen'[k] = cr[k]
          /\ k \in victims => (k \in reborn' <=> k \in reborn)
          /\ UNCHANGED <<cr, victims, pc, loc, inc, diags, chat, late>>
      BY <1>5 DEF Deliver, Typed
    <2>2. RowKept(k)'
      BY <1>0, <1>1, <1>2, <2>1 DEF HistoryOf, RowKept, Writing
    <2>3. CarriesOutcome(k)'
      BY <1>0, <1>1, <1>2, <2>1 DEF HistoryOf, CarriesOutcome
    <2>4. CopiesAgree(k)'
      BY <1>0, <1>1, <1>2, <2>1 DEF HistoryOf, CopiesAgree, Copies, Writing
    <2>5. RowMatches(k)'
      BY <1>0, <1>1, <1>2, <2>1 DEF HistoryOf, RowMatches, Stamps, Copies
    <2>6. RCAKept(k)'
      BY <1>0, <1>1, <1>2, <2>1 DEF HistoryOf, RCAKept, Stamps, Copies
    <2>7. NoOrphan(k)'
      BY <1>0, <1>1, <1>2, <2>1 DEF HistoryOf, NoOrphan
    <2>8. VictimsDone(k)'
      BY <1>0, <1>1, <1>2, <2>1 DEF HistoryOf, VictimsDone
    <2>9. RerunIsYoung(k)' /\ MirrorIsYoung(k)'
      BY <1>0, <1>1, <1>2, <2>1
         DEF HistoryOf, RerunIsYoung, MirrorIsYoung, RowKept, CarriesOutcome,
             CopiesAgree, Copies, Writing
    <2>12. RerunMatches(k)'
      BY <1>0, <1>1, <1>2, <2>1
         DEF HistoryOf, RerunMatches, RerunIsYoung, MirrorIsYoung, RowKept,
             CarriesOutcome, Stamps, Copies, Writing
    <2> QED
      BY <2>2, <2>3, <2>4, <2>5, <2>6, <2>7, <2>8, <2>9, <2>12 DEF HistoryOf
  <1>6. CASE Begin(k)
    <2>1. /\ pc[k] = "idle"
          /\ \/ Settled(seen[k]) /\ pc'[k] = "mirror" /\ loc'[k] = seen[k]
             \/ ~Settled(seen[k]) /\ pc'[k] = "upsert" /\ loc'[k] = None
          /\ UNCHANGED <<cr, seen, reborn, victims, inc, diags, chat, late>>
      BY <1>1, <1>2, <1>6 DEF Begin, Goto, Typed
    <2>2. RowKept(k)'
      BY <1>0, <1>1, <1>2, <2>1 DEF HistoryOf, RowKept, Writing
    <2>3. CarriesOutcome(k)'
      BY <1>0, <1>1, <1>2, <2>1 DEF HistoryOf, CarriesOutcome
    <2>4. CopiesAgree(k)'
      BY <1>0, <1>1, <1>2, <2>1 DEF HistoryOf, CopiesAgree, Copies, Writing
    <2>5. RowMatches(k)'
      BY <1>0, <1>1, <1>2, <2>1 DEF HistoryOf, RowMatches, Stamps, Copies
    <2>6. RCAKept(k)'
      BY <1>0, <1>1, <1>2, <2>1 DEF HistoryOf, RCAKept, Stamps, Copies
    <2>7. NoOrphan(k)'
      BY <1>0, <1>1, <1>2, <2>1 DEF HistoryOf, NoOrphan
    <2>8. VictimsDone(k)'
      BY <1>0, <1>1, <1>2, <2>1 DEF HistoryOf, VictimsDone
    <2>9. RerunIsYoung(k)' /\ MirrorIsYoung(k)'
      BY <1>0, <1>1, <1>2, <2>1
         DEF HistoryOf, RerunIsYoung, MirrorIsYoung, RowKept, CarriesOutcome,
             CopiesAgree, Copies, Writing
    <2>12. RerunMatches(k)'
      BY <1>0, <1>1, <1>2, <2>1
         DEF HistoryOf, RerunMatches, RerunIsYoung, MirrorIsYoung, RowKept,
             CarriesOutcome, Stamps, Copies, Writing
    <2> QED
      BY <2>2, <2>3, <2>4, <2>5, <2>6, <2>7, <2>8, <2>9, <2>12 DEF HistoryOf
  <1>7. CASE Mirror(k)
    <2>1. /\ pc[k] = "mirror" /\ pc'[k] = "idle"
          /\ inc'[k] = loc[k] /\ loc'[k] = None
          /\ UNCHANGED <<cr, seen, reborn, victims, diags, chat, late>>
      BY <1>7 DEF Mirror, MirrorOf, Goto, Typed
    <2>2. RowKept(k)'
      BY <1>0, <1>1, <1>2, <2>1 DEF HistoryOf, RowKept, Writing
    <2>3. CarriesOutcome(k)'
      BY <1>0, <1>1, <1>2, <2>1 DEF HistoryOf, CarriesOutcome
    <2>4. CopiesAgree(k)'
      BY <1>0, <1>1, <1>2, <2>1 DEF HistoryOf, CopiesAgree, Copies, Writing
    <2>5. RowMatches(k)'
      BY <1>0, <1>1, <1>2, <2>1
         DEF HistoryOf, RowMatches, MirrorIsYoung, Stamps, Copies, CopiesAgree,
             CarriesOutcome
    <2>6. RCAKept(k)'
      BY <1>0, <1>1, <1>2, <2>1 DEF HistoryOf, RCAKept, Stamps, Copies
    <2>7. NoOrphan(k)'
      BY <1>0, <1>1, <1>2, <2>1 DEF HistoryOf, NoOrphan, CarriesOutcome
    <2>8. VictimsDone(k)'
      BY <1>0, <1>1, <1>2, <2>1 DEF HistoryOf, VictimsDone
    <2>9. RerunIsYoung(k)' /\ MirrorIsYoung(k)'
      BY <1>0, <1>1, <1>2, <2>1
         DEF HistoryOf, RerunIsYoung, MirrorIsYoung, RowKept, CarriesOutcome,
             CopiesAgree, Copies, Writing
    <2>12. RerunMatches(k)'
      BY <1>0, <1>1, <1>2, <2>1
         DEF HistoryOf, RerunMatches, RerunIsYoung, MirrorIsYoung, RowKept,
             CarriesOutcome, Stamps, Copies, Writing
    <2> QED
      BY <2>2, <2>3, <2>4, <2>5, <2>6, <2>7, <2>8, <2>9, <2>12 DEF HistoryOf
  <1>8. CASE UpsertDiagnosing(k)
    <2>1. /\ pc[k] = "upsert" /\ pc'[k] = "start"
          /\ inc'[k] = At("Diagnosing", 0)
          /\ UNCHANGED <<cr, seen, reborn, victims, loc, diags, chat, late>>
      BY <1>1, <1>2, <1>8 DEF UpsertDiagnosing, Goto, Typed
    <2>2. RowKept(k)'
      BY <1>0, <1>1, <1>2, <2>1 DEF HistoryOf, RowKept, Writing
    <2>3. CarriesOutcome(k)'
      BY <1>0, <1>1, <1>2, <2>1 DEF HistoryOf, CarriesOutcome
    <2>4. CopiesAgree(k)'
      BY <1>0, <1>1, <1>2, <2>1 DEF HistoryOf, CopiesAgree, Copies, Writing
    <2>5. RowMatches(k)'
      BY <1>0, <1>1, <1>2, <2>1
         DEF HistoryOf, RowMatches, Stamps, Copies, CopiesAgree, Writing
    <2>6. RCAKept(k)'
      BY <1>0, <1>1, <1>2, <2>1 DEF HistoryOf, RCAKept, Stamps, Copies
    <2>7. NoOrphan(k)'
      BY <1>0, <1>1, <1>2, <2>1 DEF HistoryOf, NoOrphan
    <2>8. VictimsDone(k)'
      BY <1>0, <1>1, <1>2, <2>1 DEF HistoryOf, VictimsDone
    <2>9. RerunIsYoung(k)' /\ MirrorIsYoung(k)'
      BY <1>0, <1>1, <1>2, <2>1
         DEF HistoryOf, RerunIsYoung, MirrorIsYoung, RowKept, CarriesOutcome,
             CopiesAgree, Copies, Writing
    <2>12. RerunMatches(k)'
      BY <1>0, <1>1, <1>2, <2>1
         DEF HistoryOf, RerunMatches, RerunIsYoung, MirrorIsYoung, RowKept,
             CarriesOutcome, Stamps, Copies, Writing
    <2> QED
      BY <2>2, <2>3, <2>4, <2>5, <2>6, <2>7, <2>8, <2>9, <2>12 DEF HistoryOf
  <1>9. CASE PatchDiagnosing(k)
    <2>1. /\ pc[k] = "start" /\ pc'[k] = "run"
          /\ cr[k] # None /\ seen[k] = cr[k] /\ cr'[k] = Started(cr[k])
          /\ UNCHANGED <<seen, reborn, victims, loc, inc, diags, chat, late>>
      BY <1>1, <1>2, <1>9 DEF PatchDiagnosing, Goto, Typed
    <2>10. /\ cr'[k].phase = "Diagnosing" /\ ~Terminal(cr'[k])
           /\ Terminal(cr[k]) => cr[k].age = 0
           /\ Again(cr'[k]) => Terminal(cr[k]) /\ cr'[k].age = 0
           /\ cr'[k] \in Stamp
      BY <1>0, <1>1, <2>1, StatusSteps
         DEF HistoryOf, CopiesAgree, RerunIsYoung, Copies, Writing
    <2>11. cr'[k].kept => Again(cr'[k])
      BY <2>10 DEF Again
    <2>2. RowKept(k)'
      BY <1>0, <1>1, <1>2, <2>1, <2>10 DEF HistoryOf, RowKept, Writing
    <2>3. CarriesOutcome(k)'
      BY <1>0, <1>1, <1>2, <2>1, <2>10 DEF HistoryOf, CarriesOutcome
    <2>4. CopiesAgree(k)'
      BY <1>0, <1>1, <1>2, <2>1, <2>10 DEF HistoryOf, CopiesAgree, Copies, Writing
    <2>5. RowMatches(k)'
      BY <1>0, <1>1, <1>2, <2>1, <2>10 DEF HistoryOf, RowMatches, Stamps, Copies
    <2>6. RCAKept(k)'
      BY <1>0, <1>1, <1>2, <2>1, <2>10 DEF HistoryOf, RCAKept, Stamps, Copies
    <2>7. NoOrphan(k)'
      BY <1>0, <1>1, <1>2, <2>1, <2>10 DEF HistoryOf, NoOrphan
    <2>8. VictimsDone(k)'
      BY <1>0, <1>1, <1>2, <2>1, <2>10, <2>11
         DEF HistoryOf, VictimsDone, CopiesAgree, Copies, Writing
    <2>9. RerunIsYoung(k)' /\ MirrorIsYoung(k)'
      BY <1>0, <1>1, <1>2, <2>1, <2>10, <2>11
         DEF HistoryOf, RerunIsYoung, MirrorIsYoung, RowKept, CarriesOutcome,
             CopiesAgree, Copies, Writing
    <2>12. RerunMatches(k)'
      BY <1>0, <1>1, <1>2, <2>1, <2>10, <2>11
         DEF HistoryOf, RerunMatches, RerunIsYoung, MirrorIsYoung, RowKept,
             CarriesOutcome, Stamps, Copies, Writing
    <2> QED
      BY <2>2, <2>3, <2>4, <2>5, <2>6, <2>7, <2>8, <2>9, <2>12 DEF HistoryOf
  <1>10. CASE Run(k)
    <2>1. /\ pc[k] = "run"
          /\ \E p \in Finals :
               /\ loc'[k] = At(p, 0)
               /\ pc'[k] = IF p = "Done" THEN "insert" ELSE "finish"
          /\ UNCHANGED <<cr, seen, reborn, victims, inc, diags, chat, late>>
      BY <1>1, <1>2, <1>10 DEF Run, Goto, Typed
    <2>2. RowKept(k)'
      BY <1>0, <1>1, <1>2, <2>1 DEF HistoryOf, RowKept, Writing
    <2>3. CarriesOutcome(k)'
      BY <1>0, <1>1, <1>2, <2>1 DEF HistoryOf, CarriesOutcome
    <2>4. CopiesAgree(k)'
      BY <1>0, <1>1, <1>2, <2>1 DEF HistoryOf, CopiesAgree, Copies, Writing
    <2>5. RowMatches(k)'
      BY <1>0, <1>1, <1>2, <2>1 DEF HistoryOf, RowMatches, Stamps, Copies
    <2>6. RCAKept(k)'
      BY <1>0, <1>1, <1>2, <2>1 DEF HistoryOf, RCAKept, Stamps, Copies
    <2>7. NoOrphan(k)'
      BY <1>0, <1>1, <1>2, <2>1 DEF HistoryOf, NoOrphan
    <2>8. VictimsDone(k)'
      BY <1>0, <1>1, <1>2, <2>1 DEF HistoryOf, VictimsDone
    <2>9. RerunIsYoung(k)' /\ MirrorIsYoung(k)'
      BY <1>0, <1>1, <1>2, <2>1
         DEF HistoryOf, RerunIsYoung, MirrorIsYoung, RowKept, CarriesOutcome,
             CopiesAgree, Copies, Writing
    <2>12. RerunMatches(k)'
      BY <1>0, <1>1, <1>2, <2>1
         DEF HistoryOf, RerunMatches, RerunIsYoung, MirrorIsYoung, RowKept,
             CarriesOutcome, Stamps, Copies, Writing
    <2> QED
      BY <2>2, <2>3, <2>4, <2>5, <2>6, <2>7, <2>8, <2>9, <2>12 DEF HistoryOf
  <1>11. CASE InsertDiagnosis(k)
    <2>1. /\ pc[k] = "insert" /\ pc'[k] = "finish"
          /\ diags'[k] = TRUE
          /\ UNCHANGED <<cr, seen, reborn, victims, loc, inc, chat, late>>
      BY <1>11 DEF InsertDiagnosis, Goto, Typed
    <2>2. RowKept(k)'
      BY <1>0, <1>1, <1>2, <2>1 DEF HistoryOf, RowKept, Writing
    <2>3. CarriesOutcome(k)'
      BY <1>0, <1>1, <1>2, <2>1 DEF HistoryOf, CarriesOutcome
    <2>4. CopiesAgree(k)'
      BY <1>0, <1>1, <1>2, <2>1 DEF HistoryOf, CopiesAgree, Copies, Writing
    <2>5. RowMatches(k)'
      BY <1>0, <1>1, <1>2, <2>1 DEF HistoryOf, RowMatches, Stamps, Copies
    <2>6. RCAKept(k)'
      BY <1>0, <1>1, <1>2, <2>1 DEF HistoryOf, RCAKept, Stamps, Copies
    <2>7. NoOrphan(k)'
      BY <1>0, <1>1, <1>2, <2>1 DEF HistoryOf, NoOrphan, RowKept, Writing
    <2>8. VictimsDone(k)'
      BY <1>0, <1>1, <1>2, <2>1 DEF HistoryOf, VictimsDone
    <2>9. RerunIsYoung(k)' /\ MirrorIsYoung(k)'
      BY <1>0, <1>1, <1>2, <2>1
         DEF HistoryOf, RerunIsYoung, MirrorIsYoung, RowKept, CarriesOutcome,
             CopiesAgree, Copies, Writing
    <2>12. RerunMatches(k)'
      BY <1>0, <1>1, <1>2, <2>1
         DEF HistoryOf, RerunMatches, RerunIsYoung, MirrorIsYoung, RowKept,
             CarriesOutcome, Stamps, Copies, Writing
    <2> QED
      BY <2>2, <2>3, <2>4, <2>5, <2>6, <2>7, <2>8, <2>9, <2>12 DEF HistoryOf
  <1>12. CASE Finish(k)
    <2>1. /\ pc[k] = "finish" /\ pc'[k] = "final"
          /\ inc'[k] = At(loc[k].phase, 0) \/ inc'[k] = inc[k]
          /\ UNCHANGED <<cr, seen, reborn, victims, loc, diags, chat, late>>
      BY <1>1, <1>2, <1>12 DEF Finish, Goto, Typed
    <2>2. RowKept(k)'
      BY <1>0, <1>1, <1>2, <2>1 DEF HistoryOf, RowKept, Writing, CarriesOutcome
    <2>3. CarriesOutcome(k)'
      BY <1>0, <1>1, <1>2, <2>1 DEF HistoryOf, CarriesOutcome
    <2>4. CopiesAgree(k)'
      BY <1>0, <1>1, <1>2, <2>1 DEF HistoryOf, CopiesAgree, Copies, Writing
    <2>5. RowMatches(k)'
      BY <1>0, <1>1, <1>2, <2>1
         DEF HistoryOf, RowMatches, Stamps, Copies, CopiesAgree,
             CarriesOutcome, Writing
    <2>6. RCAKept(k)'
      BY <1>0, <1>1, <1>2, <2>1
         DEF HistoryOf, RCAKept, Stamps, Copies, CarriesOutcome
    <2>7. NoOrphan(k)'
      BY <1>0, <1>1, <1>2, <2>1
         DEF HistoryOf, NoOrphan, CarriesOutcome, RowKept, Writing
    <2>8. VictimsDone(k)'
      BY <1>0, <1>1, <1>2, <2>1 DEF HistoryOf, VictimsDone
    <2>9. RerunIsYoung(k)' /\ MirrorIsYoung(k)'
      BY <1>0, <1>1, <1>2, <2>1
         DEF HistoryOf, RerunIsYoung, MirrorIsYoung, RowKept, CarriesOutcome,
             CopiesAgree, Copies, Writing
    <2>12. RerunMatches(k)'
      BY <1>0, <1>1, <1>2, <2>1
         DEF HistoryOf, RerunMatches, RerunIsYoung, MirrorIsYoung, RowKept,
             CarriesOutcome, Stamps, Copies, Writing
    <2> QED
      BY <2>2, <2>3, <2>4, <2>5, <2>6, <2>7, <2>8, <2>9, <2>12 DEF HistoryOf
  <1>13. CASE PatchFinal(k)
    <2>1. /\ pc[k] = "final" /\ pc'[k] = "idle"
          /\ cr[k] # None /\ seen[k] = cr[k] /\ loc'[k] = None
          /\ cr'[k] = Ended(cr[k], loc[k])
          /\ UNCHANGED <<seen, reborn, victims, inc, diags, chat, late>>
      BY <1>13 DEF PatchFinal, Goto, Typed
    <2>10. /\ cr'[k].phase = loc[k].phase /\ cr'[k].age = 0
           /\ Terminal(cr'[k]) /\ ~Again(cr'[k]) /\ ~Terminal(cr[k])
           /\ cr'[k] \in Stamp
      <3>1. /\ cr'[k] \in Stamp
            /\ cr'[k].phase = loc[k].phase /\ cr'[k].age = loc[k].age
        <4>1. cr[k] \in Stamp /\ loc[k] \in Stamp
          BY <1>0
        <4>2. /\ Ended(cr[k], loc[k]) \in Stamp
              /\ Ended(cr[k], loc[k]).phase = loc[k].phase
              /\ Ended(cr[k], loc[k]).age = loc[k].age
          BY <4>1, EndedStatus
        <4> QED
          BY <2>1, <4>2
      <3>2. Terminal(loc[k]) /\ loc[k].age = 0 /\ ~Terminal(cr[k])
        BY <2>1 DEF HistoryOf, CarriesOutcome, CopiesAgree
      <3> QED
        BY <1>1, <3>1, <3>2 DEF Terminal
    <2>2. RowKept(k)'
      BY <1>0, <1>1, <1>2, <2>1, <2>10 DEF HistoryOf, RowKept, Writing
    <2>3. CarriesOutcome(k)'
      BY <1>0, <1>1, <1>2, <2>1, <2>10 DEF HistoryOf, CarriesOutcome
    <2>4. CopiesAgree(k)'
      BY <1>0, <1>1, <1>2, <2>1, <2>10
         DEF HistoryOf, CopiesAgree, Copies, Writing, CarriesOutcome
    <2>5. RowMatches(k)'
      BY <1>0, <1>1, <1>2, <2>1, <2>10
         DEF HistoryOf, RowMatches, Stamps, Copies, RowKept, CarriesOutcome,
             CopiesAgree, Writing
    <2>6. RCAKept(k)'
      BY <1>0, <1>1, <1>2, <2>1, <2>10
         DEF HistoryOf, RCAKept, Stamps, Copies, CarriesOutcome
    <2>7. NoOrphan(k)'
      BY <1>0, <1>1, <1>2, <2>1, <2>10 DEF HistoryOf, NoOrphan
    <2>8. VictimsDone(k)'
      BY <1>0, <1>1, <1>2, <2>1, <2>10 DEF HistoryOf, VictimsDone, CopiesAgree
    <2>9. RerunIsYoung(k)' /\ MirrorIsYoung(k)'
      BY <1>0, <1>1, <1>2, <2>1, <2>10
         DEF HistoryOf, RerunIsYoung, MirrorIsYoung, RowKept, CarriesOutcome,
             CopiesAgree, RerunMatches, Stamps, Copies, Writing
    <2>12. RerunMatches(k)'
      BY <1>0, <1>1, <1>2, <2>1, <2>10
         DEF HistoryOf, RerunMatches, RerunIsYoung, MirrorIsYoung, RowKept,
             CarriesOutcome, Stamps, Copies, Writing
    <2> QED
      BY <2>2, <2>3, <2>4, <2>5, <2>6, <2>7, <2>8, <2>9, <2>12 DEF HistoryOf
  <1>16. CASE InsertFails(k)
    <2>1. /\ pc[k] = "insert" /\ pc'[k] = "idle" /\ loc'[k] = None
          /\ \/ /\ cr[k] # None /\ seen[k] = cr[k]
                /\ cr'[k] = NotPersisted(cr[k])
             \/ cr'[k] = cr[k]
          /\ UNCHANGED <<seen, reborn, victims, inc, diags, chat, late>>
      BY <1>16 DEF InsertFails, Goto, Typed
    <2>2. /\ cr'[k] \in Stamp /\ ~Terminal(cr[k]) /\ ~Terminal(cr'[k])
          /\ cr'[k] = cr[k] \/ (~Again(cr'[k]) /\ ~cr'[k].kept)
      BY <1>0, <2>1, StatusSteps DEF HistoryOf, CopiesAgree, Terminal
    <2>3. /\ RowKept(k)' /\ CarriesOutcome(k)' /\ NoOrphan(k)'
          /\ RerunIsYoung(k)' /\ MirrorIsYoung(k)'
      BY <1>0, <1>1, <1>2, <2>1, <2>2
         DEF HistoryOf, RowKept, CarriesOutcome, NoOrphan, RerunIsYoung,
             MirrorIsYoung, Copies, Writing
    <2>4. CopiesAgree(k)'
      BY <1>0, <1>1, <1>2, <2>1, <2>2 DEF HistoryOf, CopiesAgree, Copies, Writing
    <2>5. RowMatches(k)'
      BY <1>0, <1>1, <1>2, <2>1, <2>2 DEF HistoryOf, RowMatches, Stamps, Copies
    <2>6. RCAKept(k)'
      BY <1>0, <1>1, <1>2, <2>1, <2>2 DEF HistoryOf, RCAKept, Stamps, Copies
    <2>7. VictimsDone(k)'
      BY <1>0, <1>1, <1>2, <2>1, <2>2, StatusSteps
         DEF HistoryOf, VictimsDone, CopiesAgree, Copies, Writing
    <2>8. RerunMatches(k)'
      BY <1>0, <1>1, <1>2, <2>1, <2>2
         DEF HistoryOf, RerunMatches, Stamps, Copies
    <2> QED
      BY <2>3, <2>4, <2>5, <2>6, <2>7, <2>8 DEF HistoryOf
  <1>14. CASE Gone(k) \/ ReconcileFails(k)
    <2>1. /\ pc'[k] = "idle" /\ loc'[k] = None
          /\ UNCHANGED <<cr, seen, reborn, victims, inc, diags, chat, late>>
      BY <1>14 DEF Gone, ReconcileFails, Goto, Typed
    <2>2. RowKept(k)'
      BY <1>0, <1>1, <1>2, <2>1 DEF HistoryOf, RowKept, Writing
    <2>3. CarriesOutcome(k)'
      BY <1>0, <1>1, <1>2, <2>1 DEF HistoryOf, CarriesOutcome
    <2>4. CopiesAgree(k)'
      BY <1>0, <1>1, <1>2, <2>1 DEF HistoryOf, CopiesAgree, Copies, Writing
    <2>5. RowMatches(k)'
      BY <1>0, <1>1, <1>2, <2>1 DEF HistoryOf, RowMatches, Stamps, Copies
    <2>6. RCAKept(k)'
      BY <1>0, <1>1, <1>2, <2>1 DEF HistoryOf, RCAKept, Stamps, Copies
    <2>7. NoOrphan(k)'
      BY <1>0, <1>1, <1>2, <2>1 DEF HistoryOf, NoOrphan
    <2>8. VictimsDone(k)'
      BY <1>0, <1>1, <1>2, <2>1 DEF HistoryOf, VictimsDone
    <2>9. RerunIsYoung(k)' /\ MirrorIsYoung(k)'
      BY <1>0, <1>1, <1>2, <2>1
         DEF HistoryOf, RerunIsYoung, MirrorIsYoung, RowKept, CarriesOutcome,
             CopiesAgree, Copies, Writing
    <2>12. RerunMatches(k)'
      BY <1>0, <1>1, <1>2, <2>1
         DEF HistoryOf, RerunMatches, RerunIsYoung, MirrorIsYoung, RowKept,
             CarriesOutcome, Stamps, Copies, Writing
    <2> QED
      BY <2>2, <2>3, <2>4, <2>5, <2>6, <2>7, <2>8, <2>9, <2>12 DEF HistoryOf
  <1>15. CASE Ask(k) \/ Load(k) \/ Reply(k)
    <2>1. /\ UNCHANGED <<cr, seen, reborn, victims, pc, loc, inc, diags>>
          /\ \/ UNCHANGED <<chat, late>>
             \/ late'[k] = (late[k] \/ inc[k] = None)
      BY <1>15 DEF Ask, Load, Reply, ChatRow, Typed
    <2>2. /\ RowKept(k)' /\ CarriesOutcome(k)' /\ CopiesAgree(k)'
          /\ RerunIsYoung(k)' /\ MirrorIsYoung(k)'
      BY <2>1 DEF HistoryOf, RowKept, CarriesOutcome, CopiesAgree, RerunIsYoung,
                  MirrorIsYoung, Copies
    <2>3. /\ RowMatches(k)' /\ RerunMatches(k)' /\ RCAKept(k)'
          /\ VictimsDone(k)'
      BY <2>1 DEF HistoryOf, RowMatches, RerunMatches, RCAKept, VictimsDone,
                  Stamps, Copies
    <2>4. NoOrphan(k)'
      BY <2>1 DEF HistoryOf, NoOrphan
    <2> QED
      BY <2>2, <2>3, <2>4 DEF HistoryOf
  <1> QED
    BY <1>3, <1>4, <1>5, <1>6, <1>7, <1>8, <1>9, <1>10, <1>11, <1>12, <1>13,
       <1>14, <1>15, <1>16 DEF KeyStep, Work

\* Pruning takes a name's rows together, and only if the row is expired: then
\* every terminal copy of its CR is past retention too.
LEMMA HistoryPrune ==
  ASSUME Typed, HistoryInv, PruneRows
  PROVE  HistoryInv'
  <1> SUFFICES ASSUME NEW k \in Keys PROVE HistoryOf(k)'
    BY DEF HistoryInv
  <1> USE DEF crVars, workVars, rowVars
  <1>0. /\ HistoryOf(k)
        /\ cr[k] \in Stamp /\ seen[k] \in Stamp /\ loc[k] \in Stamp
        /\ inc[k] \in Stamp
        /\ Retention \in Nat
    BY RetentionAssumption DEF HistoryInv, Typed
  <1>1. \A s \in Stamp : /\ s.age \in Nat
                         /\ s.phase = "Done" => Terminal(s)
    BY RetentionAssumption DEF Stamp, Ages, Terminal, Finals
  <1>2. None.phase # "Done"
    BY DEF None, At
  <1>3. UNCHANGED <<cr, seen, reborn, pc, loc, victims>>
    BY DEF PruneRows
  <1>4. CASE /\ inc[k] # None /\ inc[k].age > Retention /\ inc'[k] = None
             /\ diags'[k] = FALSE /\ chat'[k] = FALSE
    <2>1. pc[k] \notin Writing
      BY <1>0, <1>1, <1>4 DEF HistoryOf, RowKept
    <2>2. RowKept(k)' /\ CarriesOutcome(k)'
      BY <1>0, <1>3, <2>1 DEF HistoryOf, RowKept, CarriesOutcome, Writing
    <2>3. /\ CopiesAgree(k)' /\ VictimsDone(k)'
          /\ RerunIsYoung(k)' /\ MirrorIsYoung(k)'
      BY <1>0, <1>1, <1>3, <1>4
         DEF HistoryOf, CopiesAgree, VictimsDone, RerunIsYoung, MirrorIsYoung,
             Copies
    <2>4. RowMatches(k)' /\ RerunMatches(k)' /\ NoOrphan(k)'
      BY <1>4 DEF RowMatches, RerunMatches, NoOrphan
    <2>5. RCAKept(k)'
      <3>1. \A s \in Stamps(k) : s \in Stamp
        BY <1>0 DEF Stamps, Copies
      <3>2. \A s \in Stamps(k) : Terminal(s) => s.age > Retention
        BY <1>0, <1>1, <1>4, <3>1 DEF HistoryOf, RowMatches
      <3>3. Stamps(k)' = Stamps(k)
        BY <1>3 DEF Stamps, Copies
      <3> QED
        BY <1>1, <1>2, <1>4, <3>1, <3>2, <3>3 DEF RCAKept
    <2> QED
      BY <2>2, <2>3, <2>4, <2>5 DEF HistoryOf
  <1>5. CASE /\ inc'[k] = inc[k] /\ diags'[k] = diags[k]
             /\ chat'[k] = chat[k] /\ late'[k] = late[k]
    BY <1>0, <1>3, <1>5
       DEF HistoryOf, RowKept, CarriesOutcome, CopiesAgree, RerunIsYoung,
           MirrorIsYoung, RerunMatches, RowMatches,
           RCAKept, NoOrphan, VictimsDone, Stamps, Copies
  <1> QED
    <2>1. CASE Prune
      BY <2>1, <1>4, <1>5 DEF Prune, Without, Expired
    <2>2. CASE UNCHANGED <<rowVars, chat, late>>
      BY <2>2, <1>5
    <2> QED
      BY <2>1, <2>2 DEF PruneRows

\* The list names finished CRs of the cache that have reached the cutoff.
LEMMA HistoryList ==
  ASSUME Typed, HistoryInv, ListVictims
  PROVE  HistoryInv'
  <1> SUFFICES ASSUME NEW k \in Keys PROVE HistoryOf(k)'
    BY DEF HistoryInv
  <1>0. /\ HistoryOf(k) /\ seen[k] \in Stamp
        /\ Retention \in Nat /\ Retention >= 1
    BY RetentionAssumption DEF HistoryInv, Typed
  <1>1. /\ UNCHANGED <<cr, seen, reborn, pc, loc, inc, diags, chat, late>>
        /\ k \in victims' => Prunable(seen[k])
    BY DEF ListVictims, crVars, workVars, rowVars, chatVars
  <1>2. /\ RowKept(k)' /\ CarriesOutcome(k)' /\ CopiesAgree(k)'
        /\ RerunIsYoung(k)' /\ MirrorIsYoung(k)' /\ RerunMatches(k)'
        /\ RowMatches(k)' /\ RCAKept(k)' /\ NoOrphan(k)'
    BY <1>0, <1>1 DEF HistoryOf, RowKept, CarriesOutcome, CopiesAgree,
                      RerunIsYoung, MirrorIsYoung, RerunMatches, RowMatches,
                      RCAKept, NoOrphan, Stamps, Copies
  <1>3. VictimsDone(k)'
    BY <1>0, <1>1 DEF HistoryOf, VictimsDone, CopiesAgree, Prunable
  <1> QED
    BY <1>2, <1>3 DEF HistoryOf

\* A tick meets no worker in the middle of its writes, and no row behind.
LEMMA HistoryTick ==
  ASSUME Typed, HistoryInv, Tick
  PROVE  HistoryInv'
  <1> SUFFICES ASSUME NEW k \in Keys PROVE HistoryOf(k)'
    BY DEF HistoryInv
  <1>0. /\ HistoryOf(k)
        /\ cr[k] \in Stamp /\ loc[k] \in Stamp /\ inc[k] \in Stamp
        /\ Retention \in Nat /\ Retention >= 1
    BY RetentionAssumption DEF HistoryInv, Typed
  <1>1. /\ seen[k] = cr[k]
        /\ cr'[k] = OlderCR(cr[k]) /\ seen'[k] = OlderCR(cr[k])
        /\ loc'[k] = OlderCR(loc[k])
        /\ inc'[k] = IF inc[k] = None THEN None ELSE Older(inc[k])
        /\ UNCHANGED <<reborn, pc, diags, chat, late, victims>>
    BY DEF Tick, chatVars
  <1>2. /\ pc[k] \in {"idle", "mirror", "run"}
        /\ pc[k] = "run" => inc[k].age < Retention
        /\ ~Behind(k)
    BY DEF Tick
  <1>3. \A s \in Stamp : /\ OlderCR(s).phase = s.phase
                         /\ Terminal(OlderCR(s)) <=> Terminal(s)
                         /\ Again(OlderCR(s)) <=> Again(s)
                         /\ OlderCR(s).kept = s.kept
                         /\ ~Settled(s) => OlderCR(s) = s
                         /\ Settled(s) => OlderCR(s).age =
                              IF s.age > Retention THEN s.age ELSE s.age + 1
                         /\ Settled(s) <=> Terminal(s) \/ Again(s)
                         /\ Settled(OlderCR(s)) <=> Settled(s)
                         /\ Again(s) => ~Terminal(s)
                         /\ s.phase = "Done" => Terminal(s)
                         /\ s.age \in Nat
    BY OlderStamp DEF Terminal, Finals, Again, Settled
  <1>4. inc[k] # None =>
          /\ inc'[k].phase = inc[k].phase
          /\ inc'[k].age = IF inc[k].age > Retention THEN inc[k].age
                                                     ELSE inc[k].age + 1
          /\ inc'[k] # None
    <2>1. None.age = 0
      BY DEF None, At
    <2> QED
      BY <1>0, <1>1, <2>1, OlderStamp
  <1>5. RowKept(k)' /\ CarriesOutcome(k)'
    BY <1>0, <1>1, <1>2, <1>3, <1>4
       DEF HistoryOf, RowKept, CarriesOutcome, Writing
  <1>6. CopiesAgree(k)'
    <2>1. pc[k] = "mirror" /\ Again(loc[k]) => ~Terminal(cr[k])
      BY <1>0, <1>2, <1>3 DEF Behind
    <2> QED
      BY <1>0, <1>1, <1>2, <1>3, <2>1
         DEF HistoryOf, CopiesAgree, Copies, Writing
  <1>7. RowMatches(k)'
    <2> SUFFICES ASSUME NEW s \in Stamps(k)', Terminal(s), inc'[k] # None
                 PROVE  s.age = inc'[k].age
      BY <1>0, <1>1, <1>3, <1>4 DEF RowMatches
    <2>1. PICK t \in Stamps(k) : s = OlderCR(t) /\ t \in Stamp
      BY <1>0, <1>1 DEF Stamps, Copies
    <2>2. Terminal(t) /\ inc[k] # None
      BY <1>1, <1>3, <2>1
    <2>3. inc[k].phase = t.phase
      BY <1>1, <1>2, <2>1, <2>2 DEF Behind, Stamps, Copies, Settled
    <2>4. inc[k].age = t.age
      BY <1>0, <1>3, <2>1, <2>2, <2>3 DEF HistoryOf, RowMatches
    <2> QED
      BY <1>3, <1>4, <2>1, <2>2, <2>4
  <1>8. RCAKept(k)'
    <2> SUFFICES ASSUME NEW s \in Stamps(k)' \cup {inc'[k]},
                        s.phase = "Done", ~diags'[k]
                 PROVE  s.age > Retention
      BY DEF RCAKept
    <2>1. CASE s = inc'[k]
      <3>1. inc[k] # None
        BY <1>1, <2>1 DEF None, At
      <3>2. inc[k].age > Retention
        BY <1>1, <1>4, <2>1, <3>1 DEF HistoryInv, HistoryOf, RCAKept
      <3> QED
        BY <1>4, <2>1, <3>1, <3>2
    <2>2. CASE s \in Stamps(k)'
      <3>1. PICK t \in Stamps(k) : s = OlderCR(t) /\ t \in Stamp
        BY <1>0, <1>1, <2>2 DEF Stamps, Copies
      <3>2. t.phase = "Done" /\ t.age > Retention
        BY <1>0, <1>1, <1>3, <3>1 DEF HistoryOf, RCAKept
      <3> QED
        BY <1>3, <3>1, <3>2
    <2> QED
      BY <2>1, <2>2
  <1>9. NoOrphan(k)'
    BY <1>0, <1>1, <1>4 DEF HistoryOf, NoOrphan
  <1>10. VictimsDone(k)'
    <2>1. ~Settled(None) /\ None \in Stamp
      BY StampTypes DEF None, At, Terminal, Finals, Settled, Again
    <2> QED
      BY <1>0, <1>1, <1>3, <2>1 DEF HistoryOf, VictimsDone
  <1>11. RerunIsYoung(k)' /\ MirrorIsYoung(k)'
    <2>1. pc[k] = "mirror" /\ Again(loc[k]) => ~Terminal(cr[k])
      BY <1>0, <1>2, <1>3 DEF Behind
    <2>2. pc[k] = "mirror" /\ Terminal(loc[k]) => ~Again(cr[k])
      BY <1>0, <1>1, <1>2, <1>3
         DEF HistoryOf, MirrorIsYoung, Copies, Behind, Settled, Again, Terminal
    <2>3. RerunIsYoung(k)'
      BY <1>0, <1>1, <1>2, <1>3 DEF HistoryOf, RerunIsYoung, Copies
    <2>4. MirrorIsYoung(k)'
      BY <1>0, <1>1, <1>2, <1>3, <2>1, <2>2
         DEF HistoryOf, MirrorIsYoung, Copies
    <2> QED
      BY <2>3, <2>4
  <1>12. RerunMatches(k)'
    <2> SUFFICES ASSUME NEW s \in Stamps(k)', Again(s), inc'[k] # None
                 PROVE  s.age <= inc'[k].age
      BY DEF RerunMatches
    <2>1. PICK t \in Stamps(k) : s = OlderCR(t) /\ t \in Stamp
      BY <1>0, <1>1 DEF Stamps, Copies
    <2>2. Again(t) /\ inc[k] # None
      BY <1>1, <1>3, <2>1
    <2>3. inc[k].phase = "Diagnosing"
      BY <1>1, <1>2, <2>1, <2>2 DEF Behind, Stamps, Copies, Settled, Again
    <2>4. t.age <= inc[k].age
      BY <1>0, <2>1, <2>2, <2>3 DEF HistoryOf, RerunMatches
    <2>5. s.age = IF t.age > Retention THEN t.age ELSE t.age + 1
      BY <1>3, <2>1, <2>2
    <2> QED
      BY <1>0, <1>3, <1>4, <2>1, <2>2, <2>4, <2>5
  <1> QED
    BY <1>5, <1>6, <1>7, <1>8, <1>9, <1>10, <1>11, <1>12 DEF HistoryOf

LEMMA HistoryCrash ==
  ASSUME Typed, HistoryInv, Crash
  PROVE  HistoryInv'
  <1> SUFFICES ASSUME NEW k \in Keys PROVE HistoryOf(k)'
    BY DEF HistoryInv
  <1>0. HistoryOf(k)
    BY DEF HistoryInv
  <1>1. /\ cr' = cr /\ seen'[k] = cr[k] /\ pc'[k] = "idle" /\ k \notin victims'
        /\ UNCHANGED <<inc, diags, chat, late>>
    BY DEF Crash, rowVars
  <1> QED
    BY <1>0, <1>1
       DEF HistoryOf, RowKept, CarriesOutcome, CopiesAgree, RerunIsYoung,
           MirrorIsYoung, RerunMatches, RowMatches, RCAKept, NoOrphan,
           VictimsDone, Stamps, Copies, Writing, Settled, Again, Terminal,
           Finals

LEMMA HistorySteps ==
  ASSUME Typed, HistoryInv, [Next]_vars
  PROVE  HistoryInv'
  <1>1. ASSUME NEW k \in Keys, KeyStep(k) PROVE HistoryInv'
    <2>1. OthersKept(k)
      BY <1>1, KeptByKeyStep
    <2>2. HistoryOf(k)'
      BY <1>1, HistoryKeyStep DEF HistoryInv
    <2>3. ASSUME NEW j \in Keys \ {k} PROVE HistoryOf(j)'
      <3>1. HistoryOf(j)
        BY DEF HistoryInv
      <3> QED
        BY <2>1, <3>1
           DEF OthersKept, HistoryOf, RowKept, CarriesOutcome, CopiesAgree,
               RerunIsYoung, MirrorIsYoung, RerunMatches, RowMatches, RCAKept,
               NoOrphan, VictimsDone, Stamps, Copies
    <2> QED
      BY <2>2, <2>3 DEF HistoryInv
  <1>2. CASE SweepEnds \/ HistoryKept
    BY <1>2
       DEF SweepEnds, HistoryKept, crVars, workVars, rowVars, chatVars,
           sweepVars, HistoryInv, HistoryOf, RowKept, CarriesOutcome,
           CopiesAgree, RerunIsYoung, MirrorIsYoung, RerunMatches, RowMatches,
           RCAKept, NoOrphan, VictimsDone, Stamps, Copies
  <1> QED
    BY <1>1, <1>2, HistoryPrune, HistoryList, HistoryTick, HistoryCrash,
       HistoryMoves

LEMMA HistoryAlways == Spec => [](Typed /\ HistoryInv)
  <1>1. Init => Typed
    BY StampTypes DEF Init, HistoryInit, Typed
  <1>2. Init => HistoryInv
    <2> SUFFICES ASSUME Init, NEW k \in Keys PROVE HistoryOf(k)
      BY DEF HistoryInv
    <2>1. /\ cr[k] = None /\ seen[k] = None /\ inc[k] = None
          /\ pc[k] = "idle" /\ ~diags[k] /\ ~chat[k]
          /\ victims = {}
      BY DEF Init, HistoryInit
    <2>2. ~Terminal(None) /\ ~Again(None) /\ None.phase # "Done" /\ ~None.kept
      BY DEF None, At, Terminal, Finals, Again
    <2> QED
      BY <2>1, <2>2
         DEF HistoryOf, RowKept, CarriesOutcome, CopiesAgree, RerunIsYoung,
           MirrorIsYoung, RerunMatches, RowMatches,
             RCAKept, NoOrphan, VictimsDone, Stamps, Copies, Writing
  <1>3. Typed /\ [Next]_vars => Typed'
    BY TypedStep
  <1>4. Typed /\ HistoryInv /\ [Next]_vars => HistoryInv'
    BY HistorySteps
  <1> QED
    BY <1>1, <1>2, <1>3, <1>4, PTL DEF Spec

-----------------------------------------------------------------------------
(* Theorems *)

\* RCA rows always belong to an incident row, and chat rows do too unless a
\* turn outlived its incident, whatever the pruner meets.
THEOREM PruningLeavesNoOrphans == Spec => []NoOrphans
  <1>1. HistoryInv => NoOrphans
    BY DEF HistoryInv, HistoryOf, NoOrphan, NoOrphans
  <1> QED
    BY <1>1, HistoryAlways, PTL

\* An incident row that says Done has its RCA, or is past retention: a row the
\* terminal mirror brings back after a sweep is expired already.
THEOREM DoneHasRCA == Spec => []OutcomeHasRCA
  <1>1. HistoryInv => OutcomeHasRCA
    <2> SUFFICES ASSUME HistoryInv, NEW k \in Keys, inc[k].phase = "Done",
                        ~diags[k]
                 PROVE  Expired(inc[k])
      BY DEF OutcomeHasRCA
    <2>1. inc[k] # None
      BY DEF None, At
    <2> QED
      BY <2>1 DEF HistoryInv, HistoryOf, RCAKept, Expired
  <1> QED
    BY <1>1, HistoryAlways, PTL

\* The pruner deletes no CR that is not finished, unless it was created again
\* while the cache or the list was older.
THEOREM OnlyFinishedPruned == Spec => PrunerDeletesOnlyFinished
  <1>1. ASSUME Typed, HistoryInv, [Next]_vars, NEW k \in Keys, k \in victims,
               cr[k] # None, cr'[k] = None, victims' # victims
        PROVE  Terminal(cr[k]) \/ k \in reborn
    BY <1>1 DEF HistoryInv, HistoryOf, VictimsDone
  <1>2. Typed /\ HistoryInv /\ [Next]_vars =>
          [\A k \in Keys :
            (k \in victims /\ cr[k] # None /\ cr'[k] = None
               /\ victims' # victims)
            => Terminal(cr[k]) \/ k \in reborn]_historyVars
    BY <1>1
  <1> QED
    BY <1>2, HistoryAlways, PTL DEF Spec, PrunerDeletesOnlyFinished

\* While the CR of a finished incident is within retention its row stays,
\* however often it is mirrored and swept.
THEOREM HistoryIsKept == Spec => KeptForRetention
  <1>1. ASSUME Typed, HistoryInv, [Next]_vars, NEW k \in Keys,
               inc[k] # None, inc'[k] = None
        PROVE  ~Terminal(cr[k]) \/ cr[k].age > Retention
    <2> USE DEF crVars, workVars, rowVars, chatVars, sweepVars
    <2>0. /\ cr[k] \in Stamp /\ inc[k] \in Stamp /\ Retention \in Nat
          /\ \A s \in Stamp : s.age \in Nat
      BY <1>1, RetentionAssumption DEF Typed, Stamp, Ages
    <2>1. CASE PruneRows
      <3>1. inc[k].age > Retention
        BY <1>1, <2>1 DEF PruneRows, Prune, Without, Expired
      <3> QED
        BY <1>1, <2>0, <3>1
           DEF HistoryInv, HistoryOf, RowMatches, Stamps, Copies
    <2>2. ASSUME NEW j \in Keys, KeyStep(j) PROVE FALSE
      <3>1. j = k
        BY <1>1, <2>2, KeptByKeyStep DEF OthersKept
      <3>2. /\ \A p : At(p, 0).phase = p
            /\ None.phase = "None"
            /\ \A s \in Stamp : Settled(s) => s.phase # "None"
            /\ \A s : Terminal(s) => Settled(s)
        BY DEF At, None, Terminal, Finals, Settled, Again
      <3>3. \/ inc'[k] = inc[k]
            \/ pc[k] = "mirror" /\ inc'[k] = loc[k]
            \/ inc'[k] = At("Diagnosing", 0)
            \/ pc[k] = "finish" /\ inc'[k] = At(loc[k].phase, 0)
        BY <1>1, <2>2, <3>1
           DEF KeyStep, Create, UserDelete, Deliver, Begin, Work, Mirror,
               MirrorOf, UpsertDiagnosing, PatchDiagnosing, Run,
               InsertDiagnosis, InsertFails, Finish, PatchFinal, Gone,
               ReconcileFails, Ask, Load, Reply, DeleteVictim, Typed
      <3>4. loc[k] \in Stamp /\ (pc[k] \in {"mirror", "finish"} => Settled(loc[k]))
        BY <1>1, <3>2 DEF Typed, HistoryInv, HistoryOf, CarriesOutcome
      <3> QED
        BY <1>1, <3>2, <3>3, <3>4
    <2>3. CASE Tick
      <3>1. inc'[k] = Older(inc[k])
        BY <1>1, <2>3 DEF Tick
      <3>2. Older(inc[k]).age # 0
        BY <2>0, OlderStamp
      <3> QED
        BY <1>1, <3>1, <3>2 DEF None, At
    <2>4. CASE ListVictims \/ SweepEnds \/ Crash \/ HistoryKept
      BY <1>1, <2>4 DEF ListVictims, SweepEnds, Crash, HistoryKept
    <2> QED
      BY <1>1, <2>1, <2>2, <2>3, <2>4, HistoryMoves
  <1>2. Typed /\ HistoryInv /\ [Next]_vars =>
          [\A k \in Keys :
            (inc[k] # None /\ inc'[k] = None)
            => ~Terminal(cr[k]) \/ cr[k].age > Retention]_historyVars
    BY <1>1
  <1> QED
    BY <1>2, HistoryAlways, PTL DEF Spec, KeptForRetention

-----------------------------------------------------------------------------
(* The dashboard's requests *)

DetailView ==
    [pc : {"detail"}, key : Keys, row : Stamp, rca : BOOLEAN, reads : 0..2]

ListView ==
    [pc : {"count", "page"}, filter : Filters, page : Nat \ {0},
     totals : [Phases -> Nat]]

\* What a request has read so far, by its kind.
ViewTyped ==
    /\ view.pc \in {"none", "detail", "count", "page", "list"}
    /\ view.pc = "none" => view = NoView
    /\ view.pc = "detail" => view \in DetailView
    /\ view.pc \in {"count", "page"} => view \in ListView
    /\ view.pc = "list" => view.filter \in Filters /\ view.page \in Nat \ {0}

\* Counting rows yields a number: there are finitely many names.
LEMMA CountTypes ==
  ASSUME NEW f
  PROVE  /\ CountIncidents(f) \in Nat
         /\ CountIncidentsByPhase(f) \in [Phases -> Nat]
  <1>1. \A S : S \subseteq Keys => Cardinality(S) \in Nat
    BY FS_Subset, FS_CardinalityType, RetentionAssumption
  <1> QED
    BY <1>1 DEF CountIncidents, CountIncidentsByPhase, Matching

\* There is always a first page.
LEMMA PageNumbers ==
  /\ \A total \in Nat : LastPage(total) \in Nat \ {0}
  /\ \A page \in Pages : FirstPage(page) \in Nat \ {0}
  <1>1. \A n \in Nat : n \div PageSize \in Nat
    BY PageSizeAssumption
  <1>2. \A total \in Nat : total + PageSize - 1 \in Nat
    BY PageSizeAssumption
  <1>3. Cardinality(Keys) \in Nat
    BY FS_CardinalityType, RetentionAssumption
  <1> QED
    BY <1>1, <1>2, <1>3 DEF LastPage, FirstPage, Pages

\* The queries of a detail page, in the code's order.
LEMMA DetailReadSteps ==
  ASSUME view \in DetailView, DetailRead
  PROVE  \/ view' = NoView
         \/ /\ view.reads = 0
            /\ view' = [view EXCEPT !.row = inc[view.key], !.reads = 1]
         \/ /\ view.reads = 1
            /\ view' = [view EXCEPT !.rca = diags[view.key], !.reads = 2]
  <1>1. Len(DetailReads) = 2 /\ DetailReads[1] = "row" /\ DetailReads[2] = "rca"
    BY DEF DetailReads
  <1>2. view.reads = 0 \/ view.reads = 1
    <2>1. view.reads < 2 /\ view.reads \in 0..2
      BY <1>1, Zenon DEF DetailRead, DetailView
    <2> QED
      BY <2>1
  <1>3. CASE view.reads = 0
    <2>1. DetailReads[view.reads + 1] = "row" /\ view.reads + 1 = 1
      BY <1>1, <1>3
    <2>2. \/ view' = NoView
          \/ view' = [view EXCEPT !["row"] = inc[view.key], !.reads = @ + 1]
      BY <2>1 DEF DetailRead, Query
    <2> QED
      BY <1>3, <2>1, <2>2
  <1>4. CASE view.reads = 1
    <2>1. DetailReads[view.reads + 1] = "rca" /\ view.reads + 1 = 2
      BY <1>1, <1>4
    <2>2. view' = [view EXCEPT !["rca"] = diags[view.key], !.reads = @ + 1]
      BY <2>1 DEF DetailRead, Query
    <2> QED
      BY <1>4, <2>1, <2>2
  <1> QED
    BY <1>2, <1>3, <1>4

\* A query fills in one field and is counted.
LEMMA DetailFields ==
  /\ \A v \in DetailView, x \in Stamp : [v EXCEPT !.row = x] \in DetailView
  /\ \A v \in DetailView, x \in BOOLEAN : [v EXCEPT !.rca = x] \in DetailView
  /\ \A v \in DetailView, n \in 0..2 : [v EXCEPT !.reads = n] \in DetailView
  BY DEF DetailView

LEMMA ViewTypedStep ==
  ASSUME Typed, ViewTyped, [Next]_vars
  PROVE  ViewTyped'
  <1>0. NoView.pc = "none"
    BY DEF NoView
  <1>1. ASSUME NEW k \in Keys, Detail(k) PROVE ViewTyped'
    <2>1. view' \in DetailView /\ view'.pc = "detail"
      BY <1>1, StampTypes DEF Detail, DetailView
    <2> QED
      BY <2>1 DEF ViewTyped
  <1>2. ASSUME NEW f \in Filters, NEW page \in Pages, List(f, page)
        PROVE  ViewTyped'
    <2>1. view' \in ListView /\ view'.pc = "count"
      BY <1>2, CountTypes, PageNumbers DEF List, ListView
    <2> QED
      BY <2>1 DEF ViewTyped
  <1>3. CASE DetailRead
    <2>1. view \in DetailView
      BY <1>3 DEF DetailRead, ViewTyped
    <2>2. inc[view.key] \in Stamp /\ diags[view.key] \in BOOLEAN
      BY <2>1 DEF DetailView, Typed
    <2>3. CASE view' = [view EXCEPT !.row = inc[view.key], !.reads = 1]
      <3> DEFINE v == [view EXCEPT !.row = inc[view.key]]
      <3>1. v \in DetailView
        BY <2>1, <2>2, DetailFields
      <3>2. view' = [v EXCEPT !.reads = 1]
        BY <2>3
      <3> HIDE DEF v
      <3>3. view' \in DetailView
        <4>1. 1 \in 0..2
          OBVIOUS
        <4> QED
          BY <3>1, <3>2, <4>1, DetailFields, Zenon
      <3>4. view'.pc = "detail"
        BY <3>3 DEF DetailView
      <3> QED
        BY <3>3, <3>4 DEF ViewTyped
    <2>4. CASE view' = [view EXCEPT !.rca = diags[view.key], !.reads = 2]
      <3> DEFINE v == [view EXCEPT !.rca = diags[view.key]]
      <3>1. v \in DetailView
        BY <2>1, <2>2, DetailFields
      <3>2. view' = [v EXCEPT !.reads = 2]
        BY <2>4
      <3> HIDE DEF v
      <3>3. view' \in DetailView
        <4>1. 2 \in 0..2
          OBVIOUS
        <4> QED
          BY <3>1, <3>2, <4>1, DetailFields, Zenon
      <3>4. view'.pc = "detail"
        BY <3>3 DEF DetailView
      <3> QED
        BY <3>3, <3>4 DEF ViewTyped
    <2>5. CASE view' = NoView
      BY <1>0, <2>5 DEF ViewTyped
    <2> QED
      BY <1>3, <2>1, <2>3, <2>4, <2>5, DetailReadSteps
  <1>4. CASE ListCount
    <2>1. view \in ListView
      BY <1>4 DEF ListCount, ViewTyped
    <2>2. LastPage(CountIncidents(view.filter)) \in Nat \ {0}
      BY CountTypes, PageNumbers
    <2>3. view' \in ListView /\ view'.pc = "page"
      BY <1>4, <2>1, <2>2 DEF ListCount, ListView
    <2> QED
      BY <2>3 DEF ViewTyped
  <1>5. CASE ListPage
    <2>1. view \in ListView
      BY <1>5 DEF ListPage, ViewTyped
    <2>2. view'.pc = "list" /\ view'.filter = view.filter /\ view'.page = view.page
      BY <1>5 DEF ListPage
    <2> QED
      BY <2>1, <2>2 DEF ViewTyped, ListView
  <1>6. CASE Respond \/ Restart
    BY <1>0, <1>6 DEF Respond, Restart, ViewTyped
  <1>7. CASE Background
    <2>1. view' = NoView \/ view' = view
      BY <1>7 DEF Background
    <2> QED
      BY <1>0, <2>1 DEF ViewTyped
  <1>8. CASE Time \/ UNCHANGED vars
    <2>1. view' = view
      BY <1>8 DEF Time, vars
    <2> QED
      BY <2>1 DEF ViewTyped
  <1> QED
    BY <1>1, <1>2, <1>3, <1>4, <1>5, <1>6, <1>7, <1>8 DEF Next, Request, Answer

\* Between the two queries the RCA cannot go: its row is not expired, and a
\* mirror that comes in between leaves it no older.
TruthInSight ==
    (/\ view.pc = "detail" /\ view.reads >= 1
     /\ view.row.phase = "Done" /\ ~Expired(view.row))
    => IF view.reads = 1
       THEN diags[view.key] /\ inc[view.key] # None
                            /\ inc[view.key].age <= Retention
       ELSE view.rca

\* No background step takes the RCA from a row that is not expired.
LEMMA RCAStays ==
  ASSUME Typed, HistoryInv, HistoryStep, NEW k \in Keys,
         diags[k], inc[k] # None, inc[k].age <= Retention
  PROVE  diags'[k] /\ inc'[k] # None /\ inc'[k].age <= Retention
  <1> USE DEF crVars, workVars, rowVars, chatVars, sweepVars
  <1>0. /\ inc[k] \in Stamp /\ loc[k] \in Stamp
        /\ Retention \in Nat /\ Retention >= 1
        /\ \A s \in Stamp : s.age \in Nat
    BY RetentionAssumption DEF Typed, Stamp, Ages
  <1>1. CASE PruneRows
    <2>1. ~Expired(inc[k])
      BY <1>0 DEF Expired
    <2>2. inc'[k] = inc[k] /\ diags'[k] = diags[k]
      BY <1>1, <2>1 DEF PruneRows, Prune, Without
    <2> QED
      BY <2>2
  <1>2. CASE ListVictims \/ SweepEnds
    BY <1>2 DEF ListVictims, SweepEnds
  <1>3. ASSUME NEW j \in Keys, KeyStep(j)
        PROVE  diags'[k] /\ inc'[k] # None /\ inc'[k].age <= Retention
    <2>1. CASE j # k
      BY <1>3, <2>1, KeptByKeyStep DEF OthersKept
    <2>2. CASE j = k
      <3>1. diags'[k]
        BY <1>3, <2>2
           DEF KeyStep, Create, UserDelete, Deliver, Begin, Work, Mirror,
               UpsertDiagnosing, PatchDiagnosing, Run, InsertDiagnosis,
               InsertFails, Finish, PatchFinal, Gone, ReconcileFails, Ask, Load, Reply,
               DeleteVictim, Typed
      <3>2. \/ inc'[k] = inc[k]
            \/ pc[k] = "mirror" /\ inc'[k] = loc[k]
            \/ inc'[k] = At("Diagnosing", 0)
            \/ pc[k] = "finish" /\ inc'[k] = At(loc[k].phase, 0)
        BY <1>3, <2>2
           DEF KeyStep, Create, UserDelete, Deliver, Begin, Work, Mirror,
               MirrorOf, UpsertDiagnosing, PatchDiagnosing, Run,
               InsertDiagnosis, InsertFails, Finish, PatchFinal, Gone,
               ReconcileFails, Ask, Load, Reply, DeleteVictim, Typed
      <3>3. pc[k] \in {"mirror", "finish"} => Settled(loc[k])
        BY DEF HistoryInv, HistoryOf, CarriesOutcome, Settled
      <3>4. pc[k] = "mirror" => loc[k].age <= Retention
        <4>1. ASSUME pc[k] = "mirror", Terminal(loc[k])
              PROVE  loc[k].age <= inc[k].age
          BY <4>1 DEF HistoryInv, HistoryOf, RowMatches, Stamps
        <4>2. ASSUME pc[k] = "mirror", Again(loc[k])
              PROVE  loc[k].age <= inc[k].age \/ loc[k].age <= Retention
          BY <4>2 DEF HistoryInv, HistoryOf, RerunMatches, Stamps
        <4> QED
          BY <1>0, <3>3, <4>1, <4>2 DEF Settled
      <3>5. /\ \A p : At(p, 0).phase = p /\ At(p, 0).age = 0
            /\ None.phase = "None"
            /\ Settled(loc[k]) => loc[k].phase # "None"
        BY DEF At, None, Terminal, Finals, Settled, Again
      <3> QED
        BY <1>0, <3>1, <3>2, <3>3, <3>4, <3>5
    <2> QED
      BY <2>1, <2>2
  <1> QED
    BY <1>1, <1>2, <1>3 DEF HistoryStep, Sweep, KeyStep

LEMMA TruthStep ==
  ASSUME Typed, HistoryInv, ViewTyped, TruthInSight, [Next]_vars
  PROVE  TruthInSight'
  <1>0. NoView.pc = "none"
    BY DEF NoView
  <1>1. CASE Request
    <2>1. view'.pc = "detail" => view'.reads = 0
      BY <1>1 DEF Request, Detail, List
    <2> QED
      BY <2>1 DEF TruthInSight
  <1>2. CASE DetailRead
    <2>1. view \in DetailView
      BY <1>2 DEF DetailRead, ViewTyped
    <2>2. UNCHANGED <<inc, diags>> /\ view.key \in Keys
      BY <1>2, <2>1 DEF DetailRead, DetailView, historyVars, rowVars
    <2>3. CASE view' = NoView
      BY <1>0, <2>3 DEF TruthInSight
    <2>4. CASE /\ view.reads = 0
               /\ view' = [view EXCEPT !.row = inc[view.key], !.reads = 1]
      <3>1. view'.key = view.key /\ view'.row = inc[view.key] /\ view'.reads = 1
        BY <2>1, <2>4 DEF DetailView
      <3>2. ASSUME inc[view.key].phase = "Done", ~Expired(inc[view.key])
            PROVE  /\ diags[view.key] /\ inc[view.key] # None
                   /\ inc[view.key].age <= Retention
        <4>1. inc[view.key] # None
          BY <3>2 DEF None, At
        <4>2. inc[view.key].age \in Nat /\ Retention \in Nat
          BY <2>2, RetentionAssumption DEF Typed, Stamp, Ages
        <4>3. inc[view.key].age <= Retention
          BY <3>2, <4>1, <4>2 DEF Expired
        <4> QED
          BY <2>2, <3>2, <4>1, <4>2, <4>3 DEF HistoryInv, HistoryOf, RCAKept
      <3> QED
        BY <2>2, <3>1, <3>2 DEF TruthInSight, Expired
    <2>5. CASE /\ view.reads = 1
               /\ view' = [view EXCEPT !.rca = diags[view.key], !.reads = 2]
      <3>1. /\ view'.row = view.row /\ view'.rca = diags[view.key]
            /\ view'.reads = 2 /\ view.pc = "detail"
        BY <2>1, <2>5 DEF DetailView
      <3> QED
        BY <2>5, <3>1 DEF TruthInSight, Expired
    <2> QED
      BY <1>2, <2>1, <2>3, <2>4, <2>5, DetailReadSteps
  <1>3. CASE ListCount
    <2>1. view'.pc = "page"
      BY <1>3 DEF ListCount, ViewTyped, ListView
    <2> QED
      BY <2>1 DEF TruthInSight
  <1>4. CASE ListPage
    <2>1. view'.pc = "list"
      BY <1>4 DEF ListPage
    <2> QED
      BY <2>1 DEF TruthInSight
  <1>5. CASE Respond \/ Restart
    BY <1>0, <1>5 DEF Respond, Restart, TruthInSight
  <1>6. CASE Background
    <2>1. CASE view' = NoView
      BY <1>0, <2>1 DEF TruthInSight
    <2>2. CASE view' = view /\ view.pc # "detail"
      BY <2>2 DEF TruthInSight
    <2>3. CASE view' = view /\ view.pc = "detail"
      <3>1. view.key \in Keys
        BY <2>3 DEF ViewTyped, DetailView
      <3> QED
        BY <1>6, <2>3, <3>1, RCAStays DEF Background, TruthInSight, Expired
    <2> QED
      BY <1>6, <2>1, <2>2, <2>3 DEF Background
  <1>7. CASE Time
    BY <1>0, <1>7 DEF Time, TruthInSight
  <1>8. CASE UNCHANGED vars
    BY <1>8 DEF vars, historyVars, rowVars, TruthInSight, Expired
  <1> QED
    BY <1>1, <1>2, <1>3, <1>4, <1>5, <1>6, <1>7, <1>8 DEF Next, Answer

\* Every variable holds a value of its type, a request's own state included: a
\* page number is never below 1, whatever was asked for.
THEOREM DashboardTypes == Spec => []TypeOK
  <1>1. Init => /\ Typed /\ ViewTyped /\ events \in 0..MaxEvents
    <2>1. Init => Typed
      BY StampTypes DEF Init, HistoryInit, Typed
    <2>2. Init => ViewTyped
      BY DEF Init, NoView, ViewTyped
    <2>3. Init => events \in 0..MaxEvents
      BY RetentionAssumption DEF Init, HistoryInit
    <2> QED
      BY <2>1, <2>2, <2>3
  <1>2. /\ Typed /\ ViewTyped /\ events \in 0..MaxEvents /\ [Next]_vars
        => (Typed /\ ViewTyped /\ events \in 0..MaxEvents)'
    BY TypedStep, ViewTypedStep, EventsStep
  <1>3. Typed /\ ViewTyped /\ events \in 0..MaxEvents => TypeOK
    BY TypedOK DEF TypeOK, ViewTyped, ListView
  <1> QED
    BY <1>1, <1>2, <1>3, PTL DEF Spec

\* The detail page tells the truth although its two queries are not one
\* transaction: what it shows as Done comes with its RCA, unless the row was
\* past retention already when it was read.
THEOREM DetailIsTruthful == Spec => []DetailTruthful
  <1>1. Init => ViewTyped /\ TruthInSight
    BY DEF Init, NoView, ViewTyped, TruthInSight
  <1>2. Typed /\ ViewTyped /\ [Next]_vars => ViewTyped'
    BY ViewTypedStep
  <1>3. Typed /\ HistoryInv /\ ViewTyped /\ TruthInSight /\ [Next]_vars
        => TruthInSight'
    BY TruthStep
  <1>4. ViewTyped /\ TruthInSight => DetailTruthful
    BY DEF TruthInSight, DetailTruthful, DetailShown, DetailReads
  <1> QED
    BY <1>1, <1>2, <1>3, <1>4, HistoryAlways, PTL DEF Spec

-----------------------------------------------------------------------------
(* The order of the list *)

\* Every name has a rank of its own.
LEMMA NameRanks ==
  /\ \A k \in Keys : NameRank(k) \in Nat
  /\ \A a, b \in Keys : NameRank(a) = NameRank(b) => a = b
  <1> DEFINE n == Cardinality(Keys)
             q == NameOrder
  <1>1. IsFiniteSet(Keys) /\ n \in Nat /\ ExistsBijection(1..n, Keys)
    BY FS_CardinalityType, RetentionAssumption
  <1>2. q \in [1..n -> Keys] /\ IsInjective(q)
    <2>1. PICK f : f \in Bijection(1..n, Keys)
      BY <1>1 DEF ExistsBijection
    <2>2. f \in [1..n -> Keys] /\ IsInjective(f)
      BY <2>1 DEF Bijection, Injection, IsInjective
    <2> QED
      BY <2>2 DEF NameOrder, SetToSeq
  <1> HIDE DEF q
  <1>3. q \in Surjection(1..n, Keys)
    <2>1. q \in Injection(1..n, Keys)
      BY <1>2 DEF Injection, IsInjective
    <2>2. Cardinality(1..n) = n
      BY <1>1, FS_Interval
    <2> QED
      BY <1>1, <2>1, <2>2, FS_Injection
  <1>4. \A k \in Keys : NameRank(k) \in 1..n /\ q[NameRank(k)] = k
    <2> SUFFICES ASSUME NEW k \in Keys
                 PROVE  NameRank(k) \in 1..n /\ q[NameRank(k)] = k
      OBVIOUS
    <2>1. \E i \in DOMAIN q : q[i] = k
      BY <1>2, <1>3 DEF Surjection
    <2>2. NameRank(k) = CHOOSE i \in DOMAIN q : q[i] = k
      BY DEF NameRank, q
    <2> QED
      BY <1>2, <2>1, <2>2
  <1> QED
    BY <1>1, <1>4

\* Rows are listed in a strict total order.
LEMMA RowOrder ==
  ASSUME Typed
  PROVE  /\ \A a \in Keys : ~Before(a, a)
         /\ \A a, b \in Keys : a # b => Before(a, b) \/ Before(b, a)
         /\ \A a, b, c \in Keys : Before(a, b) /\ Before(b, c) => Before(a, c)
  <1>1. \A k \in Keys : inc[k].age \in Nat
    BY RetentionAssumption DEF Typed, Stamp, Ages
  <1> QED
    BY <1>1, NameRanks DEF Before

\* The rows of S before k.
Ahead(S, k) == {o \in S : Before(o, k)}

LEMMA FewerAhead ==
  ASSUME Typed, NEW S \in SUBSET Keys
  PROVE  /\ IsFiniteSet(S) /\ Cardinality(S) \in Nat
         /\ \A k \in S : Cardinality(Ahead(S, k)) \in 0..Cardinality(S) - 1
         /\ \A a, b \in S :
              Before(a, b) => Cardinality(Ahead(S, a)) < Cardinality(Ahead(S, b))
  <1>1. IsFiniteSet(S) /\ Cardinality(S) \in Nat
    BY FS_Subset, FS_CardinalityType, RetentionAssumption
  <1>2. \A T : T \in SUBSET S => IsFiniteSet(T) /\ Cardinality(T) \in Nat
                                 /\ Cardinality(T) <= Cardinality(S)
    BY <1>1, FS_Subset, FS_CardinalityType
  <1>3. ASSUME NEW T \in SUBSET S, NEW U \in SUBSET T, NEW x \in T \ U
        PROVE  Cardinality(U) < Cardinality(T)
    <2>1. Cardinality(U) <= Cardinality(T) /\ Cardinality(T) # Cardinality(U)
      BY <1>2, FS_Subset
    <2> QED
      BY <1>2, <2>1
  <1>4. \A a, b \in S : Before(a, b) => /\ Ahead(S, a) \subseteq Ahead(S, b)
                                        /\ a \in Ahead(S, b) \ Ahead(S, a)
    BY RowOrder DEF Ahead
  <1>5. \A k \in S : Ahead(S, k) \subseteq S /\ k \in S \ Ahead(S, k)
    BY RowOrder DEF Ahead
  <1>6. \A k \in S : Cardinality(Ahead(S, k)) \in 0..Cardinality(S) - 1
    <2> SUFFICES ASSUME NEW k \in S
                 PROVE  Cardinality(Ahead(S, k)) \in 0..Cardinality(S) - 1
      OBVIOUS
    <2>1. Cardinality(Ahead(S, k)) < Cardinality(S)
      BY <1>3, <1>5
    <2>2. Cardinality(Ahead(S, k)) \in Nat
      BY <1>2, <1>5
    <2> QED
      BY <1>1, <2>1, <2>2
  <1>7. \A a, b \in S :
          Before(a, b) => Cardinality(Ahead(S, a)) < Cardinality(Ahead(S, b))
    <2> SUFFICES ASSUME NEW a \in S, NEW b \in S, Before(a, b)
                 PROVE  Cardinality(Ahead(S, a)) < Cardinality(Ahead(S, b))
      OBVIOUS
    <2>1. Ahead(S, b) \in SUBSET S
      BY <1>5
    <2> QED
      BY <1>3, <1>4, <2>1
  <1> QED
    BY <1>1, <1>6, <1>7

\* There is a sorted list: each row at the place after those before it.
LEMMA CanBeSorted ==
  ASSUME Typed, NEW S \in SUBSET Keys
  PROVE  Sorted(S) \in [1..Cardinality(S) -> S] /\ InOrder(Sorted(S))
  <1> DEFINE n == Cardinality(S)
             place == [k \in S |-> Cardinality(Ahead(S, k)) + 1]
  <1>1. IsFiniteSet(S) /\ n \in Nat
    BY FewerAhead
  <1>2. \A k \in S : Cardinality(Ahead(S, k)) \in 0..n - 1
    BY FewerAhead
  <1>3. \A a, b \in S :
          Before(a, b) => Cardinality(Ahead(S, a)) < Cardinality(Ahead(S, b))
    BY FewerAhead
  <1>4. place \in [S -> 1..n] /\ \A a, b \in S : Before(a, b) => place[a] < place[b]
    <2> HIDE DEF n
    <2> QED
      BY <1>1, <1>2, <1>3
  <1> HIDE DEF place
  <1>5. \A a, b \in S : a # b => place[a] # place[b]
    <2>1. \A a \in S : place[a] \in Nat
      BY <1>1, <1>4
    <2>2. \A a, b \in S : a # b => Before(a, b) \/ Before(b, a)
      BY RowOrder
    <2> QED
      BY <1>4, <2>1, <2>2
  <1>6. place \in Surjection(S, 1..n)
    <2>1. place \in Injection(S, 1..n)
      BY <1>4, <1>5 DEF Injection, IsInjective
    <2>2. IsFiniteSet(1..n) /\ Cardinality(1..n) = n
      BY <1>1, FS_Interval
    <2> QED
      BY <2>1, <2>2, FS_Injection
  <1> DEFINE s == [i \in 1..n |-> CHOOSE k \in S : place[k] = i]
  <1>7. \A i \in 1..n : s[i] \in S /\ place[s[i]] = i
    BY <1>6 DEF Surjection
  <1>8. s \in [1..n -> S] /\ DOMAIN s = 1..n
    BY <1>7
  <1> HIDE DEF s
  <1>9. InOrder(s)
    <2> SUFFICES ASSUME NEW i \in 1..n, NEW j \in 1..n, i < j
                 PROVE  Before(s[i], s[j])
      BY <1>8 DEF InOrder
    <2>1. s[i] \in S /\ s[j] \in S /\ place[s[i]] = i /\ place[s[j]] = j
      BY <1>7
    <2>2. s[i] # s[j] /\ ~(j < i)
      BY <1>1, <2>1
    <2>3. ~Before(s[j], s[i])
      BY <1>4, <2>1, <2>2
    <2> QED
      BY <2>1, <2>2, <2>3, RowOrder
  <1> QED
    BY <1>8, <1>9 DEF Sorted

\* And in a sorted list there is no other place for a row.
LEMMA PlaceInList ==
  ASSUME Typed, NEW S \in SUBSET Keys,
         NEW s \in [1..Cardinality(S) -> S], InOrder(s)
  PROVE  /\ \A k \in S : \E i \in 1..Cardinality(S) : s[i] = k
         /\ \A i \in 1..Cardinality(S) : Cardinality(Ahead(S, s[i])) = i - 1
  <1> DEFINE n == Cardinality(S)
  <1>1. IsFiniteSet(S) /\ n \in Nat
    BY FewerAhead
  <1>2. \A i, j \in 1..n : i < j => Before(s[i], s[j])
    BY DEF InOrder
  <1>3. \A i, j \in 1..n : i # j => s[i] # s[j]
    <2> SUFFICES ASSUME NEW i \in 1..n, NEW j \in 1..n, i # j
                 PROVE  s[i] # s[j]
      OBVIOUS
    <2>1. i < j \/ j < i
      BY <1>1
    <2>2. s[i] \in Keys
      OBVIOUS
    <2> QED
      BY <1>2, <2>1, <2>2, RowOrder
  <1>4. s \in Surjection(1..n, S)
    <2>1. s \in Injection(1..n, S)
      BY <1>3 DEF Injection, IsInjective
    <2>2. Cardinality(1..n) = n
      BY <1>1, FS_Interval
    <2> QED
      BY <1>1, <2>1, <2>2, FS_Injection
  <1>5. \A k \in S : \E i \in 1..n : s[i] = k
    BY <1>4 DEF Surjection
  <1>6. ASSUME NEW i \in 1..n
        PROVE  Cardinality(Ahead(S, s[i])) = i - 1
    <2> DEFINE T == Ahead(S, s[i])
               f == [j \in 1..i - 1 |-> s[j]]
    <2>1. i - 1 \in Nat /\ \A j \in 1..i - 1 : j \in 1..n /\ j < i
      BY <1>1
    <2>2. \A j \in 1..i - 1 : s[j] \in T
      BY <1>2, <2>1 DEF Ahead
    <2>3. \A k \in T : \E j \in 1..i - 1 : s[j] = k
      <3> SUFFICES ASSUME NEW k \in T PROVE \E j \in 1..i - 1 : s[j] = k
        OBVIOUS
      <3>1. k \in S /\ Before(k, s[i])
        BY DEF Ahead
      <3>2. PICK j \in 1..n : s[j] = k
        BY <1>5, <3>1
      <3>3. ~(i < j) /\ i # j
        <4>1. ~Before(s[i], s[j])
          <5>1. s[i] \in Keys /\ k \in Keys
            BY <3>1
          <5> QED
            BY <3>1, <3>2, <5>1, RowOrder
        <4>2. k # s[i]
          BY <3>1, RowOrder
        <4> QED
          BY <1>2, <3>2, <4>1, <4>2
      <3>4. j \in 1..i - 1
        BY <1>1, <3>3
      <3> QED
        BY <3>2, <3>4
    <2> HIDE DEF T
    <2>4. f \in Bijection(1..i - 1, T)
      <3>1. f \in Injection(1..i - 1, T)
        BY <1>3, <2>1, <2>2 DEF Injection, IsInjective
      <3>2. f \in Surjection(1..i - 1, T)
        BY <2>2, <2>3 DEF Surjection
      <3> QED
        BY <3>1, <3>2 DEF Bijection
    <2>5. ExistsBijection(1..i - 1, T)
      BY <2>4 DEF ExistsBijection
    <2>6. Cardinality(T) = i - 1
      BY <2>1, <2>5, FS_CountingElements
    <2> QED
      BY <2>6 DEF T
  <1> QED
    BY <1>5, <1>6

\* What division by the page size means, row by row and page by page.
LEMMA PageBounds ==
  /\ \A n, q \in Nat :
       n \div PageSize = q <=> q * PageSize <= n /\ n < q * PageSize + PageSize
  /\ \A total \in Nat, page \in Nat \ {0} :
       /\ page <= LastPage(total) /\ total > 0 => (page - 1) * PageSize < total
       /\ page <= LastPage(0) => page = 1
  /\ \A page \in Nat \ {0} : (page - 1) * PageSize \in Nat
  <1> USE PageSizeAssumption
  <1>1. \A n \in Nat : /\ n \div PageSize \in Nat
                       /\ (n \div PageSize) * PageSize <= n
                       /\ n < (n \div PageSize) * PageSize + PageSize
    OBVIOUS
  <1>2. \A p, q \in Nat : p < q => p * PageSize + PageSize <= q * PageSize
    OBVIOUS
  <1>3. \A q \in Nat : q * PageSize \in Nat
    OBVIOUS
  <1>4. \A n, q \in Nat :
       n \div PageSize = q <=> q * PageSize <= n /\ n < q * PageSize + PageSize
    <2> SUFFICES ASSUME NEW n \in Nat, NEW q \in Nat,
                        q * PageSize <= n, n < q * PageSize + PageSize
                 PROVE  n \div PageSize = q
      BY <1>1
    <2> DEFINE d == n \div PageSize
    <2>1. d \in Nat /\ d * PageSize <= n /\ n < d * PageSize + PageSize
      BY <1>1
    <2> HIDE DEF d
    <2>2. ~(d < q)
      BY <1>2, <1>3, <2>1
    <2>3. ~(q < d)
      BY <1>2, <1>3, <2>1
    <2>4. d = q
      BY <2>1, <2>2, <2>3
    <2> QED
      BY <2>4 DEF d
  <1>5. ASSUME NEW total \in Nat, NEW page \in Nat \ {0},
               page <= LastPage(total), total > 0
        PROVE  (page - 1) * PageSize < total
    <2> DEFINE d == (total + PageSize - 1) \div PageSize
    <2>1. total + PageSize - 1 \in Nat
      OBVIOUS
    <2>2. d \in Nat /\ d * PageSize <= total + PageSize - 1
      BY <1>1, <2>1
    <2>3. page <= d \/ page <= 1
      BY <1>5 DEF LastPage
    <2> HIDE DEF d
    <2>4. page - 1 \in Nat
      OBVIOUS
    <2>5. CASE page = 1
      <3>1. (page - 1) * PageSize = 0
        BY <2>5
      <3> QED
        BY <1>5, <3>1
    <2>6. CASE page <= d
      <3>1. (page - 1) * PageSize + PageSize <= d * PageSize
        BY <1>2, <2>2, <2>4, <2>6
      <3> QED
        BY <1>3, <2>2, <2>4, <3>1
    <2> QED
      BY <2>3, <2>5, <2>6
  <1>6. LastPage(0) = 1
    <2>1. (PageSize - 1) \div PageSize = 0
      <3>1. PageSize - 1 \in Nat /\ 0 \in Nat /\ 0 * PageSize = 0
        OBVIOUS
      <3> QED
        BY <1>4, <3>1
    <2>2. 0 + PageSize - 1 = PageSize - 1
      OBVIOUS
    <2> QED
      BY <2>1, <2>2 DEF LastPage
  <1>7. \A page \in Nat \ {0} : page <= 1 => page = 1
    OBVIOUS
  <1>8. \A page \in Nat \ {0} : (page - 1) * PageSize \in Nat
    BY <1>3
  <1> QED
    BY <1>4, <1>5, <1>6, <1>7, <1>8

\* The page that is read is the slice of the matches that was asked for.
LEMMA PageIsASlice ==
  ASSUME Typed, NEW f, NEW page \in Nat \ {0},
         page <= LastPage(CountIncidents(f))
  PROVE  LET rows == ListIncidentsPage(f, PageSize, (page - 1) * PageSize)
         IN  /\ ToSet(rows) = Slice(f, page)
             /\ rows = <<>> <=> Matching(f) = {}
  <1> DEFINE S == Matching(f)
             n == Cardinality(S)
             s == Sorted(S)
             from == (page - 1) * PageSize
             to == IF from + PageSize < n THEN from + PageSize ELSE n
             rows == SubSeq(s, from + 1, to)
  <1>1. S \in SUBSET Keys /\ IsFiniteSet(S) /\ n \in Nat /\ n = CountIncidents(f)
    BY FewerAhead DEF Matching, CountIncidents
  <1>2. s \in [1..n -> S] /\ InOrder(s)
    BY <1>1, CanBeSorted
  <1> HIDE DEF S, s
  <1>3. /\ \A k \in S : \E i \in 1..n : s[i] = k
        /\ \A i \in 1..n : Cardinality(Ahead(S, s[i])) = i - 1
    BY <1>1, <1>2, PlaceInList
  <1>4. s \in Seq(S) /\ Len(s) = n
    BY <1>1, <1>2
  <1> HIDE DEF n
  <1>5. ListIncidentsPage(f, PageSize, from) = rows
    BY <1>4 DEF ListIncidentsPage, S, s
  <1>6. from \in Nat /\ PageSize \in Nat \ {0}
    BY PageBounds, PageSizeAssumption
  <1> HIDE DEF from
  <1>7. to \in Nat /\ to <= n /\ to <= from + PageSize
        /\ \A i \in 1..n : i <= from + PageSize => i <= to
    BY <1>1, <1>6
  <1> HIDE DEF to
  <1>8. \A k \in S : k \in Slice(f, page) <=>
            from <= Cardinality(Ahead(S, k))
              /\ Cardinality(Ahead(S, k)) < from + PageSize
    <2> SUFFICES ASSUME NEW k \in S
                 PROVE  k \in Slice(f, page) <=>
                          from <= Cardinality(Ahead(S, k))
                            /\ Cardinality(Ahead(S, k)) < from + PageSize
      OBVIOUS
    <2>1. Cardinality(Ahead(S, k)) \in Nat
      BY <1>1, FewerAhead
    <2>2. k \in Slice(f, page) <=>
            Cardinality(Ahead(S, k)) \div PageSize = page - 1
      BY DEF Slice, Ahead, S
    <2>3. page - 1 \in Nat
      OBVIOUS
    <2> QED
      BY <2>1, <2>2, <2>3, PageBounds DEF from
  <1>9. Slice(f, page) \subseteq S
    BY DEF Slice, S
  <1>10. \A i \in 1..n : s[i] \in Slice(f, page) <=> i \in from + 1..to
    <2> SUFFICES ASSUME NEW i \in 1..n
                 PROVE  s[i] \in Slice(f, page) <=> i \in from + 1..to
      OBVIOUS
    <2>1. s[i] \in Slice(f, page) <=> from <= i - 1 /\ i - 1 < from + PageSize
      BY <1>2, <1>3, <1>8
    <2> QED
      BY <1>1, <1>6, <1>7, <2>1
  <1>11. Slice(f, page) = {s[i] : i \in from + 1..to}
    <2>1. \A i \in from + 1..to : i \in 1..n
      BY <1>1, <1>6, <1>7
    <2>2. \A k \in Slice(f, page) : \E i \in from + 1..to : s[i] = k
      BY <1>3, <1>9, <1>10
    <2>3. \A i \in from + 1..to : s[i] \in Slice(f, page)
      BY <1>10, <2>1
    <2> QED
      BY <2>2, <2>3
  <1>12. ToSet(rows) = {s[i] : i \in from + 1..to}
    <2>1. CASE from + 1 <= to
      <3>1. /\ Len(rows) = to - from
            /\ \A j \in 1..to - from : rows[j] = s[from + j]
            /\ DOMAIN rows = 1..to - from
        BY <1>1, <1>4, <1>6, <1>7, <2>1, SubSeqProperties
      <3>2. \A i \in from + 1..to : i - from \in 1..to - from
                                    /\ from + (i - from) = i
        BY <1>6, <1>7
      <3>3. \A j \in 1..to - from : from + j \in from + 1..to
        BY <1>6, <1>7
      <3> HIDE DEF rows
      <3> QED
        BY <3>1, <3>2, <3>3 DEF ToSet
    <2>2. CASE ~(from + 1 <= to)
      <3>1. rows = <<>> /\ from + 1..to = {}
        BY <1>6, <1>7, <2>2
      <3> HIDE DEF rows
      <3>2. ToSet(rows) = {}
        BY <3>1 DEF ToSet
      <3> QED
        BY <3>1, <3>2
    <2> QED
      BY <2>1, <2>2
  <1>13. rows = <<>> <=> S = {}
    <2>1. rows = <<>> <=> ~(from + 1 <= to)
      BY <1>1, <1>4, <1>6, <1>7, SubSeqProperties
    <2>2. n > 0 => from + 1 <= to
      <3> SUFFICES ASSUME n > 0 PROVE from + 1 <= to
        OBVIOUS
      <3>1. from < n
        BY <1>1, PageBounds DEF from
      <3> QED
        BY <1>1, <1>6, <3>1 DEF to
    <2>3. n = 0 => ~(from + 1 <= to)
      BY <1>6, <1>7
    <2>4. n = 0 <=> S = {}
      BY <1>1, FS_EmptySet DEF n
    <2> QED
      BY <1>1, <2>1, <2>2, <2>3, <2>4
  <1> QED
    BY <1>5, <1>11, <1>12, <1>13 DEF S, from

\* Counting by phase is filtering by phase.
LEMMA TotalsAgree ==
  ASSUME NEW f \in Filters, NEW p \in Phases
  PROVE  CountIncidentsByPhase(f)[p] = CountIncidents([f EXCEPT !.phase = p])
  <1> DEFINE g == [f EXCEPT !.phase = p]
  <1>1. p # ""
    BY DEF Phases, Finals
  <1>2. g.phase = p /\ g.names = f.names
    BY DEF Filters
  <1> HIDE DEF g
  <1>3. Matching(g) = {k \in Keys : Matches(f, k, FALSE) /\ inc[k].phase = p}
    BY <1>1, <1>2 DEF Matching, Matches
  <1> QED
    BY <1>3 DEF CountIncidentsByPhase, CountIncidents, g

\* What the queries of a list have in common as long as the rows stay.
ListInSight ==
    /\ view.pc \in {"count", "page", "list"} =>
         \A p \in Phases :
            view.totals[p] = CountIncidents([view.filter EXCEPT !.phase = p])
    /\ view.pc = "page" => view.page <= LastPage(CountIncidents(view.filter))
    /\ view.pc = "list" =>
         /\ ToSet(view.rows) = Slice(view.filter, view.page)
         /\ view.rows = <<>> <=> Matching(view.filter) = {}

\* The rows stay: every query finds what it would have found.
LEMMA SameRows ==
  ASSUME inc' = inc
  PROVE  \A f : /\ Matching(f)' = Matching(f)
                /\ CountIncidents(f)' = CountIncidents(f)
                /\ \A page : Slice(f, page)' = Slice(f, page)
  <1>1. \A f : Matching(f)' = Matching(f)
    BY DEF Matching, Matches
  <1>2. \A a, b : Before(a, b)' = Before(a, b)
    BY DEF Before
  <1> QED
    BY <1>1, <1>2 DEF CountIncidents, Slice

LEMMA ListStep ==
  ASSUME Typed, ViewTyped, ListInSight, [Next]_vars
  PROVE  ListInSight'
  <1>0. NoView.pc = "none"
    BY DEF NoView
  <1>1. ASSUME NEW k \in Keys, Detail(k) PROVE ListInSight'
    <2>1. view'.pc = "detail"
      BY <1>1 DEF Detail
    <2> QED
      BY <2>1 DEF ListInSight
  <1>2. ASSUME NEW f \in Filters, NEW page \in Pages, List(f, page)
        PROVE  ListInSight'
    <2>1. /\ view'.pc = "count" /\ view'.filter = f
          /\ view'.totals = CountIncidentsByPhase(f) /\ inc' = inc
      BY <1>2 DEF List, rowVars
    <2>2. \A p \in Phases :
            (view.totals[p] = CountIncidents([view.filter EXCEPT !.phase = p]))'
      BY <2>1, TotalsAgree, SameRows
    <2> QED
      BY <2>1, <2>2 DEF ListInSight
  <1>3. CASE DetailRead
    <2>1. view \in DetailView
      BY <1>3 DEF DetailRead, ViewTyped
    <2>2. view'.pc = "none" \/ view'.pc = "detail"
      BY <1>0, <1>3, <2>1, DetailReadSteps DEF DetailView
    <2> QED
      BY <2>2 DEF ListInSight
  <1>4. CASE ListCount
    <2> DEFINE last == LastPage(CountIncidents(view.filter))
    <2>1. view \in ListView /\ view.pc = "count" /\ inc' = inc
      BY <1>4 DEF ListCount, ViewTyped, historyVars, rowVars
    <2>2. last \in Nat \ {0} /\ view.page \in Nat
      BY <2>1, CountTypes, PageNumbers DEF ListView
    <2>3. /\ view'.pc = "page" /\ view'.filter = view.filter
          /\ view'.totals = view.totals /\ view'.page <= last
      BY <1>4, <2>1, <2>2 DEF ListCount, ListView
    <2>4. \A p \in Phases :
            (view.totals[p] = CountIncidents([view.filter EXCEPT !.phase = p]))'
      BY <2>1, <2>3, SameRows DEF ListInSight
    <2>5. CountIncidents(view.filter)' = CountIncidents(view.filter)
      BY <2>1, <2>3, SameRows
    <2> QED
      BY <2>3, <2>4, <2>5 DEF ListInSight
  <1>5. CASE ListPage
    <2>1. view \in ListView /\ view.pc = "page" /\ inc' = inc
      BY <1>5 DEF ListPage, ViewTyped, historyVars, rowVars
    <2>2. /\ view'.pc = "list" /\ view'.filter = view.filter
          /\ view'.totals = view.totals /\ view'.page = view.page
          /\ view'.rows = ListIncidentsPage(view.filter, PageSize,
                                            (view.page - 1) * PageSize)
      BY <1>5 DEF ListPage
    <2>3. view.page \in Nat \ {0}
          /\ view.page <= LastPage(CountIncidents(view.filter))
      BY <2>1 DEF ListView, ListInSight
    <2>4. /\ ToSet(view'.rows) = Slice(view.filter, view.page)
          /\ view'.rows = <<>> <=> Matching(view.filter) = {}
      BY <2>2, <2>3, PageIsASlice
    <2>5. \A p \in Phases :
            (view.totals[p] = CountIncidents([view.filter EXCEPT !.phase = p]))'
      BY <2>1, <2>2, SameRows DEF ListInSight
    <2>6. /\ Slice(view.filter, view.page)' = Slice(view.filter, view.page)
          /\ Matching(view.filter)' = Matching(view.filter)
      BY <2>1, <2>2, SameRows
    <2> QED
      BY <2>2, <2>4, <2>5, <2>6 DEF ListInSight
  <1>6. ASSUME view' = view, inc' = inc PROVE ListInSight'
    <2>1. /\ \A p \in Phases :
               CountIncidents([view.filter EXCEPT !.phase = p])'
                 = CountIncidents([view.filter EXCEPT !.phase = p])
          /\ CountIncidents(view.filter)' = CountIncidents(view.filter)
          /\ Slice(view.filter, view.page)' = Slice(view.filter, view.page)
          /\ Matching(view.filter)' = Matching(view.filter)
      BY <1>6, SameRows
    <2> QED
      BY <1>6, <2>1 DEF ListInSight
  <1>7. CASE view' = NoView
    BY <1>0, <1>7 DEF ListInSight
  <1>8. CASE Respond \/ Restart
    BY <1>7, <1>8 DEF Respond, Restart
  <1>9. CASE Background
    <2>1. CASE view.pc = "detail" /\ view' = view
      BY <2>1 DEF ListInSight
    <2> QED
      BY <1>6, <1>7, <1>9, <2>1 DEF Background
  <1>10. CASE Time
    BY <1>7, <1>10 DEF Time
  <1>11. CASE UNCHANGED vars
    BY <1>6, <1>11 DEF vars, historyVars, rowVars
  <1> QED
    BY <1>1, <1>2, <1>3, <1>4, <1>5, <1>8, <1>9, <1>10, <1>11
       DEF Next, Request, Answer

\* The incident list tells the truth about any number of rows, any page size
\* and any page asked for (Server.list): when nothing is written between its
\* three queries, it is the slice of the matches it was asked for, it is empty
\* only if nothing matches, and the stat cards agree with the filters.
THEOREM ListShowsItsSlice == Spec => []ListIsASlice
  <1>1. Init => ViewTyped /\ ListInSight
    BY DEF Init, NoView, ViewTyped, ListInSight
  <1>2. Typed /\ ViewTyped /\ [Next]_vars => ViewTyped'
    BY ViewTypedStep
  <1>3. Typed /\ ViewTyped /\ ListInSight /\ [Next]_vars => ListInSight'
    BY ListStep
  <1>4. ListInSight => ListIsASlice
    BY DEF ListInSight, ListIsASlice
  <1> QED
    BY <1>1, <1>2, <1>3, <1>4, HistoryAlways, PTL DEF Spec

=============================================================================
