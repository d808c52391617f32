--------------------------- MODULE WatcherProofs ---------------------------
(***************************************************************************)
(* TLAPS proofs about the event watcher (EventWatcher), for any events,    *)
(* names, namespaces and policies: type correctness, the last word of the  *)
(* namespace's own policy, the backfill that never recreates a deleted CR  *)
(* and the bound on the Deduper's memory.                                  *)
(***************************************************************************)
EXTENDS EventWatcher, FiniteSetTheorems, TLAPS

-----------------------------------------------------------------------------
(* Typing *)

\* What the Deduper remembers: finitely many keys, each with its countdown.
SeenOK(s) ==
    /\ DOMAIN s \subseteq Names
    /\ \A n \in DOMAIN s : s[n] \in -1..TTL

LEMMA MarkTypes ==
  ASSUME SeenOK(seen), NEW n \in Names
  PROVE  /\ SeenOK(Mark(n))
         /\ DOMAIN Mark(n) = Swept \cup {n}
         /\ Swept \subseteq DOMAIN seen
  <1>1. Swept \subseteq DOMAIN seen
    BY DEF Swept
  <1>2. DOMAIN Mark(n) = Swept \cup {n}
    BY DEF Mark
  <1>3. \A m \in Swept \cup {n} : Mark(n)[m] = IF m = n THEN TTL ELSE seen[m]
    BY DEF Mark
  <1>4. TTL \in -1..TTL
    BY WatcherAssumption
  <1> QED
    BY <1>1, <1>2, <1>3, <1>4 DEF SeenOK

LEMMA TypesStep ==
  ASSUME TypeOK, [Next]_vars
  PROVE  TypeOK'
  <1> USE WatcherAssumption DEF TypeOK, input, crs, spent, Goto
  <1>0. SeenOK(seen)
    BY DEF SeenOK
  <1>1. ASSUME NEW e \in Events, Begin(e) PROVE TypeOK'
    <2>1. /\ NameOf[e] \in Names
          /\ SeenOK(Mark(NameOf[e]))
      BY <1>0, MarkTypes
    <2>2. SeenOK(seen')
      BY <1>0, <1>1, <2>1 DEF Begin
    <2>3. at' \in [Events -> {"idle", "resolve", "create", "backfill"}]
      BY <1>1 DEF Begin
    <2>4. /\ UNCHANGED <<life, delayed, cr, crCache, lag, faults, crashes, foreign>>
          /\ queue' \in SUBSET Events
      BY <1>1 DEF Begin
    <2> QED
      BY <2>2, <2>3, <2>4 DEF SeenOK
  <1>2. ASSUME NEW e \in Events, Resolve(e) PROVE TypeOK'
    BY <1>2 DEF Resolve
  <1>3. ASSUME NEW e \in Events, Create(e) PROVE TypeOK'
    <2>1. at' \in [Events -> {"idle", "resolve", "create", "backfill"}]
      BY <1>3 DEF Create
    <2>2. cr' \in [Names -> {"absent", "bare", "filled"}]
      BY <1>3 DEF Create
    <2>3. lag' \in [Names -> BOOLEAN]
      BY <1>3 DEF Create
    <2>4. UNCHANGED <<input, seen, crCache, spent>>
      BY <1>3 DEF Create
    <2> QED
      BY <2>1, <2>2, <2>3, <2>4
  <1>4. ASSUME NEW e \in Events, Backfill(e) PROVE TypeOK'
    BY <1>4 DEF Backfill
  <1>5. ASSUME NEW e \in Events, BackfillConflict(e) PROVE TypeOK'
    BY <1>5 DEF BackfillConflict, Retry
  <1>6. ASSUME NEW e \in Events, CallFails(e) PROVE TypeOK'
    BY <1>6 DEF CallFails, Retry, Fault
  <1>7. ASSUME NEW e \in Events, CreateAnswerLost(e) PROVE TypeOK'
    BY <1>7 DEF CreateAnswerLost, Retry, Fault
  <1>8. ASSUME NEW e \in Events, Observe(e) \/ Expire(e) \/ TimerFires(e)
        PROVE  TypeOK'
    BY <1>8 DEF Observe, Expire, TimerFires
  <1>9. ASSUME NEW n \in Names, Sync(n) PROVE TypeOK'
    BY <1>9 DEF Sync
  <1>10. ASSUME NEW n \in Names, ForeignWrite(n) PROVE TypeOK'
    <2>1. cr' \in [Names -> {"absent", "bare", "filled"}]
      BY <1>10 DEF ForeignWrite
    <2>2. /\ lag' \in [Names -> BOOLEAN]
          /\ foreign' \in 0..MaxForeign
          /\ UNCHANGED <<life, queue, delayed, at, seen, crCache, faults, crashes>>
      BY <1>10 DEF ForeignWrite
    <2> QED
      BY <2>1, <2>2
  <1>11. CASE Tick
    <2>1. SeenOK(seen')
      <3>1. /\ DOMAIN seen' = DOMAIN seen
            /\ \A n \in DOMAIN seen :
                 seen'[n] = IF seen[n] < 0 THEN seen[n] ELSE seen[n] - 1
        BY <1>11 DEF Tick
      <3> QED
        BY <1>0, <3>1 DEF SeenOK
    <2> QED
      BY <1>11, <2>1 DEF Tick, SeenOK
  <1>12. CASE Crash
    <2>1. SeenOK(seen')
      <3>1. DOMAIN seen' = {}
        BY <1>12 DEF Crash
      <3> QED
        BY <3>1 DEF SeenOK
    <2> QED
      BY <1>12, <2>1 DEF Crash, SeenOK
  <1>13. CASE UNCHANGED vars
    BY <1>13 DEF vars
  <1> QED
    BY <1>1, <1>2, <1>3, <1>4, <1>5, <1>6, <1>7, <1>8, <1>9, <1>10, <1>11,
       <1>12, <1>13 DEF Next, Advance

LEMMA TypesInit == Init => TypeOK
  BY WatcherAssumption DEF Init, TypeOK

\* Every variable holds a value of its type: a countdown stays between a tick
\* past expiry and a whole TTL, and only events' names are remembered.
THEOREM WatcherTypes == Spec => []TypeOK
  <1>1. TypeOK /\ [Next]_vars => TypeOK'
    BY TypesStep
  <1> QED
    BY <1>1, TypesInit, PTL DEF Spec

-----------------------------------------------------------------------------
(* Policies *)

\* The worker gets past the policy check only with an event some policy in
\* force accepts, and a complete CR has such an event behind it.
Vetted ==
    /\ \A e \in Events : at[e] \in {"create", "backfill"} => ~Suppressed(e)
    /\ \A n \in Names : cr[n] = "filled" =>
         \E e \in Events : NameOf[e] = n /\ ~Suppressed(e)

\* No policy that ResolvePolicy may return accepts a suppressed event.
LEMMA SuppressedIsTurnedDown ==
  ASSUME NEW e \in Events, Suppressed(e), NEW p \in ResolvePolicy(NamespaceOf[e])
  PROVE  ~Accepts(p, e)
  <1>1. PICK q \in Policies[NamespaceOf[e]] : p = MergeWithConfig(q)
    BY DEF ResolvePolicy, Suppressed
  <1>2. /\ p.enabled = (q.enabled # "false")
        /\ p.reasons = IF q.reasons = {} THEN CfgReasons ELSE q.reasons
    BY <1>1 DEF MergeWithConfig
  <1>3. \/ TurnsDown(q, e)
        \/ q.reasons = {} /\ ~ReasonAllowed(ReasonOf[e], CfgReasons)
    BY DEF Suppressed
  <1> QED
    BY <1>2, <1>3 DEF Accepts, TurnsDown, ReasonAllowed

\* The position of the worker and the CRs, in every step.
LEMMA VettedStep ==
  ASSUME TypeOK, Vetted, [Next]_vars
  PROVE  Vetted'
  <1> USE WatcherAssumption DEF TypeOK, input, crs, spent, Goto
  <1>0. /\ \A e \in Events : Suppressed(e)' <=> Suppressed(e)
        /\ \A e \in Events : NameOf[e] \in Names
    BY DEF Suppressed, TurnsDown, ReasonAllowed
  <1>1. ASSUME UNCHANGED cr,
               \A e \in Events : at'[e] \in {"create", "backfill"} =>
                                   at[e] \in {"create", "backfill"}
        PROVE  Vetted'
    BY <1>0, <1>1 DEF Vetted
  <1>2. ASSUME NEW e \in Events, at[e] \in {"create", "backfill"},
               \/ cr' = cr
               \/ cr' = [cr EXCEPT ![NameOf[e]] = "filled"],
               \/ at' = [at EXCEPT ![e] = "idle"]
               \/ at' = [at EXCEPT ![e] = "backfill"]
        PROVE  Vetted'
    BY <1>0, <1>2 DEF Vetted
  <1>3. ASSUME NEW e \in Events, Begin(e) PROVE Vetted'
    BY <1>1, <1>3 DEF Begin
  <1>4. ASSUME NEW e \in Events, Resolve(e) PROVE Vetted'
    <2>1. PICK p \in ResolvePolicy(NamespaceOf[e]) :
            at' = [at EXCEPT ![e] = IF Accepts(p, e) THEN "create" ELSE "idle"]
      BY <1>4 DEF Resolve
    <2>2. UNCHANGED cr
      BY <1>4 DEF Resolve
    <2>3. Accepts(p, e) => ~Suppressed(e)
      BY SuppressedIsTurnedDown
    <2> QED
      BY <1>0, <2>1, <2>2, <2>3 DEF Vetted
  <1>5. ASSUME NEW e \in Events, Create(e) \/ CreateAnswerLost(e) PROVE Vetted'
    BY <1>2, <1>5 DEF Create, CreateAnswerLost, Retry
  <1>6. ASSUME NEW e \in Events, Backfill(e) \/ BackfillConflict(e)
        PROVE  Vetted'
    BY <1>2, <1>6 DEF Backfill, BackfillConflict, Retry
  <1>7. ASSUME NEW e \in Events, CallFails(e) PROVE Vetted'
    BY <1>1, <1>7 DEF CallFails, Retry
  <1>8. ASSUME NEW e \in Events, Observe(e) \/ Expire(e) \/ TimerFires(e)
        PROVE  Vetted'
    BY <1>1, <1>8 DEF Observe, Expire, TimerFires
  <1>9. ASSUME NEW n \in Names, Sync(n) PROVE Vetted'
    BY <1>1, <1>9 DEF Sync
  <1>10. ASSUME NEW n \in Names, ForeignWrite(n) PROVE Vetted'
    <2>1. \A m \in Names : cr'[m] = "filled" => cr[m] = "filled"
      BY <1>10 DEF ForeignWrite
    <2>2. UNCHANGED at
      BY <1>10 DEF ForeignWrite
    <2> QED
      BY <1>0, <2>1, <2>2 DEF Vetted
  <1>11. CASE Tick
    BY <1>1, <1>11 DEF Tick
  <1>12. CASE Crash
    BY <1>1, <1>12 DEF Crash
  <1>13. CASE UNCHANGED vars
    BY <1>1, <1>13 DEF vars
  <1> QED
    BY <1>3, <1>4, <1>5, <1>6, <1>7, <1>8, <1>9, <1>10, <1>11, <1>12, <1>13
       DEF Next, Advance

\* A policy of the event's own namespace has the last word: no CR is ever
\* completed for events that namespace's policies all turn down.
THEOREM NamespaceHasLastWord == Spec => []NamespacePolicyWins
  <1>1. Init => Vetted
    BY WatcherAssumption DEF Init, Vetted
  <1>2. TypeOK /\ Vetted /\ [Next]_vars => Vetted'
    BY VettedStep
  <1>3. Vetted => NamespacePolicyWins
    BY DEF Vetted, NamespacePolicyWins
  <1> QED
    BY <1>1, <1>2, <1>3, WatcherTypes, PTL DEF Spec

-----------------------------------------------------------------------------
(* The backfill *)

\* A copy of a CR the cache has not outrun is the CR: an update that passes
\* the resourceVersion check meets the version it was computed from.
CacheCurrent == \A n \in Names : lag[n] \/ crCache[n] = cr[n]

LEMMA CacheStep ==
  ASSUME TypeOK, CacheCurrent, [Next]_vars
  PROVE  CacheCurrent'
  <1> USE WatcherAssumption DEF TypeOK, input, crs, spent, Goto, CacheCurrent
  <1>1. ASSUME NEW e \in Events,
               \/ Begin(e) \/ Resolve(e) \/ BackfillConflict(e) \/ CallFails(e)
               \/ Observe(e) \/ Expire(e) \/ TimerFires(e)
        PROVE  CacheCurrent'
    <2>1. UNCHANGED <<cr, crCache, lag>>
      BY <1>1 DEF Begin, Resolve, BackfillConflict, CallFails, Observe, Expire,
                  TimerFires
    <2> QED
      BY <2>1
  <1>2. ASSUME NEW e \in Events, Create(e) PROVE CacheCurrent'
    BY <1>2 DEF Create
  <1>3. ASSUME NEW e \in Events, CreateAnswerLost(e) PROVE CacheCurrent'
    BY <1>3 DEF CreateAnswerLost
  <1>4. ASSUME NEW e \in Events, Backfill(e) PROVE CacheCurrent'
    BY <1>4 DEF Backfill
  <1>5. ASSUME NEW n \in Names, Sync(n) PROVE CacheCurrent'
    BY <1>5 DEF Sync
  <1>6. ASSUME NEW n \in Names, ForeignWrite(n) PROVE CacheCurrent'
    <2>1. /\ lag' = [lag EXCEPT ![n] = TRUE]
          /\ crCache' = crCache
          /\ \A m \in Names \ {n} : cr'[m] = cr[m]
      BY <1>6 DEF ForeignWrite
    <2> QED
      BY <2>1
  <1>7. CASE Tick
    BY <1>7 DEF Tick
  <1>8. CASE Crash
    BY <1>8 DEF Crash
  <1>9. CASE UNCHANGED vars
    BY <1>9 DEF vars
  <1> QED
    BY <1>1, <1>2, <1>3, <1>4, <1>5, <1>6, <1>7, <1>8, <1>9 DEF Next, Advance

\* Only a create makes a CR appear: the backfill never brings back one that
\* was deleted after the create that found it.
THEOREM BackfillRecreatesNothing == Spec => BackfillNeverRecreates
  <1>1. Init => CacheCurrent
    BY DEF Init, CacheCurrent
  <1>2. TypeOK /\ CacheCurrent /\ [Next]_vars => CacheCurrent'
    BY CacheStep
  <1>3. ASSUME TypeOK, CacheCurrent, [Next]_vars, NEW n \in Names,
               cr[n] = "absent", cr'[n] # "absent"
        PROVE  \E e \in Events : NameOf[e] = n /\ at[e] = "create"
    <2> USE WatcherAssumption DEF TypeOK, input, crs, spent
    <2>1. ASSUME NEW e \in Events, Create(e) \/ CreateAnswerLost(e)
          PROVE  NameOf[e] = n /\ at[e] = "create"
      BY <1>3, <2>1 DEF Create, CreateAnswerLost
    <2>2. ASSUME NEW e \in Events, Backfill(e) PROVE FALSE
      BY <1>3, <2>2 DEF Backfill, CacheCurrent
    <2>3. ASSUME NEW m \in Names, ForeignWrite(m) PROVE FALSE
      BY <1>3, <2>3 DEF ForeignWrite
    <2>4. ASSUME UNCHANGED cr PROVE FALSE
      BY <1>3, <2>4
    <2>5. \/ UNCHANGED cr
          \/ \E m \in Names : ForeignWrite(m)
          \/ \E e \in Events : Create(e) \/ CreateAnswerLost(e) \/ Backfill(e)
      BY <1>3 DEF Next, Advance, Begin, Resolve, BackfillConflict, CallFails,
                  Observe, Expire, TimerFires, Sync, Tick, Crash, vars
    <2> QED
      BY <2>1, <2>2, <2>3, <2>4, <2>5
  <1>4. TypeOK /\ CacheCurrent /\ [Next]_vars =>
          [\A n \in Names :
            cr[n] = "absent" /\ cr'[n] # "absent" =>
              \E e \in Events : NameOf[e] = n /\ at[e] = "create"]_vars
    BY <1>3
  <1> QED
    BY <1>1, <1>2, <1>4, WatcherTypes, PTL DEF Spec, BackfillNeverRecreates

-----------------------------------------------------------------------------
(* The Deduper's memory *)

FiniteMemory == IsFiniteSet(DOMAIN seen)

\* Every step either marks one key or lets no key in.
LEMMA SeenMoves ==
  ASSUME TypeOK, [Next]_vars
  PROVE  \/ \E n \in Names : seen' = Mark(n)
         \/ DOMAIN seen' = DOMAIN seen
         \/ DOMAIN seen' = {}
  <1> USE DEF input, crs, spent
  <1>1. ASSUME NEW e \in Events, Begin(e)
        PROVE  (\E n \in Names : seen' = Mark(n)) \/ DOMAIN seen' = DOMAIN seen
    <2>1. NameOf[e] \in Names
      BY WatcherAssumption
    <2>2. seen' = seen \/ seen' = Mark(NameOf[e])
      BY <1>1 DEF Begin
    <2> QED
      BY <2>1, <2>2
  <1>2. CASE Tick
    BY <1>2 DEF Tick
  <1>3. CASE Crash
    BY <1>3 DEF Crash
  <1>4. \/ \E e \in Events : Begin(e)
        \/ Tick \/ Crash \/ seen' = seen
    BY DEF Next, Advance, Resolve, Create, Backfill, BackfillConflict,
           CallFails, CreateAnswerLost, Observe, Expire, TimerFires, Sync,
           ForeignWrite, vars
  <1> QED
    BY <1>1, <1>2, <1>3, <1>4

\* The sweep bounds the Deduper's memory: beyond dedupSweepThresh entries the
\* map grows only while every entry in it is still needed.
THEOREM SweepBoundsMemory == Spec => DedupGrowsOnlyLive
  <1>1. Init => FiniteMemory
    BY FS_EmptySet DEF Init, FiniteMemory
  <1>2. ASSUME TypeOK, FiniteMemory, NEW n \in Names, seen' = Mark(n)
        PROVE  /\ FiniteMemory'
               /\ \/ Cardinality(DOMAIN seen') <= Cardinality(DOMAIN seen)
                  \/ Cardinality(DOMAIN seen') <= SweepThresh
                  \/ \A m \in DOMAIN seen' : seen'[m] >= 0
    <2>1. SeenOK(seen)
      BY <1>2 DEF TypeOK, SeenOK
    <2>2. DOMAIN seen' = Swept \cup {n} /\ Swept \subseteq DOMAIN seen
      BY <1>2, <2>1, MarkTypes
    <2>3. /\ IsFiniteSet(Swept)
          /\ Cardinality(Swept) <= Cardinality(DOMAIN seen)
          /\ Cardinality(Swept) \in Nat /\ Cardinality(DOMAIN seen) \in Nat
      BY <1>2, <2>2, FS_Subset, FS_CardinalityType DEF FiniteMemory
    <2>4. /\ IsFiniteSet(Swept \cup {n})
          /\ Cardinality(Swept \cup {n}) <= Cardinality(Swept) + 1
      <3>1. /\ IsFiniteSet(Swept \cup {n})
            /\ Cardinality(Swept \cup {n}) =
                 IF n \in Swept THEN Cardinality(Swept)
                                ELSE Cardinality(Swept) + 1
        BY <2>3, FS_AddElement
      <3> QED
        BY <2>3, <3>1
    <2>5. CASE Cardinality(DOMAIN seen) < SweepThresh
      <3>1. Cardinality(Swept \cup {n}) \in Nat
        BY <2>4, FS_CardinalityType
      <3>2. Cardinality(Swept \cup {n}) <= SweepThresh
        BY <2>3, <2>4, <2>5, <3>1, WatcherAssumption
      <3> QED
        BY <2>2, <2>4, <3>2 DEF FiniteMemory
    <2>6. CASE ~(Cardinality(DOMAIN seen) < SweepThresh)
      <3>1. Swept = {m \in DOMAIN seen : seen[m] >= 0}
        BY <2>3, <2>6, WatcherAssumption DEF Swept
      <3>2. \A m \in DOMAIN seen' : seen'[m] = IF m = n THEN TTL ELSE seen[m]
        BY <1>2, <2>2 DEF Mark
      <3>3. \A m \in DOMAIN seen' : seen'[m] >= 0
        BY <2>2, <3>1, <3>2, WatcherAssumption
      <3> QED
        BY <2>2, <2>4, <3>3 DEF FiniteMemory
    <2> QED
      BY <2>5, <2>6
  <1>3. ASSUME TypeOK, FiniteMemory, [Next]_vars
        PROVE  /\ FiniteMemory'
               /\ Cardinality(DOMAIN seen') > Cardinality(DOMAIN seen) =>
                    \/ Cardinality(DOMAIN seen') <= SweepThresh
                    \/ \A n \in DOMAIN seen' : seen'[n] >= 0
    <2>1. CASE \E n \in Names : seen' = Mark(n)
      <3>1. FiniteMemory'
        BY <1>2, <1>3, <2>1
      <3>2. Cardinality(DOMAIN seen) \in Nat /\ Cardinality(DOMAIN seen') \in Nat
        BY <1>3, <3>1, FS_CardinalityType DEF FiniteMemory
      <3> QED
        BY <1>2, <1>3, <2>1, <3>1, <3>2
    <2>2. CASE DOMAIN seen' = DOMAIN seen
      <3>1. Cardinality(DOMAIN seen) \in Nat
        BY <1>3, FS_CardinalityType DEF FiniteMemory
      <3> QED
        BY <1>3, <2>2, <3>1 DEF FiniteMemory
    <2>3. CASE DOMAIN seen' = {}
      <3>1. Cardinality(DOMAIN seen') = 0 /\ IsFiniteSet(DOMAIN seen')
        BY <2>3, FS_EmptySet
      <3> QED
        BY <3>1, WatcherAssumption DEF FiniteMemory
    <2> QED
      BY <1>3, <2>1, <2>2, <2>3, SeenMoves
  <1>4. TypeOK /\ FiniteMemory /\ [Next]_vars =>
          /\ FiniteMemory'
          /\ [Cardinality(DOMAIN seen') > Cardinality(DOMAIN seen) =>
                \/ Cardinality(DOMAIN seen') <= SweepThresh
                \/ \A n \in DOMAIN seen' : seen'[n] >= 0]_vars
    BY <1>3
  <1> QED
    BY <1>1, <1>4, WatcherTypes, PTL DEF Spec, DedupGrowsOnlyLive

=============================================================================
