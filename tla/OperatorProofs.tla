--------------------------- MODULE OperatorProofs ---------------------------
(***************************************************************************)
(* TLAPS proofs about the operator's processes.  Their start, for every    *)
(* number of processes, migration files and exits: no migration is lost or *)
(* run twice, nobody serves on an incomplete schema, the schema only moves *)
(* forward (the safety part of SchemaVersions), and a start fails only     *)
(* behind another.  Their login form, for every number of addresses and of *)
(* requests handled at once: while the limiter's map is kept, the failures *)
(* that happen exceed the budget by no more than the requests in flight,   *)
(* and trying again prolongs no lockout.                                   *)
(***************************************************************************)
EXTENDS Operator, Induction, FiniteSetTheorems

-----------------------------------------------------------------------------
(* The inductive invariant *)

\* The versions recorded have no gap.
NoGap == \A f \in recorded, g \in Files : g < f => g \in recorded

\* What a process knows of the database stays true while others write to it.
Position(p) ==
    /\ \A g \in Files : g < file[p] => g \in recorded
    /\ pc[p] \in {"exec", "record", "commit"} => file[p] \in Files
    /\ pc[p] \in {"record", "commit"} => lock = p
    /\ pc[p] = "commit" => file[p] \notin recorded
    /\ pc[p] = "serving" => file[p] = NumFiles + 1

StartInv ==
    /\ StartTypeOK
    /\ AppliedAsRecorded
    /\ NoGap
    /\ \A p \in Procs : Position(p)

-----------------------------------------------------------------------------
(* Its steps *)

\* Whatever moves a process without touching the database keeps the invariant
\* if the process's own position and type stay right.
LEMMA MovesKeep ==
  ASSUME StartInv, NEW p \in Procs,
         NEW l \in {"down", "open", "check", "exec", "record", "commit", "serving"},
         NEW f \in 1 .. NumFiles + 1,
         pc' = [pc EXCEPT ![p] = l],
         file' = [file EXCEPT ![p] = f],
         UNCHANGED <<recorded, applied>>,
         lock' \in Procs \cup {NoProc},
         \A q \in Procs \ {p} : lock = q => lock' = q,
         exits' \in 0 .. MaxExits,
         Position(p)'
  PROVE  StartInv'
  <1>1. StartTypeOK'
    BY DEF StartInv, StartTypeOK
  <1>2. AppliedAsRecorded' /\ NoGap'
    BY DEF StartInv, AppliedAsRecorded, NoGap, Files
  <1>3. ASSUME NEW q \in Procs \ {p} PROVE Position(q)'
    <2>1. pc'[q] = pc[q] /\ file'[q] = file[q]
      BY DEF StartInv, StartTypeOK
    <2>2. Position(q)
      BY DEF StartInv
    <2> QED
      BY <2>1, <2>2 DEF Position, Files
  <1> QED
    BY <1>1, <1>2, <1>3 DEF StartInv

\* An exit rolls the transaction back and forgets the position.
LEMMA LeaveKeeps ==
  ASSUME StartInv, NEW p \in Procs, Leave(p), exits' \in 0 .. MaxExits
  PROVE  StartInv'
  <1>1. 1 \in 1 .. NumFiles + 1
    BY MigrationsAssumption
  <1>2. lock' \in Procs \cup {NoProc}
    BY DEF Leave, StartInv, StartTypeOK
  <1>3. \A q \in Procs \ {p} : lock = q => lock' = q
    BY DEF Leave
  <1>4. pc'[p] = "down" /\ file'[p] = 1
    BY DEF Leave, StartInv, StartTypeOK
  <1>5. Position(p)'
    BY <1>4, MigrationsAssumption DEF Position, Files
  <1> QED
    BY <1>1, <1>2, <1>3, <1>5, MovesKeep DEF Leave

\* A commit adds the file and its record at once; the lock kept everyone
\* else from recording it in between.
LEMMA CommitKeeps ==
  ASSUME StartInv, NEW p \in Procs, Commit(p)
  PROVE  StartInv'
  <1> DEFINE f == file[p]
  <1>1. /\ f \in Files /\ f \in 1 .. NumFiles
        /\ f \notin recorded
        /\ lock = p
        /\ \A g \in Files : g < f => g \in recorded
    <2>1. pc[p] = "commit" /\ Position(p)
      BY DEF Commit, StartInv
    <2> QED
      BY <2>1 DEF Position, Files
  <1>2. /\ recorded' = recorded \cup {f}
        /\ applied' = [applied EXCEPT ![f] = @ + 1]
        /\ lock' = NoProc
        /\ file' = [file EXCEPT ![p] = f + 1]
        /\ pc' = [pc EXCEPT ![p] = "check"]
        /\ UNCHANGED exits
    BY DEF Commit
  <1>3. StartTypeOK'
    <2>1. f + 1 \in 1 .. NumFiles + 1
      BY <1>1, MigrationsAssumption
    <2>2. file' \in [Procs -> 1 .. NumFiles + 1]
      BY <1>2, <2>1 DEF StartInv, StartTypeOK
    <2>3. applied' \in [Files -> Nat]
      BY <1>1, <1>2 DEF StartInv, StartTypeOK
    <2> HIDE DEF f
    <2>4. recorded' \subseteq Files
      BY <1>1, <1>2 DEF StartInv, StartTypeOK
    <2> QED
      BY <1>2, <2>2, <2>3, <2>4 DEF StartInv, StartTypeOK
  <1>4. AppliedAsRecorded'
    <2> SUFFICES ASSUME NEW g \in Files
                 PROVE  applied'[g] = IF g \in recorded' THEN 1 ELSE 0
      BY DEF AppliedAsRecorded, Files
    <2>1. applied[g] = IF g \in recorded THEN 1 ELSE 0
      BY DEF StartInv, AppliedAsRecorded
    <2>2. CASE g = f
      BY <1>1, <1>2, <2>1, <2>2 DEF StartInv, StartTypeOK
    <2>3. CASE g # f
      BY <1>2, <2>1, <2>3 DEF StartInv, StartTypeOK
    <2> QED
      BY <2>2, <2>3
  <1>5. NoGap'
    BY <1>1, <1>2, MigrationsAssumption DEF NoGap, StartInv, Files
  <1>6. ASSUME NEW q \in Procs PROVE Position(q)'
    <2>1. CASE q = p
      <3>1. pc'[q] = "check" /\ file'[q] = f + 1
        BY <1>2, <2>1 DEF StartInv, StartTypeOK
      <3> QED
        BY <1>1, <1>2, <3>1, MigrationsAssumption DEF Position, Files
    <2>2. CASE q # p
      <3>1. pc'[q] = pc[q] /\ file'[q] = file[q]
        BY <1>2, <2>2 DEF StartInv, StartTypeOK
      <3>2. Position(q) /\ lock # q
        BY <1>1, <2>2 DEF StartInv
      <3> QED
        BY <1>2, <3>1, <3>2 DEF Position, Files
    <2> QED
      BY <2>1, <2>2
  <1> QED
    BY <1>3, <1>4, <1>5, <1>6 DEF StartInv

\* A check reads what the next step relies on only as far as it stays true.
LEMMA CheckKeeps ==
  ASSUME StartInv, NEW p \in Procs, Check(p)
  PROVE  StartInv'
  <1>1. Position(p) /\ file[p] \in 1 .. NumFiles + 1 /\ pc[p] = "check"
    BY DEF StartInv, StartTypeOK, Check
  <1>2. lock \in Procs \cup {NoProc} /\ exits \in 0 .. MaxExits
    BY DEF StartInv, StartTypeOK
  <1>3. UNCHANGED <<lock, recorded, applied, exits>>
    BY DEF Check, dbVars
  <1>4. CASE Pending(p) /\ Done(p)
    <2>1. file[p] \in Files /\ file[p] \in recorded
      BY <1>1, <1>4, MigrationsAssumption DEF Pending, Done, Files
    <2>2. pc' = [pc EXCEPT ![p] = "check"]
      BY <1>1, <1>4 DEF Check, StartInv, StartTypeOK
    <2>3. file' = [file EXCEPT ![p] = file[p] + 1]
      BY <1>4 DEF Check
    <2>4. file[p] + 1 \in 1 .. NumFiles + 1
      BY <2>1, MigrationsAssumption DEF Files
    <2>5. pc'[p] = "check" /\ file'[p] = file[p] + 1
      BY <2>2, <2>3 DEF StartInv, StartTypeOK
    <2>6. Position(p)'
      BY <1>1, <1>3, <2>1, <2>5, MigrationsAssumption DEF Position, Files
    <2> QED
      BY <1>2, <1>3, <2>2, <2>3, <2>4, <2>6, MovesKeep
  <1>5. CASE Pending(p) /\ ~Done(p)
    <2>1. file[p] \in Files
      BY <1>1, <1>5, MigrationsAssumption DEF Pending, Files
    <2>2. pc' = [pc EXCEPT ![p] = "exec"] /\ file' = file
      BY <1>5 DEF Check
    <2>3. file' = [file EXCEPT ![p] = file[p]]
      BY <2>2 DEF StartInv, StartTypeOK
    <2>4. pc'[p] = "exec" /\ file'[p] = file[p]
      BY <2>2 DEF StartInv, StartTypeOK
    <2>5. Position(p)'
      BY <1>1, <1>3, <2>1, <2>4 DEF Position, Files
    <2> QED
      BY <1>1, <1>2, <1>3, <2>2, <2>3, <2>5, MovesKeep
  <1>6. CASE ~Pending(p)
    <2>1. file[p] = NumFiles + 1
      BY <1>1, <1>6, MigrationsAssumption DEF Pending
    <2>2. pc' = [pc EXCEPT ![p] = "serving"] /\ file' = file
      BY <1>6 DEF Check
    <2>3. file' = [file EXCEPT ![p] = file[p]]
      BY <2>2 DEF StartInv, StartTypeOK
    <2>4. pc'[p] = "serving" /\ file'[p] = file[p]
      BY <2>2 DEF StartInv, StartTypeOK
    <2>5. Position(p)'
      BY <1>1, <1>3, <2>1, <2>4 DEF Position, Files
    <2> QED
      BY <1>1, <1>2, <1>3, <2>2, <2>3, <2>5, MovesKeep
  <1> QED
    BY <1>4, <1>5, <1>6

\* The lock is taken, or the statements do not fit and the process exits.
LEMMA ExecKeeps ==
  ASSUME StartInv, NEW p \in Procs, Exec(p)
  PROVE  StartInv'
  <1>1. exits' \in 0 .. MaxExits
    BY DEF Exec, StartInv, StartTypeOK
  <1>2. CASE Executes(file[p])
    <2>1. /\ lock = NoProc /\ lock' = p
          /\ pc' = [pc EXCEPT ![p] = "record"]
          /\ UNCHANGED <<file, recorded, applied>>
      BY <1>2 DEF Exec
    <2>2. Position(p) /\ file[p] \in Files /\ file[p] \in 1 .. NumFiles + 1
      BY DEF Exec, StartInv, StartTypeOK, Position
    <2>3. file' = [file EXCEPT ![p] = file[p]]
      BY <2>1 DEF StartInv, StartTypeOK
    <2>4. pc'[p] = "record" /\ file'[p] = file[p]
      BY <2>1 DEF StartInv, StartTypeOK
    <2>5. Position(p)'
      BY <2>1, <2>2, <2>4 DEF Position, Files
    <2>6. \A q \in Procs \ {p} : lock = q => lock' = q
      BY <2>1, MigrationsAssumption
    <2> QED
      BY <1>1, <2>1, <2>2, <2>3, <2>5, <2>6, MovesKeep
  <1>3. CASE ~Executes(file[p])
    BY <1>1, <1>3, LeaveKeeps DEF Exec
  <1> QED
    BY <1>2, <1>3

\* Under the lock the version is seen to be missing, or the process exits.
LEMMA RecordKeeps ==
  ASSUME StartInv, NEW p \in Procs, Record(p)
  PROVE  StartInv'
  <1>1. exits' \in 0 .. MaxExits
    BY DEF Record, StartInv, StartTypeOK
  <1>2. CASE file[p] \notin recorded
    <2>1. /\ pc' = [pc EXCEPT ![p] = "commit"]
          /\ UNCHANGED <<file, lock, recorded, applied>>
      BY <1>2 DEF Record, dbVars
    <2>2. /\ Position(p) /\ lock = p /\ file[p] \in Files
          /\ file[p] \in 1 .. NumFiles + 1
      BY DEF Record, StartInv, StartTypeOK, Position
    <2>3. file' = [file EXCEPT ![p] = file[p]]
      BY <2>1 DEF StartInv, StartTypeOK
    <2>4. pc'[p] = "commit" /\ file'[p] = file[p]
      BY <2>1 DEF StartInv, StartTypeOK
    <2>5. Position(p)'
      BY <1>2, <2>1, <2>2, <2>4 DEF Position, Files
    <2>6. lock' \in Procs \cup {NoProc}
      BY <2>1 DEF StartInv, StartTypeOK
    <2> QED
      BY <1>1, <2>1, <2>2, <2>3, <2>5, <2>6, MovesKeep
  <1>3. CASE file[p] \in recorded
    BY <1>1, <1>3, LeaveKeeps DEF Record
  <1> QED
    BY <1>2, <1>3

\* A start begins at the first file.
LEMMA StartKeeps ==
  ASSUME StartInv, NEW p \in Procs, NEW l \in {"open", "check"},
         pc' = [pc EXCEPT ![p] = l], UNCHANGED <<file, dbVars, exits>>
  PROVE  StartInv'
  <1>1. UNCHANGED <<file, lock, recorded, applied, exits>>
    BY DEF dbVars
  <1>2. /\ Position(p) /\ file[p] \in 1 .. NumFiles + 1
        /\ lock \in Procs \cup {NoProc} /\ exits \in 0 .. MaxExits
    BY DEF StartInv, StartTypeOK
  <1>3. file' = [file EXCEPT ![p] = file[p]]
    BY <1>1 DEF StartInv, StartTypeOK
  <1>4. pc'[p] = l /\ file'[p] = file[p]
    BY <1>1 DEF StartInv, StartTypeOK
  <1>5. Position(p)'
    BY <1>1, <1>2, <1>4 DEF Position, Files
  <1> QED
    BY <1>1, <1>2, <1>3, <1>5, MovesKeep

-----------------------------------------------------------------------------
(* The theorems *)

\* The three facts of the induction.
LEMMA InitStartInv == Init => StartInv
  BY MigrationsAssumption
  DEF Init, StartInit, StartInv, StartTypeOK, AppliedAsRecorded, NoGap,
      Position, Files

LEMMA NextStartInv == StartInv /\ [Next]_vars => StartInv'
  <1> SUFFICES ASSUME StartInv, [Next]_vars PROVE StartInv'
    OBVIOUS
  <1>1. ASSUME UNCHANGED startVars PROVE StartInv'
    BY <1>1 DEF startVars, dbVars, StartInv, StartTypeOK, AppliedAsRecorded,
                NoGap, Position, Files
  <1>2. ASSUME NEW p \in Procs, Startup(p) PROVE StartInv'
    <2>1. CASE StartStep(p)
      <3>1. CASE Start(p) \/ Open(p)
        BY <3>1, StartKeeps DEF Start, Open
      <3> QED
        BY <2>1, <3>1, CheckKeeps, ExecKeeps, RecordKeeps, CommitKeeps
           DEF StartStep
    <2>2. CASE Busy(p)
      <3>1. exits' \in 0 .. MaxExits
        BY <2>2 DEF Busy, StartInv, StartTypeOK
      <3> QED
        BY <2>2, <3>1, LeaveKeeps DEF Busy
    <2> QED
      BY <1>2, <2>1, <2>2 DEF Startup
  <1>3. ASSUME NEW p \in Procs, Stop(p) PROVE StartInv'
    <2>1. Exit(p)
      BY <1>3 DEF Stop
    <2>2. exits' \in 0 .. MaxExits
      BY <2>1, MigrationsAssumption DEF Exit, StartInv, StartTypeOK
    <2> QED
      BY <2>1, <2>2, LeaveKeeps DEF Exit
  <1>4. CASE \E r \in Requests : Login(r)
    BY <1>1, <1>4 DEF Login
  <1>5. CASE Time
    BY <1>1, <1>5 DEF Time
  <1>6. CASE UNCHANGED vars
    BY <1>1, <1>6 DEF vars
  <1> QED
    BY <1>2, <1>3, <1>4, <1>5, <1>6 DEF Next

LEMMA StartInvHolds == Spec => []StartInv
  BY InitStartInv, NextStartInv, PTL DEF Spec

\* However the starts of any number of processes overlap and wherever they
\* exit, a migration takes effect exactly as often as it is recorded.
THEOREM MigrationsApplyOnce == Spec => []AppliedAsRecorded
  <1>1. StartInv => AppliedAsRecorded
    BY DEF StartInv
  <1> QED
    BY <1>1, StartInvHolds, PTL

\* No process, of any number, ever serves on an incomplete schema.
THEOREM SchemaIsComplete == Spec => []ServesOnlyMigrated
  <1>1. StartInv => ServesOnlyMigrated
    <2> SUFFICES ASSUME StartInv, NEW p \in Procs, pc[p] = "serving"
                 PROVE  recorded = Files
      BY DEF ServesOnlyMigrated
    <2>1. \A g \in Files : g < NumFiles + 1 => g \in recorded
      <3>1. Position(p)
        BY DEF StartInv
      <3> QED
        BY <3>1 DEF Position
    <2>2. \A g \in Files : g < NumFiles + 1
      BY MigrationsAssumption DEF Files
    <2>3. recorded \subseteq Files
      BY DEF StartInv, StartTypeOK
    <2> QED
      BY <2>1, <2>2, <2>3
  <1> QED
    BY <1>1, StartInvHolds, PTL

\* The starts implement the safety part of SchemaVersions: each step of any
\* process leaves the versions alone or adds the one that comes next.
THEOREM SchemaOnlyAdvances == Spec => Schema!Forward
  <1>1. Init => Schema!Init
    BY DEF Init, StartInit, Schema!Init
  <1>2. StartInv /\ [Next]_vars => [Schema!Advance]_recorded
    <2> SUFFICES ASSUME StartInv, [Next]_vars, recorded' # recorded
                 PROVE  Schema!Advance
      OBVIOUS
    <2>1. PICK p \in Procs : Commit(p)
      BY DEF Next, vars, startVars, dbVars, Startup, StartStep, Start, Open,
             Check, Exec, Record, Busy, Leave, Stop, Exit, Login, Time
    <2>2. /\ file[p] \in 1 .. NumFiles /\ file[p] \notin recorded
          /\ \A g \in 1 .. NumFiles : g < file[p] => g \in recorded
          /\ recorded' = recorded \cup {file[p]}
      <3>1. pc[p] = "commit" /\ Position(p)
        BY <2>1 DEF Commit, StartInv
      <3>2. recorded' = recorded \cup {file[p]}
        BY <2>1 DEF Commit
      <3> QED
        BY <3>1, <3>2 DEF Position, Files
    <2>3. \A f \in recorded : f \in 1 .. NumFiles /\ f < file[p]
      BY <2>2, MigrationsAssumption DEF StartInv, StartTypeOK, NoGap, Files
    <2>4. recorded = 1 .. file[p] - 1
      <3>1. ASSUME NEW g \in recorded PROVE g \in 1 .. file[p] - 1
        BY <2>2, <2>3, MigrationsAssumption
      <3>2. ASSUME NEW g \in 1 .. file[p] - 1 PROVE g \in recorded
        <4>1. g \in 1 .. NumFiles /\ g < file[p]
          BY <2>2, MigrationsAssumption
        <4> QED
          BY <2>2, <4>1
      <3> QED
        BY <3>1, <3>2
    <2>5. recorded' = 1 .. file[p]
      BY <2>2, <2>4, MigrationsAssumption
    <2> QED
      BY <2>2, <2>4, <2>5 DEF Schema!Advance
  <1> QED
    BY <1>1, <1>2, StartInvHolds, PTL DEF Spec, Schema!Forward

-----------------------------------------------------------------------------
(* Starts that fail *)

\* The write lock is held by a process inside its transaction, and by none
\* that waits for it.
LockHeld ==
    \A p \in Procs : lock = p => pc[p] \in {"record", "commit"}

\* Why a start may fail of itself: another process holds the write lock, or
\* has meanwhile recorded the migration that this one is at.
FailsBehindAnother ==
    \A p \in Procs :
        pc[p] # "down" /\ pc'[p] = "down" /\ exits' = exits =>
            \/ \E q \in Procs \ {p} : lock = q
            \/ file[p] \in recorded

LEMMA LockKept ==
  ASSUME StartTypeOK, LockHeld, [Next]_vars
  PROVE  LockHeld'
  <1>1. /\ pc \in [Procs -> {"down", "open", "check", "exec", "record", "commit",
                         "serving"}]
        /\ \A q \in Procs : q # NoProc
        /\ \A q \in Procs : lock = q => pc[q] \in {"record", "commit"}
    BY MigrationsAssumption DEF StartTypeOK, LockHeld
  <1> SUFFICES ASSUME NEW q \in Procs, lock' = q
               PROVE  pc'[q] \in {"record", "commit"}
    BY DEF LockHeld
  <1>2. CASE UNCHANGED <<pc, lock>>
    BY <1>1, <1>2
  <1>3. ASSUME NEW p \in Procs, Leave(p)
        PROVE  pc'[q] \in {"record", "commit"}
    BY <1>1, <1>3 DEF Leave
  <1>4. ASSUME NEW p \in Procs, Start(p) \/ Open(p) \/ Check(p)
        PROVE  pc'[q] \in {"record", "commit"}
    BY <1>1, <1>4 DEF Start, Open, Check, dbVars
  <1>5. ASSUME NEW p \in Procs, Exec(p)
        PROVE  pc'[q] \in {"record", "commit"}
    BY <1>1, <1>3, <1>5 DEF Exec
  <1>6. ASSUME NEW p \in Procs, Record(p)
        PROVE  pc'[q] \in {"record", "commit"}
    BY <1>1, <1>3, <1>6 DEF Record, dbVars
  <1>7. ASSUME NEW p \in Procs, Commit(p)
        PROVE  pc'[q] \in {"record", "commit"}
    BY <1>1, <1>7 DEF Commit
  <1>8. ASSUME NEW p \in Procs, Startup(p)
        PROVE  pc'[q] \in {"record", "commit"}
    BY <1>3, <1>4, <1>5, <1>6, <1>7, <1>8 DEF Startup, StartStep, Busy
  <1>9. ASSUME NEW p \in Procs, Stop(p)
        PROVE  pc'[q] \in {"record", "commit"}
    BY <1>3, <1>9 DEF Stop, Exit
  <1> QED
    BY <1>2, <1>8, <1>9
       DEF Next, Login, Time, vars, startVars, dbVars

\* A file whose turn it is does not fit the schema only if it has taken effect.
LEMMA DoesNotFit ==
  ASSUME StartInv, NEW p \in Procs, pc[p] = "exec", ~Executes(file[p])
  PROVE  file[p] \in recorded
  <1>1. /\ file[p] \in Files /\ \A g \in Files : g < file[p] => g \in recorded
        /\ \A g \in Files : applied[g] = IF g \in recorded THEN 1 ELSE 0
    BY DEF StartInv, Position, AppliedAsRecorded
  <1>2. \A g \in 1 .. file[p] - 1 : g \in Files /\ g < file[p]
    BY <1>1, MigrationsAssumption DEF Files
  <1>3. \A g \in 1 .. file[p] - 1 : applied[g] = 1
    BY <1>1, <1>2
  <1>4. applied[file[p]] # 0
    BY <1>3 DEF Executes
  <1> QED
    BY <1>1, <1>4

LEMMA FailuresStep ==
  ASSUME StartInv, LockHeld, [Next]_vars
  PROVE  FailsBehindAnother
  <1> SUFFICES ASSUME NEW p \in Procs, pc[p] # "down", pc'[p] = "down",
                      exits' = exits
               PROVE  \/ \E q \in Procs \ {p} : lock = q
                      \/ file[p] \in recorded
    BY DEF FailsBehindAnother
  <1>1. /\ pc \in [Procs -> {"down", "open", "check", "exec", "record", "commit",
                         "serving"}]
        /\ lock \in Procs \cup {NoProc} /\ exits \in Nat
    BY MigrationsAssumption DEF StartInv, StartTypeOK
  <1>2. Startup(p)
    <2>1. pc' # pc
      OBVIOUS
    <2>2. ASSUME NEW q \in Procs, Startup(q), q # p PROVE FALSE
      BY <1>1, <2>2
         DEF Startup, StartStep, Start, Open, Check, Exec, Record, Commit, Busy,
             Leave
    <2>3. ASSUME NEW q \in Procs, Stop(q) PROVE FALSE
      BY <1>1, <2>3 DEF Stop, Exit
    <2> QED
      BY <2>1, <2>2, <2>3 DEF Next, Login, Time, vars, startVars
  <1>3. CASE Start(p) \/ Open(p) \/ Check(p) \/ Commit(p)
    BY <1>1, <1>3 DEF Start, Open, Check, Commit
  <1>4. CASE Exec(p)
    <2>1. pc[p] = "exec" /\ ~Executes(file[p])
      BY <1>1, <1>4 DEF Exec
    <2> QED
      BY <2>1, DoesNotFit
  <1>5. CASE Record(p)
    BY <1>1, <1>5 DEF Record
  <1>6. CASE Busy(p)
    BY <1>1, <1>6 DEF Busy, LockHeld
  <1> QED
    BY <1>2, <1>3, <1>4, <1>5, <1>6 DEF Startup, StartStep

\* A start that nobody stops fails only behind another: the write lock is held
\* by another process, or the migration it was about to apply has just been
\* recorded by one (migrations.go:47-80).  It never fails against a lock of
\* its own or a schema that it left half done.
THEOREM StartsFailBehindAnother == Spec => [][FailsBehindAnother]_vars
  <1>1. Init => LockHeld
    BY MigrationsAssumption DEF Init, StartInit, LockHeld
  <1>2. StartInv /\ LockHeld /\ [Next]_vars => LockHeld'
    BY LockKept DEF StartInv
  <1>3. StartInv /\ LockHeld /\ [Next]_vars => FailsBehindAnother
    BY FailuresStep
  <1> QED
    BY <1>1, <1>2, <1>3, StartInvHolds, PTL DEF Spec

-----------------------------------------------------------------------------
(* The limiter's window *)

Ages == 0..Window

\* What tooMany's loop has kept after each of its rounds.
Kept(f, s) ==
    /\ f \in [0..Len(s) -> Seq(Ages)]
    /\ f[0] = <<>>
    /\ \A k \in 1..Len(s) :
          f[k] = IF s[k] < Window THEN Append(f[k - 1], s[k]) ELSE f[k - 1]

LEMMA LiveIsALoop ==
  ASSUME NEW s \in Seq(Ages)
  PROVE  \E f : Kept(f, s) /\ Live(s) = f[Len(s)]
  <1> DEFINE F(f) == [n \in 0..Len(s) |->
                        IF n = 0 THEN <<>>
                        ELSE IF s[n] < Window THEN Append(f[n - 1], s[n])
                             ELSE f[n - 1]]
             loop == CHOOSE f : f = F(f)
             T == Seq(Ages)
             round == [k \in 1..Len(s) |->
                         [x \in T |-> IF s[k] < Window THEN Append(x, s[k]) ELSE x]]
  <1>1. Len(s) \in Nat /\ \A k \in 1..Len(s) : s[k] \in Ages
    BY LenProperties, ElementOfSeq
  <1>2. \A x \in T : \A e \in Ages : Append(x, e) \in T
    BY AppendProperties
  <1>3. round \in [1..Len(s) -> [T -> T]] /\ <<>> \in T
    <2>1. <<>> \in T
      OBVIOUS
    <2> HIDE DEF T
    <2> QED
      BY <1>1, <1>2, <2>1
  <1>4. PICK g : IsLoop(g, Len(s), T, <<>>, round)
    <2> HIDE DEF round, T
    <2> QED
      BY <1>1, <1>3, LoopExists
  <1>5. Kept(g, s)
    <2>1. /\ g \in [0..Len(s) -> T] /\ g[0] = <<>>
          /\ \A k \in 1..Len(s) : g[k] = round[k][g[k - 1]]
      BY <1>4 DEF IsLoop
    <2>2. \A k \in 1..Len(s) : k - 1 \in 0..Len(s)
      BY <1>1
    <2>3. \A k \in 1..Len(s) :
            g[k] = IF s[k] < Window THEN Append(g[k - 1], s[k]) ELSE g[k - 1]
      <3> HIDE DEF T
      <3> QED
        BY <2>1, <2>2
    <2> QED
      BY <2>1, <2>3 DEF Kept
  <1>6. g = F(g)
    <2>1. \A k \in 0..Len(s) : k # 0 => k \in 1..Len(s)
      BY <1>1
    <2> QED
      BY <1>5, <2>1 DEF Kept
  <1>7. loop = F(loop)
    <2> HIDE DEF F
    <2> QED
      BY <1>6
  <1>8. /\ loop[0] = <<>>
        /\ \A k \in 1..Len(s) :
              loop[k] = IF s[k] < Window THEN Append(loop[k - 1], s[k])
                                         ELSE loop[k - 1]
    <2> HIDE DEF loop
    <2>1. \A k \in 1..Len(s) : k \in 0..Len(s) /\ k # 0
      BY <1>1
    <2>2. 0 \in 0..Len(s)
      BY <1>1
    <2>3. \A k \in 0..Len(s) : loop[k] = F(loop)[k]
      BY <1>7
    <2> QED
      BY <2>1, <2>2, <2>3
  <1>9. Live(s) = loop[Len(s)]
    BY DEF Live
  <1>10. \A k \in 0..Len(s) : loop[k] = g[k]
    <2> DEFINE Good == {k \in 0..Len(s) : loop[k] = g[k]}
    <2> HIDE DEF loop
    <2>1. 0 \in Good
      BY <1>1, <1>5, <1>8 DEF Kept
    <2>2. \A k \in 1..Len(s) : k - 1 \in Good => k \in Good
      <3> SUFFICES ASSUME NEW k \in 1..Len(s), k - 1 \in Good PROVE k \in Good
        OBVIOUS
      <3>1. loop[k - 1] = g[k - 1] /\ k \in 0..Len(s)
        BY <1>1
      <3> QED
        BY <1>5, <1>8, <3>1 DEF Kept
    <2>3. \A k \in 0..Len(s) : k \in Good
      <3> HIDE DEF Good
      <3> QED
        BY <1>1, <2>1, <2>2, UpTo
    <2> QED
      BY <2>3
  <1>11. Len(s) \in 0..Len(s)
    BY <1>1
  <1> HIDE DEF loop
  <1> QED
    BY <1>5, <1>9, <1>10, <1>11

\* What an age adds to the number kept.
Counts(age) == IF age < Window THEN 1 ELSE 0

LEMMA KeptTyped ==
  ASSUME NEW s \in Seq(Ages), NEW f, Kept(f, s)
  PROVE  /\ Len(s) \in Nat
         /\ \A k \in 0..Len(s) : f[k] \in Seq(Ages) /\ Len(f[k]) \in Nat
         /\ \A k \in 1..Len(s) : /\ s[k] \in Ages /\ k - 1 \in 0..Len(s)
                                 /\ Len(f[k]) = Len(f[k - 1]) + Counts(s[k])
                                 /\ Counts(s[k]) \in 0..1
  <1>1. Len(s) \in Nat /\ \A k \in 1..Len(s) : s[k] \in Ages
    BY LenProperties, ElementOfSeq
  <1>2. \A k \in 0..Len(s) : f[k] \in Seq(Ages) /\ Len(f[k]) \in Nat
    BY LenProperties DEF Kept
  <1>3. \A k \in 1..Len(s) : k - 1 \in 0..Len(s)
    BY <1>1
  <1>4. ASSUME NEW k \in 1..Len(s)
        PROVE  Len(f[k]) = Len(f[k - 1]) + Counts(s[k]) /\ Counts(s[k]) \in 0..1
    <2> USE DEF Counts
    <2>1. f[k - 1] \in Seq(Ages) /\ Len(f[k - 1]) \in Nat /\ s[k] \in Ages
      BY <1>1, <1>2, <1>3
    <2>2. CASE s[k] < Window
      <3>1. f[k] = Append(f[k - 1], s[k])
        BY <2>2 DEF Kept
      <3>2. Len(f[k]) = Len(f[k - 1]) + 1
        BY <2>1, <3>1, AppendProperties
      <3> QED
        BY <2>2, <3>2
    <2>3. CASE ~(s[k] < Window)
      <3>1. f[k] = f[k - 1]
        BY <2>3 DEF Kept
      <3> QED
        BY <2>1, <2>3, <3>1
    <2> QED
      BY <2>2, <2>3
  <1> QED
    BY <1>1, <1>2, <1>3, <1>4

LEMMA LiveTyped ==
  ASSUME NEW s \in Seq(Ages)
  PROVE  Live(s) \in Seq(Ages) /\ Len(Live(s)) \in Nat
  <1>1. PICK f : Kept(f, s) /\ Live(s) = f[Len(s)]
    BY LiveIsALoop
  <1>2. Len(s) \in 0..Len(s)
    BY LenProperties
  <1> QED
    BY <1>1, <1>2, KeptTyped

\* Nothing is kept that was not there.
LEMMA LiveShortens ==
  ASSUME NEW s \in Seq(Ages)
  PROVE  Len(Live(s)) <= Len(s)
  <1>1. PICK f : Kept(f, s) /\ Live(s) = f[Len(s)]
    BY LiveIsALoop
  <1>2. /\ Len(s) \in Nat
        /\ \A k \in 0..Len(s) : Len(f[k]) \in Nat
        /\ \A k \in 1..Len(s) : /\ k - 1 \in 0..Len(s)
                                /\ Len(f[k]) = Len(f[k - 1]) + Counts(s[k])
                                /\ Counts(s[k]) \in 0..1
    BY <1>1, KeptTyped
  <1> DEFINE Good == {k \in 0..Len(s) : Len(f[k]) <= k}
  <1>3. 0 \in Good
    BY <1>1, <1>2 DEF Kept
  <1>4. \A k \in 1..Len(s) : k - 1 \in Good => k \in Good
    <2> SUFFICES ASSUME NEW k \in 1..Len(s), k - 1 \in Good PROVE k \in Good
      OBVIOUS
    <2>1. /\ Len(f[k]) = Len(f[k - 1]) + Counts(s[k]) /\ Counts(s[k]) \in 0..1
          /\ Len(f[k - 1]) <= k - 1 /\ Len(f[k - 1]) \in Nat /\ k \in 0..Len(s)
      BY <1>2
    <2> QED
      BY <2>1
  <1>5. \A k \in 0..Len(s) : k \in Good
    <2> HIDE DEF Good
    <2> QED
      BY <1>2, <1>3, <1>4, UpTo
  <1> QED
    BY <1>1, <1>2, <1>5

LEMMA LiveOfNone == Live(<<>>) = <<>>
  <1>1. <<>> \in Seq(Ages) /\ Len(<<>>) = 0
    OBVIOUS
  <1> QED
    BY <1>1, LiveIsALoop DEF Kept

\* A failure recorded now counts at once.
LEMMA LiveOfOneMore ==
  ASSUME NEW s \in Seq(Ages)
  PROVE  /\ Append(s, 0) \in Seq(Ages)
         /\ Len(Live(Append(s, 0))) = Len(Live(s)) + 1
  <1> DEFINE t == Append(s, 0)
  <1>1. 0 \in Ages /\ 0 < Window
    BY LoginAssumption DEF Ages
  <1>2. /\ Len(s) \in Nat /\ t \in Seq(Ages) /\ Len(t) = Len(s) + 1
        /\ t[Len(s) + 1] = 0 /\ \A k \in 1..Len(s) : t[k] = s[k]
    BY <1>1, LenProperties, AppendProperties
  <1> HIDE DEF t
  <1>3. PICK f : Kept(f, s) /\ Live(s) = f[Len(s)]
    BY LiveIsALoop
  <1>4. PICK g : Kept(g, t) /\ Live(t) = g[Len(t)]
    BY <1>2, LiveIsALoop
  <1> DEFINE Good == {k \in 0..Len(s) : f[k] = g[k]}
  <1>5. 0 \in Good
    BY <1>2, <1>3, <1>4 DEF Kept
  <1>6. \A k \in 1..Len(s) : k - 1 \in Good => k \in Good
    <2> SUFFICES ASSUME NEW k \in 1..Len(s), k - 1 \in Good PROVE k \in Good
      OBVIOUS
    <2>1. /\ f[k - 1] = g[k - 1] /\ k \in 0..Len(s) /\ k \in 1..Len(t)
          /\ t[k] = s[k]
      BY <1>2
    <2> QED
      BY <1>3, <1>4, <2>1 DEF Kept
  <1>7. \A k \in 0..Len(s) : k \in Good
    <2> HIDE DEF Good
    <2> QED
      BY <1>2, <1>5, <1>6, UpTo
  <1>8. g[Len(s)] = f[Len(s)]
    BY <1>2, <1>7
  <1>9. Len(g[Len(t)]) = Len(g[Len(s)]) + 1
    <2>1. Len(t) \in 1..Len(t) /\ Len(t) - 1 = Len(s) /\ t[Len(t)] < Window
      BY <1>1, <1>2
    <2>2. Len(g[Len(t)]) = Len(g[Len(t) - 1]) + Counts(t[Len(t)])
      BY <1>2, <1>4, <2>1, KeptTyped
    <2> QED
      BY <2>1, <2>2 DEF Counts
  <1>10. Len(Live(t)) = Len(Live(s)) + 1
    BY <1>3, <1>4, <1>8, <1>9
  <1> QED
    BY <1>2, <1>10 DEF t

\* Time only takes failures out of the window.
NotMore(t, s) ==
    /\ Len(t) = Len(s)
    /\ \A k \in 1..Len(s) : Counts(t[k]) <= Counts(s[k])

LEMMA LiveOfOlder ==
  ASSUME NEW s \in Seq(Ages), NEW t \in Seq(Ages), NotMore(t, s)
  PROVE  Len(Live(t)) <= Len(Live(s))
  <1>1. PICK f : Kept(f, s) /\ Live(s) = f[Len(s)]
    BY LiveIsALoop
  <1>2. PICK g : Kept(g, t) /\ Live(t) = g[Len(t)]
    BY LiveIsALoop
  <1>3. /\ Len(s) \in Nat
        /\ \A k \in 0..Len(s) : Len(f[k]) \in Nat
        /\ \A k \in 1..Len(s) : /\ k - 1 \in 0..Len(s)
                                /\ Len(f[k]) = Len(f[k - 1]) + Counts(s[k])
                                /\ Counts(s[k]) \in 0..1
    BY <1>1, KeptTyped
  <1>4. /\ \A k \in 0..Len(s) : Len(g[k]) \in Nat
        /\ \A k \in 1..Len(s) : /\ Len(g[k]) = Len(g[k - 1]) + Counts(t[k])
                                /\ Counts(t[k]) \in 0..1
    <2>1. Len(t) = Len(s)
      BY DEF NotMore
    <2> QED
      BY <1>2, <2>1, KeptTyped
  <1> DEFINE Good == {k \in 0..Len(s) : Len(g[k]) <= Len(f[k])}
  <1>5. 0 \in Good
    <2>1. f[0] = <<>> /\ g[0] = <<>>
      BY <1>1, <1>2 DEF Kept
    <2>2. Len(f[0]) = 0 /\ Len(g[0]) = 0
      BY <2>1
    <2> QED
      BY <1>3, <2>2
  <1>6. \A k \in 1..Len(s) : k - 1 \in Good => k \in Good
    <2> SUFFICES ASSUME NEW k \in 1..Len(s), k - 1 \in Good PROVE k \in Good
      OBVIOUS
    <2>1. /\ Len(f[k - 1]) \in Nat /\ Len(g[k - 1]) \in Nat /\ k \in 0..Len(s)
          /\ Len(g[k - 1]) <= Len(f[k - 1])
          /\ Len(f[k]) = Len(f[k - 1]) + Counts(s[k])
          /\ Len(g[k]) = Len(g[k - 1]) + Counts(t[k])
          /\ Counts(s[k]) \in 0..1 /\ Counts(t[k]) \in 0..1
      BY <1>3, <1>4
    <2>2. Counts(t[k]) <= Counts(s[k])
      BY DEF NotMore
    <2> QED
      BY <2>1, <2>2
  <1>7. \A k \in 0..Len(s) : k \in Good
    <2> HIDE DEF Good
    <2> QED
      BY <1>3, <1>5, <1>6, UpTo
  <1>8. Len(g[Len(s)]) <= Len(f[Len(s)])
    BY <1>3, <1>7
  <1> QED
    BY <1>1, <1>2, <1>8 DEF NotMore

\* Where the ages of a sequence lie.
LEMMA SeqWithin ==
  ASSUME NEW S, NEW T, S \subseteq T
  PROVE  Seq(S) \subseteq Seq(T)
  <1> SUFFICES ASSUME NEW s \in Seq(S) PROVE s \in Seq(T)
    OBVIOUS
  <1>1. Len(s) \in Nat /\ s \in [1..Len(s) -> S]
    BY LenProperties
  <1>2. s \in [1..Len(s) -> T]
    BY <1>1
  <1> QED
    BY <1>1, <1>2, SeqDef

LEMMA LiveWithin ==
  ASSUME NEW S, S \subseteq Ages, NEW s \in Seq(S)
  PROVE  Live(s) \in Seq({x \in S : x < Window})
  <1> DEFINE T == {x \in S : x < Window}
  <1>1. s \in Seq(Ages) /\ Len(s) \in Nat /\ \A k \in 1..Len(s) : s[k] \in S
    BY SeqWithin, LenProperties, ElementOfSeq
  <1>2. PICK f : Kept(f, s) /\ Live(s) = f[Len(s)]
    BY <1>1, LiveIsALoop
  <1> DEFINE Good == {k \in 0..Len(s) : f[k] \in Seq(T)}
  <1>3. 0 \in Good
    <2>1. f[0] = <<>> /\ <<>> \in Seq(T)
      BY <1>2 DEF Kept
    <2>2. 0 \in 0..Len(s) /\ f[0] \in Seq(T)
      BY <1>1, <2>1
    <2> HIDE DEF T
    <2> QED
      BY <2>2
  <1>4. \A k \in 1..Len(s) : k - 1 \in Good => k \in Good
    <2> SUFFICES ASSUME NEW k \in 1..Len(s), k - 1 \in Good PROVE k \in Good
      OBVIOUS
    <2>1. f[k - 1] \in Seq(T) /\ s[k] \in S /\ k \in 0..Len(s)
      BY <1>1
    <2>2. f[k] = IF s[k] < Window THEN Append(f[k - 1], s[k]) ELSE f[k - 1]
      BY <1>2 DEF Kept
    <2>3. s[k] < Window => s[k] \in T
      BY <2>1
    <2> HIDE DEF T
    <2>4. f[k] \in Seq(T)
      BY <2>1, <2>2, <2>3, AppendProperties
    <2> QED
      BY <2>1, <2>4
  <1>5. \A k \in 0..Len(s) : k \in Good
    <2> HIDE DEF Good
    <2> QED
      BY <1>1, <1>3, <1>4, UpTo
  <1> QED
    BY <1>1, <1>2, <1>5

LEMMA YoungestWithin ==
  ASSUME NEW S, NEW s \in Seq(S)
  PROVE  Youngest(s) \in Seq(S)
  <1>1. CASE Len(s) <= MaxLost
    BY <1>1 DEF Youngest
  <1>2. CASE ~(Len(s) <= MaxLost)
    <2> DEFINE m == Len(s) - MaxLost + 1
    <2>1. m \in 1..Len(s) + 1 /\ Len(s) \in Nat
      BY <1>2, LoginAssumption, LenProperties
    <2>2. Youngest(s) = SubSeq(s, m, Len(s))
      BY <1>2 DEF Youngest
    <2> HIDE DEF m
    <2>3. m \in Int /\ Len(s) \in Int /\ m .. Len(s) \subseteq 1 .. Len(s)
      BY <2>1
    <2>4. \A k \in m .. Len(s) : s[k] \in S
      BY <2>3, ElementOfSeq
    <2>5. SubSeq(s, m, Len(s)) \in Seq(S)
      BY <2>3, <2>4, SubSeqProperties
    <2> QED
      BY <2>2, <2>5
  <1> QED
    BY <1>1, <1>2

\* One failure a tick later.
OneOlder(x) == IF x < Window THEN x + 1 ELSE Window

LEMMA OlderWithin ==
  ASSUME NEW S, NEW T, \A x \in S : OneOlder(x) \in T, NEW s \in Seq(S)
  PROVE  Older(s) \in Seq(T) /\ Len(Older(s)) = Len(s)
  <1>1. /\ Len(s) \in Nat /\ DOMAIN s = 1..Len(s)
        /\ \A k \in 1..Len(s) : s[k] \in S
    BY LenProperties, ElementOfSeq
  <1>2. Older(s) = [k \in 1..Len(s) |-> OneOlder(s[k])]
    BY <1>1 DEF Older, OneOlder
  <1>3. Older(s) \in [1..Len(s) -> T]
    BY <1>1, <1>2
  <1> QED
    BY <1>1, <1>3, SeqDef, LenProperties

-----------------------------------------------------------------------------
(* The limiter *)

\* Requests that compare a token for address a, and how many they are.
Handlers(a) == {r \in Requests : request[r] = a}

Number(handled, a) == Cardinality({r \in Requests : handled[r] = a})

LEMMA HandlersCounted ==
  \A a : /\ InFlight(a) = Cardinality(Handlers(a)) /\ InFlight(a) \in Nat
         /\ InFlight(a) <= Cardinality(Requests)
         /\ IsFiniteSet(Handlers(a))
  <1> TAKE a
  <1>1. IsFiniteSet(Requests)
    BY LoginAssumption
  <1>2. Handlers(a) \subseteq Requests
    BY DEF Handlers
  <1>3. /\ IsFiniteSet(Handlers(a))
        /\ Cardinality(Handlers(a)) <= Cardinality(Requests)
    BY <1>1, <1>2, FS_Subset
  <1>4. Cardinality(Handlers(a)) \in Nat
    BY <1>3, FS_CardinalityType
  <1>5. InFlight(a) = Cardinality(Handlers(a))
    BY DEF InFlight, Handlers
  <1> QED
    BY <1>3, <1>4, <1>5

\* What is recorded, and what may still be, is within the budget.
RecordHolds ==
    \A a \in Addrs :
        Len(Live(failures[a])) + InFlight(a) <= Limit - 1 + Cardinality(Requests)

\* What was forgotten happened before the map was thrown away.
Since(q) == {x \in Ages : q <= x /\ x < Window}

LostIsOld == lost \in [Addrs -> Seq(Since(quiet))]

LoginInv == LoginTypeOK /\ RecordHolds /\ LostIsOld

LEMMA LoginFacts ==
  ASSUME LoginInv
  PROVE  /\ failures \in [Addrs -> Seq(Ages)]
         /\ request \in [Requests -> Addrs \cup {NoAddr}]
         /\ Cardinality(Requests) \in Nat /\ Limit \in Nat \ {0}
         /\ \A a \in Addrs : /\ failures[a] \in Seq(Ages)
                             /\ Len(Live(failures[a])) \in Nat
                             /\ Len(Live(failures[a])) + InFlight(a)
                                   <= Limit - 1 + Cardinality(Requests)
  <1>1. /\ failures \in [Addrs -> Seq(Ages)]
        /\ request \in [Requests -> Addrs \cup {NoAddr}]
    BY DEF LoginInv, LoginTypeOK, Ages
  <1>2. Cardinality(Requests) \in Nat /\ Limit \in Nat \ {0}
    BY LoginAssumption, FS_CardinalityType
  <1>3. \A a \in Addrs : failures[a] \in Seq(Ages) /\ Len(Live(failures[a])) \in Nat
    BY <1>1, LiveTyped
  <1> QED
    BY <1>1, <1>2, <1>3 DEF LoginInv, RecordHolds

\* The failures that are forgotten keep their ages.
LEMMA ForgetKeeps ==
  ASSUME LoginInv, Forget
  PROVE  quiet' \in Ages /\ lost' \in [Addrs -> Seq(Since(quiet'))]
  <1>1. /\ quiet' = 0
        /\ lost' = [a \in Addrs |-> Youngest(Happened(a))]
    BY DEF Forget
  <1>2. 0 \in Ages /\ Since(0) = {x \in Ages : x < Window}
    BY LoginAssumption DEF Ages, Since
  <1>3. ASSUME NEW a \in Addrs PROVE Youngest(Happened(a)) \in Seq(Since(0))
    <2>1. lost[a] \in Seq(Since(quiet)) /\ failures[a] \in Seq(Ages)
      BY LoginFacts DEF LoginInv, LostIsOld
    <2>2. Since(quiet) \subseteq Since(0)
      BY <1>2 DEF Since
    <2>3. lost[a] \in Seq(Since(0))
      BY <2>1, <2>2, SeqWithin
    <2>4. Live(failures[a]) \in Seq(Since(0))
      BY <1>2, <2>1, LiveWithin
    <2>5. Happened(a) \in Seq(Since(0))
      BY <2>3, <2>4, ConcatProperties DEF Happened
    <2> QED
      BY <2>5, YoungestWithin
  <1> QED
    BY <1>1, <1>2, <1>3

LEMMA LoginStarts == LoginInit => LoginInv
  <1> SUFFICES ASSUME LoginInit PROVE LoginInv
    OBVIOUS
  <1>1. /\ failures = [a \in Addrs |-> <<>>]
        /\ request = [r \in Requests |-> NoAddr]
        /\ lost = [a \in Addrs |-> <<>>]
        /\ quiet = Window
    BY DEF LoginInit
  <1>2. <<>> \in Seq(0 .. Window) /\ <<>> \in Seq(Since(quiet))
    OBVIOUS
  <1>3. LoginTypeOK /\ LostIsOld
    BY <1>1, <1>2, LoginAssumption DEF LoginTypeOK, LostIsOld
  <1>4. ASSUME NEW a \in Addrs
        PROVE  Len(Live(failures[a])) + InFlight(a)
                  <= Limit - 1 + Cardinality(Requests)
    <2>1. Len(Live(failures[a])) = 0
      BY <1>1, LiveOfNone
    <2>2. InFlight(a) \in Nat /\ InFlight(a) <= Cardinality(Requests)
      BY HandlersCounted
    <2>3. Cardinality(Requests) \in Nat /\ Limit \in Nat \ {0}
      BY LoginAssumption, FS_CardinalityType
    <2> QED
      BY <2>1, <2>2, <2>3
  <1> QED
    BY <1>3, <1>4 DEF LoginInv, RecordHolds

\* What is to be shown of a step, address by address.
LEMMA ByAddress ==
  ASSUME failures' \in [Addrs -> Seq(Ages)],
         request' \in [Requests -> Addrs \cup {NoAddr}],
         quiet' \in Ages,
         lost' \in [Addrs -> Seq(Since(quiet'))],
         \A a \in Addrs : Len(Live(failures'[a])) + Number(request', a)
                             <= Limit - 1 + Cardinality(Requests)
  PROVE  LoginInv'
  <1>1. Since(quiet') \subseteq Ages
    BY DEF Since
  <1>2. lost' \in [Addrs -> Seq(Ages)]
    BY <1>1, SeqWithin
  <1>3. LoginTypeOK'
    BY <1>2 DEF LoginTypeOK, Ages
  <1>4. LostIsOld'
    BY DEF LostIsOld, Since, Ages
  <1>5. RecordHolds'
    BY DEF RecordHolds, Live, InFlight, Number
  <1> QED
    BY <1>3, <1>4, <1>5 DEF LoginInv

LEMMA NothingLost ==
  ASSUME LoginInv, UNCHANGED <<lost, quiet>>
  PROVE  quiet' \in Ages /\ lost' \in [Addrs -> Seq(Since(quiet'))]
  BY DEF LoginInv, LoginTypeOK, LostIsOld, Ages

\* A process that ends forgets everything.
LEMMA StopKeeps ==
  ASSUME LoginInv, LoginStop
  PROVE  LoginInv'
  <1>1. /\ failures' = [a \in Addrs |-> <<>>]
        /\ request' = [r \in Requests |-> NoAddr]
    BY DEF LoginStop
  <1>2. <<>> \in Seq(Ages)
    OBVIOUS
  <1>3. quiet' \in Ages /\ lost' \in [Addrs -> Seq(Since(quiet'))]
    BY ForgetKeeps DEF LoginStop
  <1>4. ASSUME NEW a \in Addrs
        PROVE  Len(Live(failures'[a])) + Number(request', a)
                  <= Limit - 1 + Cardinality(Requests)
    <2>1. Len(Live(failures'[a])) = 0
      BY <1>1, LiveOfNone
    <2>2. {r \in Requests : request'[r] = a} = {}
      BY <1>1, LoginAssumption
    <2>3. Number(request', a) = 0
      BY <2>2, FS_EmptySet DEF Number
    <2>4. Cardinality(Requests) \in Nat /\ Limit \in Nat \ {0}
      BY LoginAssumption, FS_CardinalityType
    <2> QED
      BY <2>1, <2>3, <2>4
  <1> QED
    BY <1>1, <1>2, <1>3, <1>4, ByAddress

\* A check passes with fewer than Limit failures in the window: even if every
\* handler then records one, the sum stays within the bound.
LEMMA SubmitKeeps ==
  ASSUME LoginInv, NEW r \in Requests, NEW a \in Addrs, Submit(r, a)
  PROVE  LoginInv'
  <1>1. /\ failures \in [Addrs -> Seq(Ages)]
        /\ request \in [Requests -> Addrs \cup {NoAddr}]
        /\ Cardinality(Requests) \in Nat /\ Limit \in Nat \ {0}
        /\ \A b \in Addrs : /\ failures[b] \in Seq(Ages)
                            /\ Len(Live(failures[b])) \in Nat
                            /\ Len(Live(failures[b])) + InFlight(b)
                                  <= Limit - 1 + Cardinality(Requests)
    BY LoginFacts
  <1> DEFINE kept == Live(failures[a])
  <1>2. /\ failures' = [failures EXCEPT ![a] = kept]
        /\ request' = IF TooMany(a) THEN request ELSE [request EXCEPT ![r] = a]
        /\ request[r] = NoAddr
    BY DEF Submit
  <1>3. kept \in Seq(Ages) /\ Len(kept) \in Nat
    BY <1>1, LiveTyped
  <1>4. Len(Live(kept)) \in Nat /\ Len(Live(kept)) <= Len(kept)
    BY <1>3, LiveTyped, LiveShortens
  <1>5. TooMany(a) <=> Len(kept) >= Limit
    BY DEF TooMany
  <1> HIDE DEF kept
  <1>6. /\ failures' \in [Addrs -> Seq(Ages)] /\ failures'[a] = kept
        /\ \A b \in Addrs : b # a => failures'[b] = failures[b]
    BY <1>1, <1>2, <1>3
  <1>7. request' \in [Requests -> Addrs \cup {NoAddr}]
    BY <1>1, <1>2
  <1>8. \A b : Number(request', b) \in Nat /\ Number(request', b) <= Cardinality(Requests)
    <2>1. \A b : Number(request', b) = Cardinality({q \in Requests : request'[q] = b})
      BY DEF Number
    <2>2. \A b : {q \in Requests : request'[q] = b} \subseteq Requests
      OBVIOUS
    <2>3. IsFiniteSet(Requests)
      BY LoginAssumption
    <2>4. ASSUME NEW b
          PROVE  /\ Number(request', b) \in Nat
                 /\ Number(request', b) <= Cardinality(Requests)
      <3> DEFINE Q == {q \in Requests : request'[q] = b}
      <3>1. Q \subseteq Requests
        OBVIOUS
      <3>2. Number(request', b) = Cardinality(Q)
        BY <2>1
      <3> HIDE DEF Q
      <3>3. IsFiniteSet(Q) /\ Cardinality(Q) <= Cardinality(Requests)
        BY <2>3, <3>1, FS_Subset
      <3> QED
        BY <3>2, <3>3, FS_CardinalityType
    <2> QED
      BY <2>4
  <1>9. ASSUME NEW b \in Addrs
        PROVE  Len(Live(failures'[b])) + Number(request', b)
                  <= Limit - 1 + Cardinality(Requests)
    <2>1. CASE b # a
      <3>1. {q \in Requests : request'[q] = b} = {q \in Requests : request[q] = b}
        BY <1>1, <1>2, <2>1, LoginAssumption
      <3>2. Number(request', b) = InFlight(b)
        BY <3>1 DEF InFlight, Number
      <3> QED
        BY <1>1, <1>6, <2>1, <3>2
    <2>2. CASE b = a /\ TooMany(a)
      <3>1. Number(request', a) = InFlight(a) /\ InFlight(a) \in Nat
        BY <1>2, <2>2, HandlersCounted DEF InFlight, Number
      <3>2. Len(kept) + InFlight(a) <= Limit - 1 + Cardinality(Requests)
        BY <1>1 DEF kept
      <3> QED
        BY <1>1, <1>3, <1>4, <1>6, <2>2, <3>1, <3>2
    <2>3. CASE b = a /\ ~TooMany(a)
      <3>1. Len(kept) <= Limit - 1
        BY <1>1, <1>3, <1>5, <2>3
      <3> QED
        BY <1>1, <1>3, <1>4, <1>6, <1>8, <2>3, <3>1
    <2> QED
      BY <2>1, <2>2, <2>3
  <1>10. UNCHANGED <<lost, quiet>>
    BY DEF Submit
  <1> QED
    BY <1>6, <1>7, <1>9, <1>10, NothingLost, ByAddress

\* What a request that ends does to the number in flight.
Ends(r, a) ==
    /\ a = request[r]
    /\ a # NoAddr
    /\ request' = [request EXCEPT ![r] = NoAddr]

OneFewer(a) ==
    /\ a \in Addrs
    /\ request' \in [Requests -> Addrs \cup {NoAddr}]
    /\ Number(request', a) = InFlight(a) - 1
    /\ \A b \in Addrs : b # a => Number(request', b) = InFlight(b)

LEMMA RequestEnds ==
  ASSUME LoginInv, NEW r \in Requests, NEW a, Ends(r, a)
  PROVE  OneFewer(a)
  <1>0. a = request[r] /\ a # NoAddr /\ request' = [request EXCEPT ![r] = NoAddr]
    BY DEF Ends
  <1>1. request \in [Requests -> Addrs \cup {NoAddr}]
    BY LoginFacts
  <1>2. a \in Addrs /\ a # NoAddr /\ \A b \in Addrs : b # NoAddr
    BY <1>0, <1>1, LoginAssumption
  <1>3. {q \in Requests : request'[q] = a} = Handlers(a) \ {r} /\ r \in Handlers(a)
    BY <1>0, <1>1, <1>2 DEF Handlers
  <1>4. \A b \in Addrs : b # a => {q \in Requests : request'[q] = b} = Handlers(b)
    BY <1>0, <1>1, <1>2 DEF Handlers
  <1>5. Cardinality(Handlers(a) \ {r}) = Cardinality(Handlers(a)) - 1
    BY <1>3, HandlersCounted, FS_RemoveElement
  <1>6. \A b : Number(request', b) = Cardinality({q \in Requests : request'[q] = b})
    BY DEF Number
  <1>7. Number(request', a) = InFlight(a) - 1
    BY <1>3, <1>5, <1>6, HandlersCounted
  <1>8. \A b \in Addrs : b # a => Number(request', b) = InFlight(b)
    BY <1>4, <1>6, HandlersCounted
  <1>9. request' \in [Requests -> Addrs \cup {NoAddr}]
    BY <1>0, <1>1
  <1> QED
    BY <1>2, <1>7, <1>8, <1>9 DEF OneFewer

LEMMA AcceptKeeps ==
  ASSUME LoginInv, NEW r \in Requests, Accept(r)
  PROVE  LoginInv'
  <1>0. PICK a : a = request[r]
    OBVIOUS
  <1>1. /\ a # NoAddr /\ request' = [request EXCEPT ![r] = NoAddr]
        /\ failures' = failures
    BY <1>0 DEF Accept
  <1>2. /\ failures \in [Addrs -> Seq(Ages)]
        /\ Cardinality(Requests) \in Nat /\ Limit \in Nat \ {0}
        /\ \A b \in Addrs : /\ Len(Live(failures[b])) \in Nat
                            /\ Len(Live(failures[b])) + InFlight(b)
                                  <= Limit - 1 + Cardinality(Requests)
    BY LoginFacts
  <1>3. /\ request' \in [Requests -> Addrs \cup {NoAddr}]
        /\ Number(request', a) = InFlight(a) - 1
        /\ \A b \in Addrs : b # a => Number(request', b) = InFlight(b)
    <2>1. Ends(r, a)
      BY <1>0, <1>1 DEF Ends
    <2>2. OneFewer(a)
      BY <2>1, RequestEnds
    <2> QED
      BY <2>2 DEF OneFewer
  <1>4. \A b : InFlight(b) \in Nat
    BY HandlersCounted
  <1>5. ASSUME NEW b \in Addrs
        PROVE  Len(Live(failures'[b])) + Number(request', b)
                  <= Limit - 1 + Cardinality(Requests)
    <2>1. Number(request', b) \in {InFlight(b), InFlight(b) - 1}
      BY <1>3
    <2> QED
      BY <1>1, <1>2, <1>4, <2>1
  <1>6. UNCHANGED <<lost, quiet>>
    BY DEF Accept
  <1> QED
    BY <1>1, <1>2, <1>3, <1>5, <1>6, NothingLost, ByAddress

\* The failure recorded is one of a request that was in flight.
LEMMA RejectKeeps ==
  ASSUME LoginInv, NEW r \in Requests, Reject(r)
  PROVE  LoginInv'
  <1> DEFINE room == RoomyFailures
  <1>0. PICK a : a = request[r]
    OBVIOUS
  <1>1. /\ a # NoAddr /\ request' = [request EXCEPT ![r] = NoAddr]
        /\ failures' = [room EXCEPT ![a] = Append(room[a], 0)]
    BY <1>0 DEF Reject
  <1>2. /\ failures \in [Addrs -> Seq(Ages)]
        /\ Cardinality(Requests) \in Nat /\ Limit \in Nat \ {0}
        /\ \A b \in Addrs : /\ failures[b] \in Seq(Ages)
                            /\ Len(Live(failures[b])) \in Nat
                            /\ Len(Live(failures[b])) + InFlight(b)
                                  <= Limit - 1 + Cardinality(Requests)
    BY LoginFacts
  <1>3. /\ request' \in [Requests -> Addrs \cup {NoAddr}] /\ a \in Addrs
        /\ Number(request', a) = InFlight(a) - 1
        /\ \A b \in Addrs : b # a => Number(request', b) = InFlight(b)
    <2>1. Ends(r, a)
      BY <1>0, <1>1 DEF Ends
    <2>2. OneFewer(a)
      BY <2>1, RequestEnds
    <2> QED
      BY <2>2 DEF OneFewer
  <1>4. \A b : InFlight(b) \in Nat /\ InFlight(b) <= Cardinality(Requests)
    BY HandlersCounted
  <1>5. room \in [Addrs -> Seq(Ages)]
        /\ \A b \in Addrs : /\ Len(Live(room[b])) \in Nat
                            /\ Len(Live(room[b])) + InFlight(b)
                                  <= Limit - 1 + Cardinality(Requests)
    <2>1. CASE room = failures
      BY <1>2, <2>1
    <2>2. CASE room = [b \in Addrs |-> <<>>]
      <3>1. \A b \in Addrs : room[b] = <<>>
        BY <2>2
      <3>2. \A b \in Addrs : Len(Live(room[b])) = 0
        BY <3>1, LiveOfNone
      <3>3. <<>> \in Seq(Ages)
        OBVIOUS
      <3>4. room \in [Addrs -> Seq(Ages)]
        BY <2>2, <3>3
      <3> HIDE DEF room
      <3> QED
        BY <1>2, <1>4, <3>2, <3>4
    <2> QED
      BY <2>1, <2>2 DEF RoomyFailures
  <1> HIDE DEF room
  <1>6. /\ Append(room[a], 0) \in Seq(Ages)
        /\ Len(Live(Append(room[a], 0))) = Len(Live(room[a])) + 1
    BY <1>3, <1>5, LiveOfOneMore
  <1>7. /\ failures' \in [Addrs -> Seq(Ages)] /\ failures'[a] = Append(room[a], 0)
        /\ \A b \in Addrs : b # a => failures'[b] = room[b]
    BY <1>1, <1>3, <1>5, <1>6
  <1>8. ASSUME NEW b \in Addrs
        PROVE  Len(Live(failures'[b])) + Number(request', b)
                  <= Limit - 1 + Cardinality(Requests)
    <2>1. CASE b = a
      <3>1. /\ Len(Live(failures'[b])) = Len(Live(room[b])) + 1
            /\ Number(request', b) = InFlight(b) - 1
        BY <1>3, <1>6, <1>7, <2>1
      <3>2. /\ Len(Live(room[b])) \in Nat /\ InFlight(b) \in Nat
            /\ Len(Live(room[b])) + InFlight(b) <= Limit - 1 + Cardinality(Requests)
        BY <1>4, <1>5
      <3> QED
        BY <1>2, <3>1, <3>2
    <2>2. CASE b # a
      BY <1>3, <1>5, <1>7, <2>2
    <2> QED
      BY <2>1, <2>2
  <1>9. quiet' \in Ages /\ lost' \in [Addrs -> Seq(Since(quiet'))]
    BY NothingLost, ForgetKeeps DEF Reject
  <1> QED
    BY <1>3, <1>7, <1>8, <1>9, ByAddress

LEMMA TickKeeps ==
  ASSUME LoginInv, LoginTick
  PROVE  LoginInv'
  <1>1. /\ failures \in [Addrs -> Seq(Ages)]
        /\ request \in [Requests -> Addrs \cup {NoAddr}]
        /\ Cardinality(Requests) \in Nat /\ Limit \in Nat \ {0}
        /\ \A b \in Addrs : /\ failures[b] \in Seq(Ages)
                            /\ Len(Live(failures[b])) \in Nat
                            /\ Len(Live(failures[b])) + InFlight(b)
                                  <= Limit - 1 + Cardinality(Requests)
    BY LoginFacts
  <1>2. /\ failures' = [b \in Addrs |-> Older(failures[b])]
        /\ request' = request
    BY DEF LoginTick
  <1>3. ASSUME NEW s \in Seq(Ages)
        PROVE  Older(s) \in Seq(Ages) /\ NotMore(Older(s), s)
    <2>1. Len(s) \in Nat /\ DOMAIN s = 1..Len(s) /\ \A k \in 1..Len(s) : s[k] \in Ages
      BY LenProperties, ElementOfSeq
    <2>2. \A k \in 1..Len(s) : Older(s)[k] = OneOlder(s[k])
      BY <2>1 DEF Older, OneOlder
    <2>3. \A x \in Ages : OneOlder(x) \in Ages /\ Counts(OneOlder(x)) <= Counts(x)
      BY LoginAssumption DEF Ages, Counts, OneOlder
    <2>4. \A k \in 1..Len(s) : Counts(Older(s)[k]) <= Counts(s[k])
      BY <2>1, <2>2, <2>3
    <2>5. Older(s) \in Seq(Ages) /\ Len(Older(s)) = Len(s)
      BY <2>3, OlderWithin
    <2> QED
      BY <2>4, <2>5 DEF NotMore
  <1>4. /\ failures' \in [Addrs -> Seq(Ages)]
        /\ \A b \in Addrs : failures'[b] = Older(failures[b])
    BY <1>1, <1>2, <1>3
  <1>5. \A b : Number(request', b) = InFlight(b) /\ InFlight(b) \in Nat
    BY <1>2, HandlersCounted DEF InFlight, Number
  <1>6. ASSUME NEW b \in Addrs
        PROVE  Len(Live(failures'[b])) + Number(request', b)
                  <= Limit - 1 + Cardinality(Requests)
    <2>1. /\ Older(failures[b]) \in Seq(Ages)
          /\ Len(Live(Older(failures[b]))) <= Len(Live(failures[b]))
      BY <1>1, <1>3, LiveOfOlder
    <2>2. Len(Live(Older(failures[b]))) \in Nat
      BY <2>1, LiveTyped
    <2> QED
      BY <1>1, <1>4, <1>5, <2>1, <2>2
  <1>7. quiet' \in Ages /\ lost' \in [Addrs -> Seq(Since(quiet'))]
    <2>1. /\ quiet \in Ages /\ \A b \in Addrs : lost[b] \in Seq(Since(quiet))
          /\ quiet' = IF quiet < Window THEN quiet + 1 ELSE Window
          /\ lost' = [b \in Addrs |-> Live(Older(lost[b]))]
      BY DEF LoginInv, LoginTypeOK, LostIsOld, LoginTick, Ages
    <2> DEFINE S == {x \in Ages : quiet' <= x}
    <2>2. \A x \in Since(quiet) : OneOlder(x) \in S
      BY <2>1, LoginAssumption DEF Since, Ages, OneOlder
    <2>3. quiet' \in Ages /\ Since(quiet') = {x \in S : x < Window} /\ S \subseteq Ages
      BY <2>1, LoginAssumption DEF Since, Ages
    <2> HIDE DEF S
    <2>4. ASSUME NEW b \in Addrs PROVE Live(Older(lost[b])) \in Seq(Since(quiet'))
      <3>1. Older(lost[b]) \in Seq(S)
        BY <2>1, <2>2, OlderWithin
      <3> QED
        BY <2>3, <3>1, LiveWithin
    <2> QED
      BY <2>1, <2>3, <2>4
  <1> QED
    BY <1>1, <1>2, <1>4, <1>6, <1>7, ByAddress

LEMMA LoginInvHolds == Spec => []LoginInv
  <1>1. Init => LoginInv
    BY LoginStarts DEF Init
  <1>2. LoginInv /\ [Next]_vars => LoginInv'
    <2> SUFFICES ASSUME LoginInv, [Next]_vars PROVE LoginInv'
      OBVIOUS
    <2>1. ASSUME UNCHANGED loginVars PROVE LoginInv'
      BY <2>1 DEF loginVars, LoginInv, LoginTypeOK, RecordHolds, LostIsOld,
                  InFlight
    <2>2. ASSUME NEW p \in Procs, Startup(p) PROVE LoginInv'
      BY <2>1, <2>2 DEF Startup
    <2>3. ASSUME NEW p \in Procs, Stop(p) PROVE LoginInv'
      <3>1. CASE p = Front
        BY <2>3, <3>1, StopKeeps DEF Stop
      <3>2. CASE p # Front
        BY <2>1, <2>3, <3>2 DEF Stop
      <3> QED
        BY <3>1, <3>2
    <2>4. ASSUME NEW r \in Requests, Login(r) PROVE LoginInv'
      BY <2>4, SubmitKeeps, AcceptKeeps, RejectKeeps DEF Login, LoginStep
    <2>5. CASE Time
      BY <2>5, TickKeeps DEF Time
    <2>6. CASE UNCHANGED vars
      BY <2>1, <2>6 DEF vars
    <2> QED
      BY <2>2, <2>3, <2>4, <2>5, <2>6 DEF Next
  <1> QED
    BY <1>1, <1>2, PTL DEF Spec

\* However many requests overlap between tooMany and recordFailure, at most
\* Limit - 1 failures and one per handler happen in a window of an address
\* within which the map of failures was not thrown away, by its overflow or
\* by the end of the process (auth.go:31-56).
THEOREM LoginBudget == Spec => []BudgetHolds
  <1>1. LoginInv => BudgetHolds
    <2> SUFFICES ASSUME LoginInv, quiet = Window, NEW a \in Addrs
                 PROVE  Len(Happened(a)) + InFlight(a) <= Budget
      BY DEF BudgetHolds
    <2>1. /\ failures[a] \in Seq(Ages)
          /\ Len(Live(failures[a])) + InFlight(a)
                <= Limit - 1 + Cardinality(Requests)
      BY LoginFacts
    <2>2. Live(failures[a]) \in Seq(Ages)
      BY <2>1, LiveTyped
    <2>3. Since(quiet) = {}
      BY LoginAssumption DEF Since, Ages
    <2>4. lost[a] \in Seq({})
      BY <2>3 DEF LoginInv, LostIsOld
    <2>5. lost[a] = <<>>
      <3>1. \A k \in 1..Len(lost[a]) : lost[a][k] \in {}
        BY <2>4, ElementOfSeq
      <3>2. Len(lost[a]) = 0
        BY <2>4, <3>1, LenProperties
      <3> QED
        BY <2>4, <3>2, EmptySeq
    <2>6. Happened(a) = Live(failures[a])
      BY <2>2, <2>5, ConcatEmptySeq DEF Happened
    <2> QED
      BY <2>1, <2>6 DEF Budget
  <1> QED
    BY <1>1, LoginInvHolds, PTL

\* Every variable of the start and of the login form keeps its type.
THEOREM OperatorTypes == Spec => []TypeOK
  <1>1. StartInv /\ LoginInv => TypeOK
    BY DEF StartInv, LoginInv, TypeOK
  <1> QED
    BY <1>1, StartInvHolds, LoginInvHolds, PTL

-----------------------------------------------------------------------------
(* Lockouts *)

\* The failures t are some of the failures s, in their order and none younger
\* than it was: e tells which.
NoYounger(t, s) ==
    \E e \in [1..Len(t) -> 1..Len(s)] :
        /\ \A k, l \in 1..Len(t) : k < l => e[k] < e[l]
        /\ \A k \in 1..Len(t) : s[e[k]] <= t[k]

\* What a step may do while an address is locked out: end one of its requests
\* that had passed the check, or let its failures age.
LockoutWanes ==
    \A a \in Addrs :
        TooMany(a) =>
            \/ InFlight(a)' < InFlight(a)
            \/ InFlight(a)' = InFlight(a) /\ NoYounger(failures'[a], failures[a])

LEMMA NoneIsYounger ==
  ASSUME NEW s \in Seq(Ages)
  PROVE  NoYounger(s, s) /\ NoYounger(<<>>, s)
  <1>1. Len(s) \in Nat /\ Len(<<>>) = 0 /\ 1..0 = {}
    BY LenProperties
  <1>2. \A k \in 1..Len(s) : s[k] \in Nat
    BY ElementOfSeq, LoginAssumption DEF Ages
  <1>3. NoYounger(s, s)
    <2> DEFINE e == [k \in 1..Len(s) |-> k]
    <2>1. e \in [1..Len(s) -> 1..Len(s)] /\ \A k \in 1..Len(s) : e[k] = k
      OBVIOUS
    <2> HIDE DEF e
    <2> QED
      BY <1>1, <1>2, <2>1 DEF NoYounger
  <1>4. NoYounger(<<>>, s)
    <2> DEFINE e == [k \in 1..Len(<<>>) |-> k]
    <2>1. e \in [1..Len(<<>>) -> 1..Len(s)] /\ 1..Len(<<>>) = {}
      BY <1>1
    <2> HIDE DEF e
    <2> QED
      BY <2>1 DEF NoYounger
  <1> QED
    BY <1>3, <1>4

\* tooMany keeps failures as they are.
LEMMA LiveIsNoYounger ==
  ASSUME NEW s \in Seq(Ages)
  PROVE  NoYounger(Live(s), s)
  <1>1. PICK f : Kept(f, s) /\ Live(s) = f[Len(s)]
    BY LiveIsALoop
  <1>2. /\ Len(s) \in Nat
        /\ \A k \in 0..Len(s) : f[k] \in Seq(Ages) /\ Len(f[k]) \in Nat
        /\ \A k \in 1..Len(s) : s[k] \in Ages /\ k - 1 \in 0..Len(s)
    BY <1>1, KeptTyped
  <1> DEFINE From(k, e) ==
               /\ e \in [1..Len(f[k]) -> 1..k]
               /\ \A i, j \in 1..Len(f[k]) : i < j => e[i] < e[j]
               /\ \A i \in 1..Len(f[k]) : s[e[i]] = f[k][i]
             Good == {k \in 0..Len(s) : \E e : From(k, e)}
  <1>3. 0 \in Good
    <2>1. f[0] = <<>> /\ Len(f[0]) = 0 /\ 1..0 = {}
      BY <1>1 DEF Kept
    <2>2. [i \in 1..0 |-> i] \in [1..Len(f[0]) -> 1..0]
      BY <2>1
    <2>3. From(0, [i \in 1..0 |-> i])
      BY <2>1, <2>2
    <2> HIDE DEF From
    <2> QED
      BY <1>2, <2>3
  <1>4. \A k \in 1..Len(s) : k - 1 \in Good => k \in Good
    <2> SUFFICES ASSUME NEW k \in 1..Len(s), k - 1 \in Good PROVE k \in Good
      OBVIOUS
    <2>1. PICK e : From(k - 1, e)
      OBVIOUS
    <2>2. /\ k \in 0..Len(s) /\ k \in Nat /\ s[k] \in Ages
          /\ f[k - 1] \in Seq(Ages) /\ Len(f[k - 1]) \in Nat
      BY <1>2
    <2> DEFINE n == Len(f[k - 1])
    <2>3. /\ e \in [1..n -> 1..k - 1]
          /\ \A i, j \in 1..n : i < j => e[i] < e[j]
          /\ \A i \in 1..n : s[e[i]] = f[k - 1][i]
      BY <2>1
    <2>4. CASE ~(s[k] < Window)
      <3>1. f[k] = f[k - 1]
        BY <1>1, <2>4 DEF Kept
      <3>2. e \in [1..n -> 1..k]
        BY <2>2, <2>3
      <3>3. From(k, e)
        BY <2>3, <3>1, <3>2
      <3> HIDE DEF From
      <3> QED
        BY <2>2, <3>3
    <2>5. CASE s[k] < Window
      <3> DEFINE d == [i \in 1..n + 1 |-> IF i <= n THEN e[i] ELSE k]
      <3>1. f[k] = Append(f[k - 1], s[k])
        BY <1>1, <2>5 DEF Kept
      <3>2. /\ Len(f[k]) = n + 1 /\ f[k][n + 1] = s[k]
            /\ \A i \in 1..n : f[k][i] = f[k - 1][i]
        BY <2>2, <3>1, AppendProperties
      <3>3. n \in Nat
        BY <2>2
      <3> HIDE DEF n
      <3>4. \A i \in 1..n : e[i] \in 1..k /\ e[i] < k
        BY <2>2, <2>3
      <3>5. /\ d \in [1..n + 1 -> 1..k] /\ d[n + 1] = k
            /\ \A i \in 1..n : d[i] = e[i]
        BY <2>2, <3>3, <3>4
      <3> HIDE DEF d
      <3>6. \A i, j \in 1..n + 1 : i < j => d[i] < d[j]
        <4> SUFFICES ASSUME NEW i \in 1..n + 1, NEW j \in 1..n + 1, i < j
                     PROVE  d[i] < d[j]
          OBVIOUS
        <4>1. i \in 1..n
          BY <3>3
        <4>2. CASE j \in 1..n
          BY <2>3, <3>5, <4>1, <4>2
        <4>3. CASE j = n + 1
          BY <3>4, <3>5, <4>1, <4>3
        <4>4. j \in 1..n \/ j = n + 1
          BY <3>3
        <4> QED
          BY <4>2, <4>3, <4>4
      <3>7. \A i \in 1..n + 1 : s[d[i]] = f[k][i]
        <4> SUFFICES ASSUME NEW i \in 1..n + 1 PROVE s[d[i]] = f[k][i]
          OBVIOUS
        <4>1. CASE i \in 1..n
          BY <2>3, <3>2, <3>5, <4>1
        <4>2. CASE i = n + 1
          BY <3>2, <3>5, <4>2
        <4> QED
          BY <3>3, <4>1, <4>2
      <3>8. From(k, d)
        BY <3>2, <3>5, <3>6, <3>7
      <3> HIDE DEF From
      <3> QED
        BY <2>2, <3>8
    <2> QED
      BY <2>4, <2>5
  <1>5. \A k \in 0..Len(s) : k \in Good
    <2> HIDE DEF Good
    <2> QED
      BY <1>2, <1>3, <1>4, UpTo
  <1>6. Len(s) \in 0..Len(s)
    BY <1>2
  <1>7. PICK e : From(Len(s), e)
    BY <1>5, <1>6
  <1>8. \A i \in 1..Len(f[Len(s)]) : s[e[i]] \in Nat
    <2>1. \A k \in 1..Len(s) : s[k] \in Nat
      BY <1>2, LoginAssumption DEF Ages
    <2> QED
      BY <1>7, <2>1
  <1>9. /\ e \in [1..Len(f[Len(s)]) -> 1..Len(s)]
        /\ \A i, j \in 1..Len(f[Len(s)]) : i < j => e[i] < e[j]
        /\ \A i \in 1..Len(f[Len(s)]) : s[e[i]] <= f[Len(s)][i]
    BY <1>7, <1>8
  <1> HIDE DEF From, Good
  <1> QED
    BY <1>1, <1>9 DEF NoYounger

\* A tick makes failures older.
LEMMA TickIsNoYounger ==
  ASSUME NEW s \in Seq(Ages)
  PROVE  NoYounger(Older(s), s)
  <1> DEFINE t == Older(s)
             e == [k \in 1..Len(s) |-> k]
  <1>1. /\ Len(s) \in Nat /\ DOMAIN s = 1..Len(s)
        /\ \A k \in 1..Len(s) : s[k] \in Ages
    BY LenProperties, ElementOfSeq
  <1>2. \A x \in Ages : LET y == IF x < Window THEN x + 1 ELSE Window
                        IN  y \in Ages /\ x <= y
    BY LoginAssumption DEF Ages
  <1>3. \A k \in 1..Len(s) : t[k] = IF s[k] < Window THEN s[k] + 1 ELSE Window
    BY <1>1 DEF Older
  <1>4. t \in [1..Len(s) -> Ages]
    BY <1>1, <1>2 DEF Older
  <1>5. \A k \in 1..Len(s) : s[k] <= t[k]
    BY <1>1, <1>2, <1>3
  <1> HIDE DEF t
  <1>6. Len(t) = Len(s)
    BY <1>1, <1>4, SeqDef, LenProperties
  <1>7. e \in [1..Len(s) -> 1..Len(s)] /\ \A k \in 1..Len(s) : e[k] = k
    OBVIOUS
  <1> HIDE DEF e
  <1>8. NoYounger(t, s)
    BY <1>1, <1>5, <1>6, <1>7 DEF NoYounger
  <1> QED
    BY <1>8 DEF t

LEMMA SubmitWanes ==
  ASSUME LoginInv, NEW r \in Requests, NEW a \in Addrs, Submit(r, a),
         NEW b \in Addrs, TooMany(b)
  PROVE  Number(request', b) = InFlight(b) /\ NoYounger(failures'[b], failures[b])
  <1>1. /\ failures \in [Addrs -> Seq(Ages)] /\ failures[b] \in Seq(Ages)
        /\ request \in [Requests -> Addrs \cup {NoAddr}]
    BY LoginFacts
  <1>2. /\ failures' = [failures EXCEPT ![a] = Live(failures[a])]
        /\ request' = IF TooMany(a) THEN request ELSE [request EXCEPT ![r] = a]
        /\ request[r] = NoAddr
    BY DEF Submit
  <1>3. Number(request', b) = InFlight(b)
    <2>1. {q \in Requests : request'[q] = b} = {q \in Requests : request[q] = b}
      BY <1>1, <1>2, LoginAssumption
    <2> QED
      BY <2>1 DEF Number, InFlight
  <1>4. failures'[b] \in {failures[b], Live(failures[b])}
    BY <1>1, <1>2
  <1> QED
    BY <1>1, <1>3, <1>4, NoneIsYounger, LiveIsNoYounger

LEMMA EndWanes ==
  ASSUME LoginInv, NEW r \in Requests, Accept(r) \/ Reject(r), NEW b \in Addrs
  PROVE  \/ Number(request', b) < InFlight(b)
         \/ Number(request', b) = InFlight(b) /\ NoYounger(failures'[b], failures[b])
  <1>0. PICK a : a = request[r]
    OBVIOUS
  <1>1. Ends(r, a)
    BY <1>0 DEF Accept, Reject, Ends
  <1>2. /\ a \in Addrs /\ Number(request', a) = InFlight(a) - 1
        /\ \A c \in Addrs : c # a => Number(request', c) = InFlight(c)
    BY <1>1, RequestEnds DEF OneFewer
  <1>3. CASE b = a
    BY <1>2, <1>3, HandlersCounted
  <1>4. CASE b # a
    <2>1. failures \in [Addrs -> Seq(Ages)] /\ failures[b] \in Seq(Ages)
      BY LoginFacts
    <2>2. failures'[b] \in {failures[b], <<>>}
      <3>1. CASE Accept(r)
        BY <3>1 DEF Accept
      <3>2. CASE Reject(r)
        <4>1. DOMAIN RoomyFailures = Addrs /\ RoomyFailures[b] \in {failures[b], <<>>}
          BY <2>1 DEF RoomyFailures
        <4>2. failures' = [RoomyFailures EXCEPT ![a] = Append(RoomyFailures[a], 0)]
          BY <1>0, <3>2 DEF Reject
        <4> QED
          BY <1>4, <4>1, <4>2
      <3> QED
        BY <3>1, <3>2
    <2> QED
      BY <1>2, <1>4, <2>1, <2>2, NoneIsYounger
  <1> QED
    BY <1>3, <1>4

LEMMA LockoutStep == LoginInv /\ [Next]_vars => LockoutWanes
  <1> SUFFICES ASSUME LoginInv, [Next]_vars, NEW b \in Addrs, TooMany(b)
               PROVE  \/ InFlight(b)' < InFlight(b)
                      \/ /\ InFlight(b)' = InFlight(b)
                         /\ NoYounger(failures'[b], failures[b])
    BY DEF LockoutWanes
  <1>1. InFlight(b)' = Number(request', b)
    BY DEF InFlight, Number
  <1>2. /\ failures \in [Addrs -> Seq(Ages)] /\ failures[b] \in Seq(Ages)
        /\ InFlight(b) \in Nat
    BY LoginFacts, HandlersCounted
  <1> DEFINE Goal == \/ Number(request', b) < InFlight(b)
                     \/ /\ Number(request', b) = InFlight(b)
                        /\ NoYounger(failures'[b], failures[b])
  <1>3. ASSUME UNCHANGED loginVars PROVE Goal
    BY <1>2, <1>3, NoneIsYounger DEF loginVars, InFlight, Number
  <1>4. ASSUME NEW p \in Procs, Startup(p) PROVE Goal
    BY <1>3, <1>4 DEF Startup
  <1>5. ASSUME NEW p \in Procs, Stop(p) PROVE Goal
    <2>1. CASE p = Front
      <3>1. /\ failures' = [c \in Addrs |-> <<>>]
            /\ request' = [q \in Requests |-> NoAddr]
        BY <1>5, <2>1 DEF Stop, LoginStop
      <3>2. {q \in Requests : request'[q] = b} = {} /\ failures'[b] = <<>>
        BY <3>1, LoginAssumption
      <3>3. Number(request', b) = 0
        BY <3>2, FS_EmptySet DEF Number
      <3>4. NoYounger(failures'[b], failures[b])
        BY <1>2, <3>2, NoneIsYounger
      <3> QED
        BY <1>2, <3>3, <3>4
    <2>2. CASE p # Front
      BY <1>3, <1>5, <2>2 DEF Stop
    <2> QED
      BY <2>1, <2>2
  <1>6. ASSUME NEW r \in Requests, Login(r) PROVE Goal
    BY <1>6, SubmitWanes, EndWanes DEF Login, LoginStep
  <1>7. ASSUME Time PROVE Goal
    <2>1. failures' = [c \in Addrs |-> Older(failures[c])] /\ request' = request
      BY <1>7 DEF Time, LoginTick
    <2>2. NoYounger(failures'[b], failures[b])
      BY <1>2, <2>1, TickIsNoYounger
    <2> QED
      BY <2>1, <2>2 DEF InFlight, Number
  <1>8. Goal
    <2> HIDE DEF Goal
    <2> QED
      BY <1>3, <1>4, <1>5, <1>6, <1>7 DEF Next, vars
  <1> QED
    BY <1>1, <1>8

\* Trying again does not prolong a lockout: a step of anyone ends a request of
\* the address that had passed tooMany before, or leaves it only failures that
\* it had, none of them younger; a request turned away adds nothing.
THEOREM LockoutIsNotProlonged == Spec => [][LockoutWanes]_vars
  BY LockoutStep, LoginInvHolds, PTL DEF Spec

=============================================================================
