----------------------------- MODULE Migrations -----------------------------
(***************************************************************************)
(* How an operator process starts (RunE in cmd/kscribe/main.go, store.Open *)
(* and runMigrations).  The Deployment's default strategy overlaps the old *)
(* and the new pod on one database file, and leader election comes after   *)
(* Open: two processes may migrate at the same time.  Each checks whether  *)
(* a file is recorded outside the transaction that applies it.             *)
(*                                                                         *)
(* SQLite is external: the first write of a transaction takes the file's   *)
(* write lock, waiting up to busy_timeout for it; a transaction that does  *)
(* not commit leaves nothing.  A failed start exits, and the kubelet       *)
(* starts the process again.                                               *)
(***************************************************************************)
EXTENDS Naturals, FiniteSets

CONSTANTS
    Procs,        \* operator processes that share the database file
    NoProc,       \* none of them
    NumFiles,     \* migration files, versions 1 .. NumFiles
    Idempotent,   \* files of CREATE ... IF NOT EXISTS statements only
    MaxExits      \* bound on crashes, SIGTERMs and failed calls

ASSUME MigrationsAssumption ==
    /\ IsFiniteSet(Procs)
    /\ NoProc \notin Procs
    /\ NumFiles \in Nat
    /\ Idempotent \subseteq 1 .. NumFiles
    /\ MaxExits \in Nat

VARIABLES
    pc,         \* pc[p]: where process p is
    file,       \* file[p]: the migration its loop is at
    lock,       \* the process that holds the write lock, or NoProc
    recorded,   \* versions in schema_migrations
    applied,    \* applied[f]: how often the effects of f were committed
    exits       \* crashes, SIGTERMs and failed calls so far

Files == 1 .. NumFiles

dbVars == <<lock, recorded, applied>>
startVars == <<pc, file, dbVars, exits>>

-----------------------------------------------------------------------------

\* The process ends: its transaction, if any, is rolled back.
Leave(p) ==
    /\ pc' = [pc EXCEPT ![p] = "down"]
    /\ file' = [file EXCEPT ![p] = 1]
    /\ lock' = IF lock = p THEN NoProc ELSE lock
    /\ UNCHANGED <<recorded, applied>>

\* The kubelet starts it.
Start(p) ==
    /\ pc[p] = "down"
    /\ pc' = [pc EXCEPT ![p] = "open"]
    /\ UNCHANGED <<file, dbVars, exits>>

\* Open sets the pragmas and creates schema_migrations if it must.
Open(p) ==
    /\ pc[p] = "open"
    /\ pc' = [pc EXCEPT ![p] = "check"]
    /\ UNCHANGED <<file, dbVars, exits>>

\* Mutant: the loop is over at the last file, before it is applied.
PendingButLast(p) == file[p] < NumFiles

\* Versions come in the order of their file names.
Pending(p) == file[p] <= NumFiles

\* Mutant: what is recorded is not looked at.
DoneNever(p) == FALSE

\* SELECT COUNT(*) > 0
Done(p) == file[p] \in recorded

\* Mutant: the end of the list is not looked at.
CheckRunsOn(p) ==
    /\ pc[p] = "check"
    /\ IF Done(p) \/ ~Pending(p)
       THEN file' = [file EXCEPT ![p] = @ + 1] /\ UNCHANGED pc
       ELSE pc' = [pc EXCEPT ![p] = "exec"] /\ UNCHANGED file
    /\ UNCHANGED <<dbVars, exits>>

\* A recorded file is skipped, any other applied; after the last one, serve.
Check(p) ==
    /\ pc[p] = "check"
    /\ IF Pending(p)
       THEN IF Done(p)
            THEN file' = [file EXCEPT ![p] = @ + 1] /\ UNCHANGED pc
            ELSE pc' = [pc EXCEPT ![p] = "exec"] /\ UNCHANGED file
       ELSE pc' = [pc EXCEPT ![p] = "serving"] /\ UNCHANGED file
    /\ UNCHANGED <<dbVars, exits>>

\* The file's statements fit the schema as it is.
Executes(f) ==
    /\ f \in Idempotent \/ applied[f] = 0
    /\ \A g \in 1 .. f - 1 : applied[g] > 0

\* tx.Exec(content)
Exec(p) ==
    /\ pc[p] = "exec"
    /\ lock = NoProc
    /\ IF Executes(file[p])
       THEN /\ lock' = p
            /\ pc' = [pc EXCEPT ![p] = "record"]
            /\ UNCHANGED <<file, recorded, applied>>
       ELSE Leave(p)
    /\ UNCHANGED exits

\* The lock is not had within busy_timeout; for the first pragma, at once.
Busy(p) ==
    /\ pc[p] \in {"open", "exec"}
    /\ lock # NoProc
    /\ Leave(p)
    /\ UNCHANGED exits

\* Mutant: INSERT OR IGNORE, a version that is recorded is no error.
RecordOrIgnore(p) ==
    /\ pc[p] = "record"
    /\ pc' = [pc EXCEPT ![p] = "commit"]
    /\ UNCHANGED <<file, dbVars, exits>>

\* INSERT INTO schema_migrations: the version is its primary key.
Record(p) ==
    /\ pc[p] = "record"
    /\ IF file[p] \in recorded
       THEN Leave(p)
       ELSE pc' = [pc EXCEPT ![p] = "commit"] /\ UNCHANGED <<file, dbVars>>
    /\ UNCHANGED exits

\* tx.Commit: the statements and the record together.
Commit(p) ==
    /\ pc[p] = "commit"
    /\ recorded' = recorded \cup {file[p]}
    /\ applied' = [applied EXCEPT ![file[p]] = @ + 1]
    /\ lock' = NoProc
    /\ file' = [file EXCEPT ![p] = @ + 1]
    /\ pc' = [pc EXCEPT ![p] = "check"]
    /\ UNCHANGED exits

\* A crash, a SIGTERM, or an error of any call before mgr.Start.
Exit(p) ==
    /\ pc[p] # "down"
    /\ exits < MaxExits
    /\ exits' = exits + 1
    /\ Leave(p)

-----------------------------------------------------------------------------

StartInit ==
    /\ pc = [p \in Procs |-> "down"]
    /\ file = [p \in Procs |-> 1]
    /\ lock = NoProc
    /\ recorded = {}
    /\ applied = [f \in Files |-> 0]
    /\ exits = 0

StartStep(p) ==
    Start(p) \/ Open(p) \/ Check(p) \/ Exec(p) \/ Record(p) \/ Commit(p)

-----------------------------------------------------------------------------
(* Properties *)

StartTypeOK ==
    /\ pc \in [Procs -> {"down", "open", "check", "exec", "record", "commit",
                         "serving"}]
    /\ file \in [Procs -> 1 .. NumFiles + 1]
    /\ lock \in Procs \cup {NoProc}
    /\ recorded \subseteq Files
    /\ applied \in [Files -> Nat]
    /\ exits \in 0 .. MaxExits

\* No migration is lost and none is run twice, whatever crashes between a file
\* and its record and however two processes' checks and transactions overlap:
\* a file took effect exactly as often as it is recorded.
AppliedAsRecorded ==
    \A f \in Files : applied[f] = IF f \in recorded THEN 1 ELSE 0

\* ADR-004, fail closed: no process serves on a schema that is not complete.
ServesOnlyMigrated ==
    (\E p \in Procs : pc[p] = "serving") => recorded = Files

\* Open implements SchemaVersions: no step takes a version back or skips one,
\* and in the end all of them are there.
Schema == INSTANCE SchemaVersions WITH Last <- NumFiles, versions <- recorded
SchemaMovesForward == Schema!Spec

\* Racing starts sort themselves out: every process ends up serving.
EveryProcessServes == <>[](\A p \in Procs : pc[p] = "serving")
=============================================================================
