--------------------------- MODULE SchemaVersions ---------------------------
(***************************************************************************)
(* What Open promises of the database: its schema only moves forward, one  *)
(* migration at a time and in their order, and reaches the last one.       *)
(***************************************************************************)
EXTENDS Naturals

CONSTANT Last   \* number of migration files

VARIABLE versions   \* versions the database has

Init == versions = {}

\* The version after those the database has.
Advance ==
    \E v \in 1 .. Last :
        /\ versions = 1 .. v - 1
        /\ versions' = 1 .. v

Forward == Init /\ [][Advance]_versions

Spec == Forward /\ WF_versions(Advance)
=============================================================================
