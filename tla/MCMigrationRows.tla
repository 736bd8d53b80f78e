-------------------------- MODULE MCMigrationRows --------------------------
(* Small instances of the rows of a migrating table.                        *)
EXTENDS MigrationRows

Use(ids, others, key, policies, rough) ==
    [sourceIds |-> ids, foreignIds |-> others, key |-> key, policies |-> policies,
     updatesKeys |-> rough, cutCommits |-> rough]

\* Each kind of key, a filter condition, and a table in two files whose keys
\* are assigned.
MCSetups ==
    {Use({1, 2, 3}, {}, "primary", {"abort", "replace"}, FALSE),
     Use({1, 2, 3}, {}, "auto", {"abort", "replace"}, FALSE),
     Use({1, 3}, {2}, "rowid", {}, FALSE),
     Use({1, 3}, {}, "primary", {"abort", "replace"}, TRUE)}
=============================================================================
