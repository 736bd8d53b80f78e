---------------------------- MODULE MCMigration ----------------------------
(* Small instances of the life of migration infos.                          *)
EXTENDS Migration

CONSTANTS t1, t2, h1, h2, s1, s2

Use(ts, existing, actors, rebinds, changes) ==
    [tables |-> ts, existing |-> existing, actors |-> actors,
     rebinds |-> rebinds, changes |-> changes]

\* Two handles on one table, one handle on two tables, two steppers, and
\* tables that are only migrated.
MCSetups ==
    {Use({t1}, {t1}, {h1, h2, s1}, FALSE, TRUE),
     Use({t1, t2}, {t1}, {h1, s1}, FALSE, TRUE),
     Use({t1}, {t1}, {h1, s1, s2}, TRUE, TRUE),
     Use({t1, t2}, {t1, t2}, {h1, s1}, FALSE, FALSE)}
=============================================================================
