----------------------------- MODULE MCClosing -----------------------------
(* Small instances of close and the automatic tasks.                        *)
EXTENDS Closing

CONSTANT c2

\* Backups alone or among tasks of other kinds; no closer that uses a handle, or one.
MCSetups == [kinds : {{"backup"}, {"backup", "step"}}, holding : {{}, {c2}}]
=============================================================================
