--------------------------- MODULE MigrationRows ---------------------------
(* The rows of one migrating table: the statements an application runs on   *)
(* it (MigratingStatementDecorator), which go to the source table and the   *)
(* target table, against the steps that move rows from the one to the other *)
(* (MigrateHandleOperator).  Statements run in write transactions, so they  *)
(* interleave whole; the commit of a transaction on two database files is   *)
(* what a crash can cut in two.                                             *)
EXTENDS Integers, FiniteSets, FiniteSetsExt

CONSTANTS
    MaxId,        \* bound: rowids are 1..MaxId
    Values,
    Setups,       \* the tables and their uses
    BatchCount    \* MigrationBatchCount

Ids == 1..MaxId

ASSUME RowsConstants ==
    /\ MaxId \in Nat \ {0} /\ BatchCount \in Nat
    /\ \A s \in Setups : s.sourceIds \subseteq Ids /\ s.foreignIds \subseteq Ids \ s.sourceIds
    /\ Setups \subseteq [sourceIds : SUBSET Ids, foreignIds : SUBSET Ids,
                       key : {"rowid", "primary", "auto"},
                       policies : SUBSET {"abort", "ignore", "replace"},
                       updatesKeys : BOOLEAN, cutCommits : BOOLEAN]

VARIABLES
    setup,        \* the table and its use; it never changes
    source,       \* rows of the source table within the filter condition
    foreign,      \* the other rows of the source table
    target,       \* rows of the target table
    seq,          \* its row of sqlite_sequence, None without one
    sourceExists, \* the source table has not been dropped
    targetExists,
    phase         \* how this process sees the migration of the table

vars == <<setup, source, foreign, target, seq, sourceExists, targetExists, phase>>

SourceIds == setup.sourceIds     \* rows of the source table to be migrated
ForeignIds == setup.foreignIds   \* rows the filter leaves to other targets
Key == setup.key                 \* the key of the table
Policies == setup.policies       \* conflict policies of inserts
UpdatesKeys == setup.updatesKeys \* whether updates assign the key
CutCommits == setup.cutCommits   \* whether a crash may fall between two commits

None == -1

Top(ids) == Max(ids \cup {0})

Put(f, id, v) == [i \in DOMAIN f \cup {id} |-> IF i = id THEN v ELSE f[i]]

Without(f, ids) == [i \in DOMAIN f \ ids |-> f[i]]

\* Rows as the unioned view has them; the target's where an id is in both.
View(r) == [i \in DOMAIN r.source \cup DOMAIN r.target |->
              IF i \in DOMAIN r.target THEN r.target[i] ELSE r.source[i]]

Now == [source |-> source, foreign |-> foreign, target |-> target, seq |-> seq]

----------------------------------------------------------------------------
(* Transactions.                                                            *)

Commit(r) ==
    /\ source' = r.source /\ foreign' = r.foreign
    /\ target' = r.target /\ seq' = r.seq

\* The process dies after the commit of the target's file, or, for inserts,
\* whose commit order is reverted, after the commit of the source's.
CutAfterTarget(r) == target' = r.target /\ seq' = r.seq /\ UNCHANGED <<source, foreign>>

CutAfterSource(r) == source' = r.source /\ foreign' = r.foreign /\ UNCHANGED <<target, seq>>

Write(r, cut) ==
    /\ \/ ~cut /\ Commit(r) /\ phase' = phase
       \/ cut /\ CutCommits /\ CutAfterTarget(r) /\ phase' = "new"
    /\ UNCHANGED <<setup, sourceExists, targetExists>>

----------------------------------------------------------------------------
(* Statements of the application.  One prepared while the table migrates    *)
(* works on both tables, and may still be stepped when the last row has     *)
(* been migrated; one prepared later works on the target alone.             *)

UsesSource == phase \in {"migrating", "migrated"}

UsesTargetOnly == phase \in {"migrated", "dumpster", "done"}

\* SQLite's choice of a rowid in a table with these ids.
NewRowid(ids) == Top(ids) + 1

\* The id of a row inserted without one: stepInsert, after the row was put
\* into the source table and removed again.
InsertedId(both) ==
    CASE Key = "auto" -> Max({seq, Top(DOMAIN target)}) + 1
      [] ~both -> NewRowid(DOMAIN target)
      [] both /\ Key = "primary" -> NewRowid(DOMAIN View(Now))
      [] both /\ Key = "rowid" -> Max({NewRowid(DOMAIN source \cup DOMAIN foreign),
                                       NewRowid(DOMAIN target)})

Sequenced(id) == IF Key = "auto" THEN Max({seq, id}) ELSE seq

InsertNew(both) ==
    /\ targetExists
    /\ IF both THEN UsesSource ELSE UsesTargetOnly
    /\ InsertedId(both) <= MaxId
    /\ \E v \in Values :
          LET id == InsertedId(both)
          IN  Commit([Now EXCEPT !.target = Put(target, id, v), !.seq = Sequenced(id)])
    /\ UNCHANGED <<setup, sourceExists, targetExists, phase>>

\* An insert with an id.  In the source table it only finds out about rows
\* with that id: they abort the insert, make it ignored, or are replaced.
InsertAt(both, id, v, policy) ==
    LET conflict == both /\ id \in DOMAIN source \cup DOMAIN foreign
        r == [Now EXCEPT !.source = IF both THEN Without(source, {id}) ELSE source,
                         !.foreign = IF both THEN Without(foreign, {id}) ELSE foreign,
                         !.target = Put(target, id, v), !.seq = Sequenced(id)]
    IN  /\ targetExists /\ Key # "rowid"
        /\ IF both THEN UsesSource ELSE UsesTargetOnly
        /\ policy = "replace" \/ (~conflict /\ id \notin DOMAIN target)
        /\ \/ Commit(r) /\ phase' = phase
           \/ both /\ CutCommits /\ CutAfterSource(r) /\ phase' = "new"
        /\ UNCHANGED <<setup, sourceExists, targetExists>>

BugUpdate(both, id, v) ==
    /\ targetExists
    /\ IF both THEN UsesSource ELSE UsesTargetOnly
    /\ id \in IF both THEN DOMAIN View(Now) ELSE DOMAIN target
    /\ Write([Now EXCEPT !.target = Put(target, id, v)], FALSE)

\* stepUpdateOrDelete: the ids come from the unioned view, the rows are then
\* addressed by id in the source table and in the target table.
Update(both, id, v) ==
    LET set(f) == IF id \in DOMAIN f THEN Put(f, id, v) ELSE f
    IN  /\ targetExists
        /\ IF both THEN UsesSource ELSE UsesTargetOnly
        /\ id \in IF both THEN DOMAIN View(Now) ELSE DOMAIN target
        /\ \E cut \in {FALSE, both} :
              Write([Now EXCEPT !.source = IF both THEN set(source) ELSE source,
                                !.foreign = IF both THEN set(foreign) ELSE foreign,
                                !.target = set(target)], cut)

\* The same for an update that assigns the key; a conflict within one of the
\* tables fails the statement.
UpdateKey(both, id, new) ==
    LET move(f) == IF id \in DOMAIN f THEN Put(Without(f, {id}), new, f[id]) ELSE f
        inSource == DOMAIN source \cup DOMAIN foreign
    IN  /\ targetExists /\ UpdatesKeys /\ id # new
        /\ IF both THEN UsesSource ELSE UsesTargetOnly
        /\ id \in IF both THEN DOMAIN View(Now) ELSE DOMAIN target
        /\ both /\ id \in inSource => new \notin inSource
        /\ id \in DOMAIN target => new \notin DOMAIN target
        /\ Write([Now EXCEPT !.source = IF both THEN move(source) ELSE source,
                             !.foreign = IF both THEN move(foreign) ELSE foreign,
                             !.target = move(target)], FALSE)

Delete(both, ids) ==
    /\ targetExists
    /\ IF both THEN UsesSource ELSE UsesTargetOnly
    /\ ids \subseteq IF both THEN DOMAIN View(Now) ELSE DOMAIN target
    /\ \E cut \in {FALSE, both} :
          Write([Now EXCEPT !.source = IF both THEN Without(source, ids) ELSE source,
                            !.foreign = IF both THEN Without(foreign, ids) ELSE foreign,
                            !.target = Without(target, ids)], cut)

\* The source table is emptied, not dropped: the stepper drops it.
DropTable(both) ==
    /\ targetExists
    /\ IF both THEN UsesSource ELSE UsesTargetOnly
    /\ target' = <<>> /\ seq' = None /\ targetExists' = FALSE
    /\ source' = IF both THEN <<>> ELSE source
    /\ UNCHANGED <<setup, foreign, sourceExists, phase>>

CreateTable ==
    /\ ~targetExists
    /\ targetExists' = TRUE
    /\ UNCHANGED <<setup, source, foreign, target, seq, sourceExists, phase>>

----------------------------------------------------------------------------
(* The migration of the table.                                              *)

\* The first statement on the table, or the stepper, initializes the info and
\* the sequence of an autoincrement key.
Bind ==
    /\ phase = "new" /\ targetExists
    /\ phase' = IF sourceExists THEN "migrating" ELSE "done"
    /\ seq' = IF Key = "auto" /\ sourceExists /\ seq = None
              THEN Top(DOMAIN source \cup DOMAIN foreign) ELSE seq
    /\ UNCHANGED <<setup, source, foreign, target, sourceExists, targetExists>>

BugMigrateRow(r) ==
    LET id == Top(DOMAIN r.source)
    IN  IF id = 0 THEN [r EXCEPT !.migrated = TRUE]
        ELSE [r EXCEPT !.source = Without(r.source, {id}),
                       !.target = IF id > 1 THEN Put(r.target, id, r.source[id])
                                  ELSE r.target]

\* migrateRow: the row with the greatest id is inserted into the target, or
\* ignored, and removed from the source if the insert changed anything.
MigrateRow(r) ==
    LET id == Top(DOMAIN r.source)
    IN  IF r.migrated THEN r
        ELSE IF id = 0 \/ id \in DOMAIN r.target THEN [r EXCEPT !.migrated = TRUE]
        ELSE [r EXCEPT !.source = Without(r.source, {id}),
                       !.target = Put(r.target, id, r.source[id])]

\* n rows of the loop of migrateRows, ended by the batch or a busy thread.
Migrated[n \in Nat] ==
    IF n = 0 THEN [source |-> source, target |-> target, migrated |-> FALSE]
    ELSE MigrateRow(Migrated[n - 1])

MigrateRows ==
    /\ phase = "migrating" /\ targetExists
    /\ \E n \in 1..BatchCount + 1 :
          LET m == Migrated[n]
              r == [Now EXCEPT !.source = m.source, !.target = m.target,
                               !.seq = IF m.target = target THEN seq
                                       ELSE Sequenced(Top(DOMAIN m.target))]
          IN  \/ /\ Commit(r)
                 /\ phase' = IF m.migrated THEN "migrated" ELSE phase
              \/ CutCommits /\ CutAfterTarget(r) /\ phase' = "new"
    /\ UNCHANGED <<setup, sourceExists, targetExists>>

\* tryMigrateRows of a table that was dropped.
MigrateNothing ==
    /\ phase = "migrating" /\ ~targetExists
    /\ phase' = "migrated"
    /\ UNCHANGED <<setup, source, foreign, target, seq, sourceExists, targetExists>>

Unreferenced ==
    /\ phase = "migrated"
    /\ phase' = "dumpster"
    /\ UNCHANGED <<setup, source, foreign, target, seq, sourceExists, targetExists>>

BugKeepSource ==
    /\ phase = "dumpster"
    /\ phase' = "done"
    /\ UNCHANGED <<setup, source, foreign, target, seq, sourceExists, targetExists>>

\* A source table that still has rows is left alone.
DropSourceTable ==
    /\ phase = "dumpster"
    /\ phase' = "done"
    /\ sourceExists' = (sourceExists /\ DOMAIN source \cup DOMAIN foreign # {})
    /\ UNCHANGED <<setup, source, foreign, target, seq, targetExists>>

\* The process ends between transactions and starts again.
Restart ==
    /\ phase # "new"
    /\ phase' = "new"
    /\ UNCHANGED <<setup, source, foreign, target, seq, sourceExists, targetExists>>

----------------------------------------------------------------------------
AValue == CHOOSE v \in Values : TRUE

Init ==
    /\ setup \in Setups
    /\ source = [i \in SourceIds |-> AValue]
    /\ foreign = [i \in ForeignIds |-> AValue]
    /\ target = <<>> /\ seq = None
    /\ sourceExists = TRUE /\ targetExists = TRUE
    /\ phase = "new"

Statement ==
    \E both \in BOOLEAN :
        \/ InsertNew(both)
        \/ \E id \in Ids, v \in Values, p \in Policies : InsertAt(both, id, v, p)
        \/ \E id \in Ids, v \in Values : Update(both, id, v)
        \/ \E id, new \in Ids : UpdateKey(both, id, new)
        \/ \E ids \in SUBSET Ids : ids # {} /\ Delete(both, ids)
        \/ DropTable(both)

Migrate == MigrateRows \/ MigrateNothing \/ Unreferenced \/ DropSourceTable

Next == Statement \/ CreateTable \/ Bind \/ Migrate \/ Restart

Spec == Init /\ [][Next]_vars

\* The operation queue keeps stepping the migration, across restarts.
FairSpec ==
    /\ Spec
    /\ WF_vars(Bind) /\ SF_vars(MigrateRows) /\ SF_vars(MigrateNothing)
    /\ SF_vars(Unreferenced) /\ SF_vars(DropSourceTable)

----------------------------------------------------------------------------
(* Properties.                                                              *)

Rows(ids) == UNION {[s -> Values] : s \in SUBSET ids}

\* Types of the state.
TypeOK ==
    /\ source \in Rows(Ids) /\ foreign \in Rows(Ids) /\ target \in Rows(Ids)
    /\ seq \in Nat \cup {None}
    /\ {sourceExists, targetExists} \subseteq BOOLEAN
    /\ phase \in {"new", "migrating", "migrated", "dumpster", "done"}

\* What a statement prepared now reads from the table.
Seen == IF phase \in {"new", "migrating"} THEN View(Now) ELSE target

\* Neither a commit cut in two nor an assigned key put a row in both tables.
Exact == ~UpdatesKeys /\ ~CutCommits

\* Steps of the migration and restarts change nothing a reader of the target
\* table can see: rows neither vanish with the end of the migration nor come
\* back with the next start of the process.
MigrationUnseen == [][Exact /\ (Bind \/ Migrate \/ Restart) => UNCHANGED Seen]_vars

\* Even where a crash or an assigned key left a row in both tables and hides
\* others, no step of the migration loses a row: each is still stored in one
\* of the tables.  Moving rows, dropping the table and dropping the source table
\* leave the rows alone that the filter condition gives to other target tables.
MigrationKeepsRows ==
    [][/\ Bind \/ Migrate \/ Restart => UNCHANGED View(Now)
       /\ Migrate \/ (\E both \in BOOLEAN : DropTable(both)) => UNCHANGED foreign]_vars

\* With its statements, the migrating table is one plain table.
Table == INSTANCE PlainTable WITH
            rows <- Seen,
            Contents <- {[i \in s.sourceIds |-> AValue] : s \in Setups}

\* The target table can be treated as if it already had the data of the
\* source: every step, whoever takes it, is one of a plain table.
IsPlainTable == Table!Init /\ [][Exact => Table!Next]_Seen

\* After migration, source tables are dropped, unless the target stays away or
\* the filter condition left rows in the source.
SourceIsDropped ==
    Exact /\ ForeignIds = {} => (<>[]targetExists => <>~sourceExists)
=============================================================================
