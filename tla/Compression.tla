---------------------------- MODULE Compression -----------------------------
(***************************************************************************)
(* What the threads of a process know about one table whose columns are to *)
(* be compressed (Compression, CompressionTableInfo), and whether its type *)
(* column is there when a statement needs it.  Threads of the application  *)
(* use the table, create and drop it and add columns to it, in             *)
(* transactions that may be rolled back; the stepper acquires the table    *)
(* and compresses its rows.                                                *)
(*                                                                         *)
(* The column to compress is "c", its type column "ct"; the application    *)
(* may add a column "x".  SQLite is external: one writer at a time, whose  *)
(* changes the others see when it commits.                                 *)
(***************************************************************************)
EXTENDS Integers, Sequences

CONSTANTS
    Users,          \* threads of the application, each with its handle
    Stepper,        \* the thread that calls stepCompression
    NoThread,
    TableSetups     \* what the application does, and how often

VARIABLES
    setup,          \* an element of TableSetups
    left,           \* how many operations each thread of the application will still start
    disk,           \* the committed schema: the columns of the table, and the record
    work,           \* the schema in the transaction of writer
    saved,          \* the schema at its savepoint
    writer,         \* the thread in a transaction
    level,          \* m_transactionLevel of writer
    batches,        \* batches of rows that are still to be compressed
    known,          \* the members of Compression and of the info of the table
    localRecord,    \* threads whose m_localHasCreatedRecord is set
    committing,     \* threads whose m_commitingTables holds the info
    thread,         \* where each thread is, on whose behalf, and what it read
    raced           \* a thread found the index from columns that had changed since

schema == <<disk, work, saved, writer, level>>
members == <<batches, known, localRecord, committing>>
compressionVars == <<setup, left, schema, members, thread, raced>>

Threads == Users \cup {Stepper}
NoTable == <<>>

\* The columns of a table have different names.
ASSUME CompressionConstants ==
    /\ Stepper \notin Users /\ NoThread \notin Threads
    /\ \A s \in TableSetups :
          /\ {s.drops, s.alters} \subseteq BOOLEAN
          /\ \A cols \in s.tables :
                /\ cols \in Seq(STRING)
                /\ \A i, j \in DOMAIN cols : cols[i] = cols[j] => i = j
          /\ s.records \subseteq {"none", "empty", "done"}

\* The record of the table is "none" without a record table, "empty" without a row in
\* it, and "done" when its row says that all rows are compressed.
Blank == [cols |-> NoTable, record |-> "none"]
Idle == [pc |-> "idle", goal |-> "none", hint |-> FALSE, table |-> FALSE, info |-> FALSE,
         metas |-> NoTable]

-----------------------------------------------------------------------------
(* SQLite. *)

View(t) == IF writer = t THEN work ELSE disk
CanWrite(t) == writer \in {t, NoThread}
Write(t, s) == IF writer = t THEN work' = s /\ UNCHANGED disk ELSE disk' = s /\ UNCHANGED work
HasColumn(cols, name) == \E i \in DOMAIN cols : cols[i] = name
Typed(s) == HasColumn(s.cols, "ct")
Exists(t) == View(t).cols # NoTable
PositionOf(cols) == CHOOSE i \in DOMAIN cols : cols[i] = "ct"

-----------------------------------------------------------------------------
(* Threads. *)

At(t, p) == thread[t].pc = p
Sets(t, new) == thread' = [thread EXCEPT ![t] = new]
Goto(t, p) == Sets(t, [Idle EXCEPT !.pc = p])
Begins(t, g, p) == Sets(t, [Idle EXCEPT !.pc = p, !.goal = g])
Start(u) == left[u] > 0 /\ left' = [left EXCEPT ![u] = @ - 1]

-----------------------------------------------------------------------------
(* Transactions of the application. *)

beginTransaction(u) ==
    /\ At(u, "idle") /\ u \in setup.transactions /\ writer = NoThread /\ Start(u)
    /\ writer' = u /\ level' = 1 /\ work' = disk
    /\ UNCHANGED <<setup, disk, saved, members, thread, raced>>

beginNested(u) ==
    /\ At(u, "idle") /\ setup.nested /\ writer = u /\ level = 1 /\ Start(u)
    /\ level' = 2 /\ saved' = work
    /\ UNCHANGED <<setup, disk, work, writer, members, thread, raced>>

commitTransaction(u) ==
    /\ At(u, "idle") /\ writer = u
    /\ saved' = Blank
    /\ IF level = 2
       THEN level' = 1 /\ UNCHANGED <<disk, work, writer, thread>>
       ELSE /\ writer' = NoThread /\ level' = 0 /\ disk' = work /\ work' = Blank
            /\ Goto(u, "committed")
    /\ UNCHANGED <<setup, left, members, raced>>

rollbackTransaction(u) ==
    /\ At(u, "idle") /\ writer = u
    /\ IF level = 2 THEN level' = 1 /\ work' = saved /\ UNCHANGED writer
       ELSE level' = 0 /\ work' = Blank /\ writer' = NoThread
    /\ saved' = Blank
    /\ Goto(u, "rolledback")
    /\ UNCHANGED <<setup, left, disk, members, raced>>

\* Mutant: the record table that was rolled back is taken to be there.
BugNotifyTransactionCommitted(u) ==
    /\ At(u, "committed") \/ At(u, "rolledback")
    /\ known' = [known EXCEPT !.needCheck = @ \/ (At(u, "rolledback") /\ u \in committing)]
    /\ localRecord' = localRecord \ {u}
    /\ committing' = committing \ {u}
    /\ Goto(u, "idle")
    /\ UNCHANGED <<setup, left, schema, batches, raced>>

notifyTransactionCommitted(u) ==
    /\ At(u, "committed") \/ At(u, "rolledback")
    /\ known' = [known EXCEPT !.needCheck = @ \/ (At(u, "rolledback") /\ u \in committing),
                      !.hasRecord = @ /\ ~(At(u, "rolledback") /\ u \in localRecord)]
    /\ localRecord' = localRecord \ {u}
    /\ committing' = committing \ {u}
    /\ Goto(u, "idle")
    /\ UNCHANGED <<setup, left, schema, batches, raced>>

-----------------------------------------------------------------------------
(* What a thread of the application begins. *)

\* A statement on the table is prepared: getOrInitInfo.
UseTable(u) ==
    /\ At(u, "idle") /\ Start(u)
    /\ IF known.filted THEN Goto(u, "check") ELSE Begins(u, "use", "init")
    /\ UNCHANGED <<setup, schema, members, raced>>

\* CREATE TABLE is prepared: tryGetCompressingColumnsForNewTable.
CreateTable(u) ==
    /\ At(u, "idle") /\ Start(u) /\ ~Exists(u)
    /\ Begins(u, "create", "init")
    /\ UNCHANGED <<setup, schema, members, raced>>

\* The record of a table is deleted, if there is a record table.
WithoutRecord(s) == [s EXCEPT !.record = IF @ = "none" THEN @ ELSE "empty"]

\* DROP TABLE; in the same transaction the record of the table is deleted.
DropTable(u) ==
    /\ At(u, "idle") /\ setup.drops /\ Start(u) /\ CanWrite(u) /\ Exists(u)
    /\ Write(u, WithoutRecord([View(u) EXCEPT !.cols = NoTable]))
    /\ UNCHANGED <<setup, saved, writer, level, members, thread, raced>>

\* ALTER TABLE ADD COLUMN, by the application or for a new property of its class.
AddColumn(u) ==
    /\ At(u, "idle") /\ setup.alters /\ Start(u) /\ CanWrite(u) /\ Exists(u)
    /\ ~HasColumn(View(u).cols, "x")
    /\ Write(u, [View(u) EXCEPT !.cols = Append(@, "x")])
    /\ UNCHANGED <<setup, saved, writer, level, members, thread, raced>>

-----------------------------------------------------------------------------
(* initInfo. *)

readHints(t) ==
    /\ At(t, "init") /\ Sets(t, [thread[t] EXCEPT !.pc = "exist", !.hint = known.hints])
    /\ UNCHANGED <<setup, left, schema, members, raced>>

tableExist(t) ==
    /\ At(t, "exist") /\ Sets(t, [thread[t] EXCEPT !.pc = "record", !.table = Exists(t)])
    /\ UNCHANGED <<setup, left, schema, members, raced>>

tryCreateRecordTable(t) ==
    /\ At(t, "record") \/ At(t, "recordAgain")
    /\ Sets(t, [thread[t] EXCEPT !.pc = IF @ = "record" THEN "install" ELSE "filter",
                                 !.info = @ /\ known.filted])
    /\ known' = [known EXCEPT !.hasRecord = TRUE]
    /\ IF known.hasRecord \/ View(t).record # "none"
       THEN UNCHANGED <<disk, work, localRecord>>
       ELSE /\ CanWrite(t)
            /\ Write(t, [View(t) EXCEPT !.record = "empty"])
            /\ localRecord' = IF writer = t THEN localRecord \cup {t} ELSE localRecord
    /\ UNCHANGED <<setup, left, saved, writer, level, batches, committing, raced>>

\* An info that is there already is checked again.  Without one, the table gets
\* one when it is there, and is a hint when it is not.  getOrInitInfo asks
\* again afterwards, and a statement on a table without an info is not rewritten.
initInfo(t) ==
    /\ At(t, "install")
    /\ LET there == thread[t].table
           hinted == thread[t].hint
       IN known' = IF known.filted THEN [known EXCEPT !.needCheck = TRUE]
               ELSE [known EXCEPT !.filted = there,
                              !.needCheck = @ \/ there,
                              !.hints = ~there /\ (@ \/ ~hinted),
                              !.acquired = @ /\ (there \/ hinted),
                              !.compressed = FALSE]
    /\ CASE thread[t].goal = "use" -> Goto(t, IF known'.filted THEN "check" ELSE "idle")
         [] thread[t].goal = "create" -> Goto(t, "define")
         [] OTHER -> Sets(t, [Idle EXCEPT !.pc = "recordAgain", !.info = TRUE])
    /\ UNCHANGED <<setup, left, schema, batches, localRecord, committing, raced>>

\* The type columns of a new table are defined with it when there is a hint.
defineColumns(t) ==
    /\ At(t, "define") /\ Sets(t, [thread[t] EXCEPT !.pc = "create", !.hint = known.hints])
    /\ UNCHANGED <<setup, left, schema, members, raced>>

stepCreateTable(t) ==
    /\ At(t, "create") /\ CanWrite(t) /\ Goto(t, "idle")
    /\ IF Exists(t) THEN UNCHANGED <<disk, work>>
       ELSE Write(t, [View(t) EXCEPT !.cols = IF thread[t].hint THEN <<"c", "ct">> ELSE <<"c">>])
    /\ UNCHANGED <<setup, left, saved, writer, level, members, raced>>

-----------------------------------------------------------------------------
(* checkCompressingColumn, and the preparation of a statement that names   *)
(* the type column.                                                        *)

checkCompressingColumn(t) ==
    /\ \/ At(t, "check") /\ Goto(t, IF known.needCheck THEN "meta" ELSE "prepare")
       \/ At(t, "checkFix") /\ Goto(t, IF known.needCheck THEN "metaFix" ELSE "prepareFix")
    /\ UNCHANGED <<setup, left, schema, members, raced>>

getTableMeta(t) ==
    /\ At(t, "meta") \/ At(t, "metaFix")
    /\ IF Exists(t)
       THEN Sets(t, [thread[t] EXCEPT !.pc = IF @ = "meta" THEN "alter" ELSE "alterFix",
                                      !.metas = View(t).cols])
       ELSE Goto(t, "idle")
    /\ UNCHANGED <<setup, left, schema, members, raced>>

Changed(t) ==
    View(t).cols \notin {thread[t].metas} \cup (IF HasColumn(thread[t].metas, "ct") THEN {}
                                               ELSE {Append(thread[t].metas, "ct")})

\* Mutant: the type column is taken to be the last of the columns that were read.
BugAddColumn(t) ==
    /\ At(t, "alter") \/ At(t, "alterFix")
    /\ raced' = (raced \/ Changed(t))
    /\ CanWrite(t)
    /\ IF Exists(t)
       THEN /\ IF Typed(View(t)) THEN UNCHANGED <<disk, work>>
               ELSE Write(t, [View(t) EXCEPT !.cols = Append(@, "ct")])
            /\ known' = [known EXCEPT !.index = Len(thread[t].metas)]
            /\ Sets(t, [thread[t] EXCEPT !.pc = IF @ = "alter" THEN "flag" ELSE "flagFix"])
       ELSE Goto(t, "idle") /\ UNCHANGED <<disk, work, known>>
    /\ UNCHANGED <<setup, left, saved, writer, level, batches, localRecord, committing>>

\* A type column that another thread added in the meantime is no error, and the
\* index is counted from the columns that were read.
addColumn(t) ==
    LET metas == thread[t].metas
        next == [thread[t] EXCEPT !.pc = IF @ = "alter" THEN "flag" ELSE "flagFix"]
    IN  /\ At(t, "alter") \/ At(t, "alterFix")
        /\ raced' = (raced \/ Changed(t))
        /\ IF HasColumn(metas, "ct")
           THEN /\ known' = [known EXCEPT !.index = PositionOf(metas)]
                /\ Sets(t, next)
                /\ UNCHANGED <<disk, work>>
           ELSE /\ CanWrite(t)
                /\ IF Exists(t)
                   THEN /\ IF Typed(View(t)) THEN UNCHANGED <<disk, work>>
                           ELSE Write(t, [View(t) EXCEPT !.cols = Append(@, "ct")])
                        /\ known' = [known EXCEPT !.index = Len(metas) + 1]
                        /\ Sets(t, next)
                   ELSE Goto(t, "idle") /\ UNCHANGED <<disk, work, known>>
        /\ UNCHANGED <<setup, left, saved, writer, level, batches, localRecord, committing>>

setNeedCheckColumns(t) ==
    /\ At(t, "flag") \/ At(t, "flagFix")
    /\ known' = [known EXCEPT !.needCheck = FALSE]
    /\ committing' = IF ~HasColumn(thread[t].metas, "ct") /\ writer = t THEN committing \cup {t}
                     ELSE committing
    /\ Goto(t, IF At(t, "flag") THEN "prepare" ELSE "prepareFix")
    /\ UNCHANGED <<setup, left, schema, batches, localRecord, raced>>

\* HandleStatement::prepare: a type column that is missing is looked after once.
prepare(t) ==
    /\ At(t, "prepare") \/ At(t, "prepareFix")
    /\ Goto(t, CASE ~Exists(t) -> "idle"
                 [] Exists(t) /\ Typed(View(t)) -> IF t = Stepper THEN "rows" ELSE "idle"
                 [] OTHER -> IF At(t, "prepare") THEN "fix" ELSE "failed")
    /\ UNCHANGED <<setup, left, schema, members, raced>>

\* Mutant: the missing type column is not looked after.
BugTryFixCompressingColumn(t) ==
    /\ At(t, "fix") /\ Goto(t, "failed")
    /\ UNCHANGED <<setup, left, schema, members, raced>>

tryFixCompressingColumn(t) ==
    /\ At(t, "fix") /\ Goto(t, IF known.needCheck THEN "failed" ELSE "checkFix")
    /\ known' = [known EXCEPT !.needCheck = TRUE]
    /\ UNCHANGED <<setup, left, schema, batches, localRecord, committing, raced>>

\* The caller of a statement that failed calls it again.
Again(t) ==
    /\ At(t, "failed") /\ Goto(t, IF t = Stepper THEN "idle" ELSE "check")
    /\ UNCHANGED <<setup, left, schema, members, raced>>

-----------------------------------------------------------------------------
(* The stepper: Compression::step. *)

\* tryCompressRows: a table that is gone counts as compressed.
tryCompressRows ==
    /\ At(Stepper, "idle") /\ ~known.compressed /\ known.compressing
    /\ IF Exists(Stepper) THEN Goto(Stepper, "check") /\ UNCHANGED <<disk, known>>
       ELSE /\ writer = NoThread
            /\ disk' = WithoutRecord(disk)
            /\ known' = [known EXCEPT !.compressing = FALSE]
            /\ UNCHANGED thread
    /\ UNCHANGED <<setup, left, work, saved, writer, level, batches, localRecord, committing, raced>>

\* tryAcquireTables: the tables of the database and those of the hints, unless they
\* are acquired already and the step is the last one.
getAllTables ==
    /\ At(Stepper, "idle") /\ ~known.compressed /\ ~known.compressing
    /\ IF known.acquired THEN Goto(Stepper, "finish")
       ELSE IF known.hints \/ Exists(Stepper) THEN Begins(Stepper, "acquire", "init")
       ELSE Goto(Stepper, "recordAgain")
    /\ UNCHANGED <<setup, left, schema, members, raced>>

\* It fails when the record table is not there.
filterComplessingTables ==
    /\ At(Stepper, "filter")
    /\ IF disk.record = "none" THEN Goto(Stepper, "idle")
       ELSE Sets(Stepper, [thread[Stepper] EXCEPT !.pc = "acquired",
                                                  !.info = @ /\ disk.record # "done"])
    /\ UNCHANGED <<setup, left, schema, members, raced>>

\* The end of tryAcquireTables.
acquireTables ==
    /\ At(Stepper, "acquired") /\ Goto(Stepper, "idle")
    /\ known' = [known EXCEPT !.acquired = TRUE, !.compressing = thread[Stepper].info]
    /\ UNCHANGED <<setup, left, schema, batches, localRecord, committing, raced>>

\* A batch of rows; the last one is not full.
compressRows ==
    /\ At(Stepper, "rows") /\ writer = NoThread
    /\ batches' = IF batches = 0 THEN 0 ELSE batches - 1
    /\ Goto(Stepper, IF batches > 1 THEN "idle" ELSE "update")
    /\ UNCHANGED <<setup, left, schema, known, localRecord, committing, raced>>

\* updateCompressionRecord; whether the record was written is not looked at.
updateRecord ==
    /\ At(Stepper, "update") /\ writer = NoThread /\ Goto(Stepper, "idle")
    /\ disk' = [disk EXCEPT !.record = IF @ = "none" THEN @ ELSE "done"]
    /\ known' = [known EXCEPT !.compressing = FALSE]
    /\ UNCHANGED <<setup, left, work, saved, writer, level, batches, localRecord, committing, raced>>

finishStep ==
    /\ At(Stepper, "finish") /\ Goto(Stepper, "idle")
    /\ known' = [known EXCEPT !.compressed = TRUE]
    /\ UNCHANGED <<setup, left, schema, batches, localRecord, committing, raced>>

-----------------------------------------------------------------------------
\* A thread waits for the write lock of another one for so long only: the statement
\* fails then.  Whether a record was written or deleted is not looked at.
LockTimesOut(t) ==
    /\ setup.timesOut /\ ~CanWrite(t)
    /\ \/ /\ At(t, "record") \/ At(t, "recordAgain")
          /\ ~known.hasRecord /\ View(t).record = "none"
          /\ Goto(t, "idle") /\ UNCHANGED known
       \/ (At(t, "create") \/ At(t, "rows")) /\ Goto(t, "idle") /\ UNCHANGED known
       \/ /\ At(t, "alter") \/ At(t, "alterFix")
          /\ ~HasColumn(thread[t].metas, "ct")
          /\ Goto(t, "failed") /\ UNCHANGED known
       \/ At(t, "update") /\ Goto(t, "idle") /\ known' = [known EXCEPT !.compressing = FALSE]
       \/ /\ t = Stepper /\ At(t, "idle") /\ ~known.compressed /\ known.compressing /\ ~Exists(t)
          /\ known' = [known EXCEPT !.compressing = FALSE] /\ UNCHANGED thread
    /\ UNCHANGED <<setup, left, schema, batches, localRecord, committing, raced>>

-----------------------------------------------------------------------------
\* The routines of initInfo and checkCompressingColumn, for any thread.
Continue(t) ==
    \/ readHints(t) \/ tableExist(t) \/ tryCreateRecordTable(t) \/ initInfo(t)
    \/ defineColumns(t) \/ stepCreateTable(t)
    \/ checkCompressingColumn(t) \/ getTableMeta(t) \/ addColumn(t) \/ setNeedCheckColumns(t)
    \/ prepare(t) \/ tryFixCompressingColumn(t) \/ Again(t)

Steps ==
    \/ tryCompressRows \/ getAllTables \/ filterComplessingTables \/ acquireTables
    \/ compressRows \/ updateRecord \/ finishStep

Ends(u) == commitTransaction(u) \/ rollbackTransaction(u) \/ notifyTransactionCommitted(u)

CompressionNext ==
    \/ \E t \in Threads : Continue(t) \/ LockTimesOut(t)
    \/ Steps
    \/ \E u \in Users :
         \/ beginTransaction(u) \/ beginNested(u) \/ Ends(u)
         \/ UseTable(u) \/ CreateTable(u) \/ DropTable(u) \/ AddColumn(u)

CompressionInit ==
    /\ setup \in TableSetups
    /\ left = setup.operations
    /\ batches = setup.batches
    /\ disk \in [cols : setup.tables, record : setup.records]
    /\ disk.record = "done" => Typed(disk)
    /\ work = Blank /\ saved = Blank
    /\ writer = NoThread /\ level = 0
    /\ known = [filted |-> FALSE, hints |-> FALSE, needCheck |-> TRUE, index |-> 0,
            acquired |-> FALSE, compressing |-> FALSE, compressed |-> FALSE, hasRecord |-> FALSE]
    /\ localRecord = {} /\ committing = {}
    /\ thread = [t \in Threads |-> Idle]
    /\ raced = FALSE

CompressionSpec == CompressionInit /\ [][CompressionNext]_compressionVars

\* Threads go on, transactions end, and the stepper is called again and again until
\* everything is compressed.
CompressionFairness ==
    /\ \A t \in Threads : WF_compressionVars(Continue(t))
    /\ \A u \in Users : WF_compressionVars(Ends(u))
    /\ WF_compressionVars(Steps)

CompressionFairSpec == CompressionSpec /\ CompressionFairness

-----------------------------------------------------------------------------
(* What is claimed. *)

\* The table is there from the start or keeps the columns it is created with, and it
\* is not dropped.
Steady == ~setup.drops /\ (NoTable \notin setup.tables \/ ~setup.alters)

\* The stepper writes the type of a row to the type column and to no other, when no
\* column was added between reading the columns of the table and altering it
\* (checkCompressingColumns, compressRow).
TypeColumnFound ==
    (At(Stepper, "rows") /\ Steady /\ ~raced) => disk.cols[known.index] = "ct"

\* A statement on a table that is there is prepared in the end, whatever transactions
\* were rolled back: a type column that went with one is added again
\* (checkCompressingColumn, notifyTransactionCommitted, tryFixCompressingColumn).
StatementsPrepared == \A u \in Users : At(u, "check") ~> At(u, "idle")

\* The compression comes to its end unless a nested transaction was rolled back, and
\* a table that was there from the start and is not dropped has its type column then,
\* and, unless a wait for the lock timed out, a record that says so (step,
\* tryAcquireTables, tryCreateRecordTable).
TableCompressed ==
    (~setup.nested) =>
        <>[](/\ known.compressed
             /\ (NoTable \notin setup.tables /\ ~setup.drops) =>
                    Typed(disk) /\ (disk.record = "done" \/ setup.timesOut))

=============================================================================
