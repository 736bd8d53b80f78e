------------------------------ MODULE Migration ------------------------------
(* The life of the infos of migrating tables (Migration.cpp): handles bind  *)
(* their statements to infos, steppers move rows and drop source tables, and *)
(* all of them find out about tables on the way.  Each block under m_lock is *)
(* one step; whatever was read before it may be stale by then.               *)
EXTENDS Integers, FiniteSets

CONSTANTS
    Tables,       \* the target tables the configured filters want migrated
    Handles,
    Steppers,     \* threads in stepMigration
    MaxRows,      \* bound: rows of a source table
    Setups        \* which of them there are, and what the handles do

ASSUME MigrationConstants ==
    /\ Tables # {} /\ MaxRows \in Nat
    /\ IsFiniteSet(Handles) /\ Handles \cap Steppers = {}
    /\ Setups \subseteq [tables : SUBSET Tables, existing : SUBSET Tables,
                         actors : SUBSET (Handles \cup Steppers),
                         rebinds : BOOLEAN, changes : BOOLEAN]

Actors == Handles \cup Steppers

VARIABLES
    setup,        \* one of Setups; it never changes
    filted,       \* m_filted: "info" or "none" for the tables known
    migratings, dumpster, hints,
    referenceds,  \* m_referenceds: references of the infos in it
    acquired,     \* m_tableAcquired
    migrated,     \* m_migrated
    rows,         \* rows left in each source table
    sources,      \* source tables that exist
    targets,      \* target tables that exist
    pc, tab,      \* where an actor is, and with which table
    seen,         \* targetTableExsits of initInfo
    goal,         \* what initInfo is called for
    todo,         \* tables a stepper still has to initialize
    refs,         \* Binder's m_referenceds: infos a handle holds
    bound         \* tables its live statements use through an info

infos == <<filted, migratings, dumpster, hints, referenceds, acquired, migrated>>
tables == <<rows, sources, targets>>
vars == <<setup, infos, tables, pc, tab, seen, goal, todo, refs, bound>>

Rebinds == setup.rebinds   \* a handle prepares two statements on one table
Changes == setup.changes   \* handles create and drop tables

Goto(a, where) == pc' = [pc EXCEPT ![a] = where]

Plus(f, t, n) == [f EXCEPT ![t] = @ + n]

Without(f, ts) == [t \in DOMAIN f \ ts |-> f[t]]

----------------------------------------------------------------------------
(* initInfo.                                                                *)

Back(a) == CASE goal[a] = "use" -> "get"
             [] goal[a] = "create" -> "execute"
             [] goal[a] = "acquire" -> "acquire"

InitInfo(a, t, why) ==
    /\ Goto(a, "source")
    /\ tab' = [tab EXCEPT ![a] = t]
    /\ goal' = [goal EXCEPT ![a] = why]

\* checkSourceTableExistsAndHasRowid, and markAsNoNeedToMigrate.
LookSource(a) ==
    /\ pc[a] = "source"
    /\ IF tab[a] \in sources
       THEN Goto(a, "target")
       ELSE Goto(a, "none")
    /\ UNCHANGED <<setup, infos, tables, tab, seen, goal, todo, refs, bound>>

MarkAsNoNeedToMigrate(a) ==
    /\ pc[a] = "none"
    /\ filted' = [filted EXCEPT ![tab[a]] = IF @ = "unknown" THEN "none" ELSE @]
    /\ hints' = hints \ {tab[a]}
    /\ Goto(a, Back(a))
    /\ UNCHANGED <<migratings, dumpster, referenceds, acquired, migrated>>
    /\ UNCHANGED <<setup, tables, tab, seen, goal, todo, refs, bound>>

\* getTargetTableInfo.
LookTarget(a) ==
    /\ pc[a] = "target"
    /\ seen' = [seen EXCEPT ![a] = tab[a] \in targets]
    /\ Goto(a, "mark")
    /\ UNCHANGED <<setup, infos, tables, tab, goal, todo, refs, bound>>

BugMarkInfo(a) ==
    LET t == tab[a]
    IN  /\ pc[a] = "mark"
        /\ migrated' = FALSE
        /\ \/ /\ ~seen[a]
              /\ hints' = hints \cup {t} /\ acquired' = FALSE
              /\ UNCHANGED <<filted, migratings, referenceds>>
           \/ /\ seen[a]
              /\ migratings' = migratings \cup {t}
              /\ referenceds' = [u \in DOMAIN referenceds \cup {t} |->
                                   IF u = t THEN 0 ELSE referenceds[u]]
              /\ filted' = [filted EXCEPT ![t] = "info"]
              /\ hints' = hints \ {t} /\ UNCHANGED acquired
        /\ Goto(a, Back(a))
        /\ UNCHANGED <<setup, dumpster, tables, tab, seen, goal, todo, refs, bound>>

\* The block under the lock, which looks again whether the table is known.
MarkInfo(a) ==
    LET t == tab[a]
    IN  /\ pc[a] = "mark"
        /\ \/ /\ filted[t] # "unknown"
              /\ UNCHANGED infos
           \/ /\ filted[t] = "unknown" /\ ~seen[a]
              /\ migrated' = FALSE
              /\ hints' = hints \cup {t} /\ acquired' = FALSE
              /\ UNCHANGED <<filted, migratings, dumpster, referenceds>>
           \/ /\ filted[t] = "unknown" /\ seen[a]
              /\ migrated' = FALSE
              /\ migratings' = migratings \cup {t}
              /\ referenceds' = [u \in DOMAIN referenceds \cup {t} |->
                                   IF u = t THEN 0 ELSE referenceds[u]]
              /\ filted' = [filted EXCEPT ![t] = "info"]
              /\ hints' = hints \ {t}
              /\ UNCHANGED <<dumpster, acquired>>
        /\ Goto(a, Back(a))
        /\ UNCHANGED <<setup, tables, tab, seen, goal, todo, refs, bound>>

----------------------------------------------------------------------------
(* Handles and their statements.                                            *)

\* releaseInfo for these tables; unreferenced infos no longer migrating go
\* to the dumpster.
BugReleased(ts) ==
    LET less == [t \in DOMAIN referenceds |->
                   referenceds[t] - (IF t \in ts THEN 1 ELSE 0)]
        over == {t \in ts : less[t] = 0}
    IN  /\ referenceds' = Without(less, over)
        /\ dumpster' = dumpster \cup over

Released(ts) ==
    LET less == [t \in DOMAIN referenceds |->
                   referenceds[t] - (IF t \in ts THEN 1 ELSE 0)]
        over == {t \in ts : less[t] = 0 /\ t \notin migratings}
    IN  /\ referenceds' = Without(less, over)
        /\ dumpster' = dumpster \cup over

\* getInfo and bindTable: m_referenceds of the binder has one entry per table,
\* which the new answer, possibly none, replaces.
GetInfo(h, t) ==
    \/ /\ t \in migratings
       /\ referenceds' = IF t \in refs[h] THEN referenceds ELSE Plus(referenceds, t, 1)
       /\ refs' = [refs EXCEPT ![h] = @ \cup {t}]
       /\ bound' = [bound EXCEPT ![h] = @ \cup {t}]
       /\ UNCHANGED dumpster
    \/ /\ t \notin migratings /\ filted[t] # "unknown"
       /\ Released({t} \cap refs[h])
       /\ refs' = [refs EXCEPT ![h] = @ \ {t}]
       /\ UNCHANGED bound
    \/ /\ filted[t] = "unknown"
       /\ UNCHANGED <<referenceds, dumpster, refs, bound>>

\* A statement on t is prepared.
Prepare(h, t) ==
    /\ pc[h] = "idle" /\ t \in targets
    /\ Rebinds \/ t \notin bound[h]
    /\ \/ /\ filted[t] = "unknown"
          /\ InitInfo(h, t, "use")
          /\ UNCHANGED <<referenceds, dumpster, refs, bound>>
       \/ /\ filted[t] # "unknown"
          /\ GetInfo(h, t)
          /\ UNCHANGED <<pc, tab, goal>>
    /\ UNCHANGED <<setup, filted, migratings, hints, acquired, migrated, tables, seen, todo>>

\* The second getInfo of getOrInitInfo.
Get(h) ==
    /\ pc[h] = "get"
    /\ GetInfo(h, tab[h])
    /\ Goto(h, "idle")
    /\ UNCHANGED <<filted, migratings, hints, acquired, migrated>>
    /\ UNCHANGED <<setup, tables, tab, seen, goal, todo>>

\* A CREATE TABLE is prepared: hintThatTableWillBeCreated.
PrepareCreate(h, t) ==
    /\ Changes /\ pc[h] = "idle" /\ t \in setup.tables \ targets
    /\ InitInfo(h, t, "create")
    /\ UNCHANGED <<setup, infos, tables, seen, todo, refs, bound>>

\* It is stepped, or finalized without.
ExecuteCreate(h) ==
    /\ pc[h] = "execute"
    /\ targets' \in {targets, targets \cup {tab[h]}}
    /\ Goto(h, "idle")
    /\ UNCHANGED <<setup, infos, rows, sources, tab, seen, goal, todo, refs, bound>>

\* DROP TABLE by a statement bound to the info, or to the target alone.
DropTable(h, t) ==
    /\ Changes /\ pc[h] = "idle" /\ t \in targets
    /\ \/ t \in bound[h] /\ rows' = [rows EXCEPT ![t] = 0]
       \/ t \notin migratings /\ filted[t] # "unknown" /\ UNCHANGED rows
    /\ targets' = targets \ {t}
    /\ UNCHANGED <<setup, infos, sources, pc, tab, seen, goal, todo, refs, bound>>

\* finalizeStatements: stopReferenced.
FinalizeStatements(h) ==
    /\ pc[h] = "idle" /\ bound[h] \cup refs[h] # {}
    /\ Released(refs[h])
    /\ refs' = [refs EXCEPT ![h] = {}]
    /\ bound' = [bound EXCEPT ![h] = {}]
    /\ UNCHANGED <<filted, migratings, hints, acquired, migrated>>
    /\ UNCHANGED <<setup, tables, pc, tab, seen, goal, todo>>

----------------------------------------------------------------------------
(* The stepper: dumpster first, then rows, then new tables.                 *)

others == <<seen, goal, refs, bound>>

TryDropUnreferencedTable(s) ==
    /\ pc[s] = "idle"
    /\ \/ dumpster = {} /\ Goto(s, "rows") /\ UNCHANGED tab
       \/ /\ Goto(s, "drop")
          /\ \E t \in dumpster : tab' = [tab EXCEPT ![s] = t]
    /\ UNCHANGED <<setup, infos, tables, todo, others>>

BugDropSourceTable(s) ==
    /\ pc[s] = "drop"
    /\ Goto(s, "idle")
    /\ UNCHANGED <<setup, infos, rows, sources, targets, tab, todo, others>>

\* A table with content is kept, and done with all the same; or an error, which a
\* source that another stepper has dropped in the meantime certainly is.
DropSourceTable(s) ==
    /\ pc[s] = "drop"
    /\ \/ /\ tab[s] \in sources
          /\ sources' = IF rows[tab[s]] = 0 THEN sources \ {tab[s]} ELSE sources
          /\ Goto(s, "dropped")
       \/ Goto(s, "idle") /\ UNCHANGED sources
    /\ UNCHANGED <<setup, infos, rows, targets, tab, todo, others>>

MarkAsDropped(s) ==
    /\ pc[s] = "dropped"
    /\ dumpster' = dumpster \ {tab[s]}
    /\ Goto(s, "idle")
    /\ UNCHANGED <<filted, migratings, hints, referenceds, acquired, migrated>>
    /\ UNCHANGED <<setup, tables, tab, todo, others>>

TryMigrateRows(s) ==
    /\ pc[s] = "rows"
    /\ \/ migratings = {} /\ Goto(s, "tables") /\ UNCHANGED tab
       \/ /\ Goto(s, "exists")
          /\ \E t \in migratings : tab' = [tab EXCEPT ![s] = t]
    /\ UNCHANGED <<setup, infos, tables, todo, others>>

TableExists(s) ==
    /\ pc[s] = "exists"
    /\ Goto(s, IF tab[s] \in targets THEN "move" ELSE "moved")
    /\ UNCHANGED <<setup, infos, tables, tab, todo, others>>

\* A transaction of migrateRows: some rows, and the end if there are no more;
\* or an error, which a table dropped in the meantime certainly is.
MigrateRows(s) ==
    LET t == tab[s]
    IN  /\ pc[s] = "move"
        /\ \/ /\ t \in targets \cap sources
              /\ \E n \in 0..rows[t] :
                    /\ n > 0 \/ rows[t] = 0
                    /\ rows' = [rows EXCEPT ![t] = @ - n]
                    /\ \/ n = rows[t] /\ Goto(s, "moved")
                       \/ n > 0 /\ Goto(s, "idle")
           \/ Goto(s, "idle") /\ UNCHANGED rows
        /\ UNCHANGED <<setup, infos, sources, targets, tab, todo, others>>

BugMarkAsMigrated(s) ==
    LET t == tab[s]
    IN  /\ pc[s] = "moved"
        /\ migratings' = migratings \ {t}
        /\ dumpster' = dumpster \cup {t}
        /\ Goto(s, "idle")
        /\ UNCHANGED <<setup, filted, hints, referenceds, acquired, migrated, tables, tab, todo, others>>

\* An info that another stepper has marked is not in m_referenceds any more:
\* the count is then read behind the end of the map and may be anything.
MarkAsMigrated(s) ==
    LET t == tab[s]
    IN  /\ pc[s] = "moved"
        /\ migratings' = migratings \ {t}
        /\ \/ /\ t \in DOMAIN referenceds => referenceds[t] = 0
              /\ referenceds' = Without(referenceds, {t})
              /\ dumpster' = dumpster \cup {t}
           \/ /\ t \in DOMAIN referenceds => referenceds[t] # 0
              /\ UNCHANGED <<referenceds, dumpster>>
        /\ Goto(s, "idle")
        /\ UNCHANGED <<setup, filted, hints, acquired, migrated, tables, tab, todo, others>>

TryAcquireTables(s) ==
    /\ pc[s] = "tables"
    /\ \/ acquired /\ Goto(s, "check") /\ UNCHANGED todo
       \/ /\ ~acquired /\ Goto(s, "acquire")
          /\ todo' = [todo EXCEPT ![s] = targets \cup hints]
    /\ UNCHANGED <<setup, infos, tables, tab, others>>

AcquireTable(s) ==
    /\ pc[s] = "acquire"
    /\ \E t \in todo[s] :
          InitInfo(s, t, "acquire") /\ todo' = [todo EXCEPT ![s] = @ \ {t}]
    /\ UNCHANGED <<setup, infos, tables, seen, refs, bound>>

\* All are initialized: step is called again.
AcquiredTables(s) ==
    /\ pc[s] = "acquire" /\ todo[s] = {}
    /\ acquired' = TRUE
    /\ Goto(s, "idle")
    /\ UNCHANGED <<filted, migratings, dumpster, hints, referenceds, migrated>>
    /\ UNCHANGED <<setup, tables, tab, todo, others>>

\* The end of step: looked at under the shared lock, decided under the other.
CheckMigrated(s) ==
    /\ pc[s] = "check"
    /\ Goto(s, IF migratings \cup dumpster \cup DOMAIN referenceds = {}
               THEN "done" ELSE "idle")
    /\ UNCHANGED <<setup, infos, tables, tab, todo, others>>

DidMigrate(s) ==
    /\ pc[s] = "done"
    /\ migrated' = TRUE
    /\ Goto(s, "idle")
    /\ UNCHANGED <<filted, migratings, dumpster, hints, referenceds, acquired>>
    /\ UNCHANGED <<setup, tables, tab, todo, others>>

----------------------------------------------------------------------------
ATable == CHOOSE t \in Tables : TRUE

Init ==
    /\ setup \in Setups
    /\ filted = [t \in Tables |-> "unknown"]
    /\ migratings = {} /\ dumpster = {} /\ hints = {}
    /\ referenceds = <<>>
    /\ acquired = FALSE /\ migrated = FALSE
    /\ rows \in [Tables -> 0..MaxRows]
    /\ \A t \in Tables \ setup.tables : rows[t] = 0
    /\ sources = setup.tables /\ targets = setup.existing
    /\ pc = [a \in Actors |-> "idle"]
    /\ tab = [a \in Actors |-> ATable]
    /\ seen = [a \in Actors |-> FALSE]
    /\ goal = [a \in Actors |-> "use"]
    /\ todo = [s \in Steppers |-> {}]
    /\ refs = [h \in Handles |-> {}]
    /\ bound = [h \in Handles |-> {}]

InitStep(a) ==
    LookSource(a) \/ MarkAsNoNeedToMigrate(a) \/ LookTarget(a) \/ MarkInfo(a)

HandleStep(h) ==
    /\ h \in setup.actors
    /\ \/ InitStep(h)
       \/ \E t \in Tables : Prepare(h, t) \/ PrepareCreate(h, t) \/ DropTable(h, t)
       \/ Get(h) \/ ExecuteCreate(h) \/ FinalizeStatements(h)

StepperStep(s) ==
    /\ s \in setup.actors
    /\ \/ InitStep(s)
       \/ TryDropUnreferencedTable(s) \/ DropSourceTable(s) \/ MarkAsDropped(s)
       \/ TryMigrateRows(s) \/ TableExists(s) \/ MigrateRows(s) \/ MarkAsMigrated(s)
       \/ TryAcquireTables(s) \/ AcquireTable(s) \/ AcquiredTables(s)
       \/ CheckMigrated(s) \/ DidMigrate(s)

Next == (\E h \in Handles : HandleStep(h)) \/ (\E s \in Steppers : StepperStep(s))

Spec == Init /\ [][Next]_vars

Succeeds(s) == DropSourceTable(s) /\ pc'[s] = "dropped"

Advances(s) == MigrateRows(s) /\ (pc'[s] = "moved" \/ rows' # rows)

\* The operation queue repeats steps, and not all of them fail; handles go on
\* and finalize their statements.
Fairness ==
    /\ \A s \in Steppers : WF_vars(StepperStep(s)) /\ SF_vars(Succeeds(s)) /\ SF_vars(Advances(s))
    /\ \A h \in Handles :
          /\ WF_vars(InitStep(h) \/ Get(h) \/ ExecuteCreate(h))
          /\ SF_vars(FinalizeStatements(h))

FairSpec == Spec /\ Fairness

----------------------------------------------------------------------------
(* Properties.                                                              *)

Places == {"idle", "source", "none", "target", "mark", "get", "execute", "rows",
           "drop", "dropped", "exists", "move", "moved", "tables", "acquire",
           "check", "done"}

\* Types of the state.
TypeOK ==
    /\ filted \in [Tables -> {"unknown", "none", "info"}]
    /\ migratings \subseteq Tables /\ dumpster \subseteq Tables /\ hints \subseteq Tables
    /\ DOMAIN referenceds \subseteq Tables
    /\ referenceds \in [DOMAIN referenceds -> 0..Cardinality(Handles)]
    /\ acquired \in BOOLEAN /\ migrated \in BOOLEAN
    /\ rows \in [Tables -> 0..MaxRows]
    /\ sources \subseteq Tables /\ targets \subseteq Tables
    /\ pc \in [Actors -> Places] /\ tab \in [Actors -> Tables]
    /\ seen \in [Actors -> BOOLEAN] /\ goal \in [Actors -> {"use", "create", "acquire"}]
    /\ todo \in [Steppers -> SUBSET Tables]
    /\ refs \in [Handles -> SUBSET Tables] /\ bound \in [Handles -> SUBSET Tables]

\* The life of an info as Migration.hpp draws it.  While it migrates it can be
\* referenced, it is in the dumpster only after that, and an info nobody holds
\* any more is not forgotten between the two, since the count of m_referenceds
\* is the number of handles that hold it.  The migration of a table ends only
\* when no row is left behind.
LifeOfInfo ==
    /\ migratings \subseteq DOMAIN referenceds
    /\ dumpster \cap DOMAIN referenceds = {}
    /\ \A t \in DOMAIN referenceds :
          /\ referenceds[t] = Cardinality({h \in Handles : t \in refs[h]})
          /\ t \notin migratings => referenceds[t] > 0
    /\ \A h \in Handles : refs[h] \subseteq DOMAIN referenceds
    /\ \A t \in DOMAIN referenceds \cup dumpster : filted[t] = "info"
    /\ \A t \in hints : filted[t] = "unknown"
    /\ \A t \in Tables : filted[t] = "info" /\ t \notin migratings => rows[t] = 0

\* An info that is migrated never migrates again, whoever initializes the table
\* at the same time; one that left m_referenceds never comes back.
NeverAgain ==
    [][\A t \in Tables : filted[t] = "info" =>
         /\ t \notin migratings => t \notin migratings'
         /\ t \notin DOMAIN referenceds => t \notin DOMAIN referenceds']_vars

\* The source table of a statement that was prepared with an info is there
\* until the statement is finalized, if the handle did not bind the table again.
BoundSourceKept == Rebinds \/ \A h \in Handles : bound[h] \subseteq sources

\* Every source table is dropped in the end, and the migration then reports it,
\* if no table comes and goes.
EverythingMigrates == ~Changes => <>(sources = {}) /\ <>[]migrated
=============================================================================
