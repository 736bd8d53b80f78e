------------------------------ MODULE Factory ------------------------------
(* The files of a database while it is vacuumed, deposited or retrieved.     *)
(* Each operation runs with the database drained, one file at a time; the    *)
(* process may be killed between any two steps, and the next initialize has  *)
(* to find the data.  Files are moved by hard links, or by renaming on       *)
(* Android and OHOS.                                                         *)
(* A database has three kinds of files: "main", "wal" (which stands for the  *)
(* journal too and persists when the database is closed) and "material".     *)
(* removeDirectoryIfEmpty only takes away a restore directory nobody reads,  *)
(* and the failure to remove a file is left out.                             *)
EXTENDS Integers, FiniteSets

CONSTANTS
    Data,           \* what the application writes
    Workshops,      \* bound: directories for deposited databases
    FactorySetups   \* uses of a database and kinds of file systems

Directories == {"base", "vacuum", "vacuum/temp", "renew", "renew/temp", "restore"}

ASSUME FactoryConstants ==
    /\ IsFiniteSet(Workshops) /\ Workshops \cap Directories = {}
    /\ FactorySetups \subseteq
           [data : SUBSET Data, workshops : SUBSET Workshops,
            jobs : SUBSET {"vacuum", "deposit", "retrieve"},
            renames : BOOLEAN, failing : SUBSET {"stat", "link"}]

VARIABLES
    setup,         \* one of FactorySetups; it never changes
    fs,            \* files by directory and kind: inode and data
    job,           \* the operation that runs, "open" for initialize alone
    at,            \* the line it is at
    moving,        \* the loop of moveItems, when it is at one
    workshop,      \* the directory of the depositor
    initialized,   \* m_initialized
    written        \* data the application has written

rest == <<setup, job, workshop, initialized, written>>

factoryVars == <<fs, at, moving, rest>>

Jobs == setup.jobs         \* the operations called
Renames == setup.renames   \* files are renamed instead of linked
Failing == setup.failing   \* the calls that may fail

\* Kinds of files, by their position in associatedPathsForDatabase.
Paths == [main |-> 1, wal |-> 2, material |-> 3]

Places == Directories \cup Workshops

Has(p, k) == k \in DOMAIN fs[p]

Inodes == UNION {{fs[p][k].id : k \in DOMAIN fs[p]} : p \in Places}

\* Inode numbers that are free.
NewInode == CHOOSE i \in 1..(Cardinality(Inodes) + 1) : i \notin Inodes

SecondInode ==
    CHOOSE i \in 1..(Cardinality(Inodes) + 2) : i \notin Inodes \cup {NewInode}

Put(p, k, f) == [fs EXCEPT ![p] = [j \in DOMAIN fs[p] \cup {k} |-> IF j = k THEN f ELSE fs[p][j]]]

Without(p, k) == [fs EXCEPT ![p] = [j \in DOMAIN fs[p] \ {k} |-> fs[p][j]]]

Renamed(from, to, k) ==
    [Put(to, k, fs[from][k]) EXCEPT ![from] = [j \in DOMAIN fs[from] \ {k} |-> fs[from][j]]]

\* What SQLite or a repair reads of a database: a log is nothing without its
\* database.
Readable(p) ==
    IF Has(p, "main")
    THEN UNION {fs[p][k].data : k \in DOMAIN fs[p] \ {"material"}} ELSE {}

\* getUniqueWorkshopDiectory: a directory that no deposit has used.
IsUnique(w) == w \in setup.workshops /\ DOMAIN fs[w] = {}

Deposited == UNION {Readable(w) : w \in Workshops}

\* The database is open, and the application uses it.
opened == initialized /\ at = "idle"

----------------------------------------------------------------------------
(* FileManager.  A routine runs while the operation is at the line "here",  *)
(* and goes on to the line "next".                                          *)

Go(next) == at' = next /\ UNCHANGED <<fs, moving, rest>>

\* The current database and the restored one are moved and removed from the
\* first file to the last, the others from the last to the first.
Precedes(p, k, j) ==
    IF p \in {"base", "restore"} THEN Paths[k] <= Paths[j] ELSE Paths[j] <= Paths[k]

First(p, k, kinds) == k \in kinds /\ \A j \in kinds : Precedes(p, k, j)

\* removeItems.
RemoveItems(here, p, next) ==
    /\ at = here
    /\ \/ \E k \in DOMAIN fs[p] :
             First(p, k, DOMAIN fs[p]) /\ fs' = Without(p, k) /\ UNCHANGED at
       \/ DOMAIN fs[p] = {} /\ at' = next /\ UNCHANGED fs
    /\ UNCHANGED <<moving, rest>>

Inside(p) ==
    {p} \cup (IF p = "vacuum" THEN {"vacuum/temp"} ELSE IF p = "renew" THEN {"renew/temp"} ELSE {})

\* removeDirectory, in the order in which files are enumerated.
RemoveDirectory(here, p, next) ==
    /\ at = here
    /\ \/ \E q \in Inside(p) : \E k \in DOMAIN fs[q] : fs' = Without(q, k) /\ UNCHANGED at
       \/ (\A q \in Inside(p) : DOMAIN fs[q] = {}) /\ at' = next /\ UNCHANGED fs
    /\ UNCHANGED <<moving, rest>>

\* recovers in moveItems: the items that have been linked.  No item is at the
\* target when a move begins.
Linked(from, to) ==
    {k \in DOMAIN fs[to] :
        IF Renames THEN ~Has(from, k) ELSE Has(from, k) /\ fs[from][k].id = fs[to][k].id}

Unlinked(from, to) == DOMAIN fs[from] \ Linked(from, to)

\* The first loop of moveItems, item by item; what is in the way goes first.
LinkItem(here, from, to) ==
    /\ at = here /\ moving = "link"
    /\ \/ \E k \in Unlinked(from, to) :
             /\ First(from, k, Unlinked(from, to))
             /\ fs' = IF Has(to, k) THEN Without(to, k)
                      ELSE IF Renames THEN Renamed(from, to, k)
                      ELSE Put(to, k, fs[from][k])
             /\ UNCHANGED moving
       \/ Unlinked(from, to) = {} /\ moving' = "unlink" /\ UNCHANGED fs
    /\ UNCHANGED <<at, rest>>

\* A link fails.
LinkFails(here, from, to) ==
    /\ "link" \in Failing
    /\ at = here /\ moving = "link" /\ Unlinked(from, to) # {}
    /\ moving' = "recover"
    /\ UNCHANGED <<fs, at, rest>>

\* The loop is left at an item whose attributes cannot be read, as if all
\* items had been linked.
StatFails(here) ==
    /\ "stat" \in Failing
    /\ at = here /\ moving = "link"
    /\ moving' = "unlink"
    /\ UNCHANGED <<fs, at, rest>>

\* The second loop removes the originals.
UnlinkItem(here, from, next) ==
    /\ at = here /\ moving = "unlink"
    /\ \/ \E k \in DOMAIN fs[from] :
             /\ First(from, k, DOMAIN fs[from])
             /\ fs' = Without(from, k) /\ UNCHANGED <<at, moving>>
       \/ DOMAIN fs[from] = {} /\ at' = next /\ moving' = "link" /\ UNCHANGED fs
    /\ UNCHANGED rest

\* After a failure, what was linked is removed instead.
RecoverItem(here, from, to, failed) ==
    /\ at = here /\ moving = "recover"
    /\ \/ \E k \in Linked(from, to) :
             /\ First(from, k, Linked(from, to))
             /\ fs' = Without(to, k) /\ UNCHANGED <<at, moving>>
       \/ Linked(from, to) = {} /\ at' = failed /\ moving' = "link" /\ UNCHANGED fs
    /\ UNCHANGED rest

BugMoveItems(here, from, to, next, failed) ==
    \/ LinkItem(here, from, to) \/ UnlinkItem(here, from, next)
    \/ /\ at = here
       /\ \E k \in Linked(from, to) \cap DOMAIN fs[from] : fs' = Without(from, k)
       /\ UNCHANGED <<at, moving, rest>>

\* moveItems.
MoveItems(here, from, to, next, failed) ==
    \/ LinkItem(here, from, to) \/ LinkFails(here, from, to) \/ StatFails(here)
    \/ UnlinkItem(here, from, next) \/ RecoverItem(here, from, to, failed)

----------------------------------------------------------------------------
(* The operations, line by line.                                            *)

\* A database is closed and drained, and an operation begins.
Start(j) ==
    /\ at = "idle"
    /\ j = "open" => ~initialized
    /\ j \in {"deposit", "retrieve"} => \E w \in Workshops : IsUnique(w)
    /\ at' = "vacuumWork" /\ job' = j /\ initialized' = FALSE
    /\ UNCHANGED <<setup, fs, moving, workshop, written>>

\* FactoryVacuum::work, called by initialize and at the end of a vacuum.
VacuumWork ==
    \/ /\ at = "vacuumWork"
       /\ Go(IF Has("vacuum", "main") /\ ~Has("base", "main") THEN "vacuumClear" ELSE "vacuumExit")
    \/ RemoveItems("vacuumClear", "base", "vacuumMove")
    \/ MoveItems("vacuumMove", "vacuum", "base", "vacuumExit", "vacuumGiveUp")

BugVacuumExit ==
    \/ at = "vacuumExit" /\ Go(IF initialized THEN "finish" ELSE "renewerWork")
    \/ at = "vacuumGiveUp" /\ Go("finish")

\* FactoryVacuum::exit.
VacuumExit ==
    \/ RemoveDirectory("vacuumExit", "vacuum", IF initialized THEN "finish" ELSE "renewerWork")
    \/ RemoveDirectory("vacuumGiveUp", "vacuum", "finish")

AfterRenewer == IF initialized THEN "finish" ELSE "createFile"

\* FactoryRenewer::work, called by initialize and at the end of a deposit.
RenewerWork ==
    \/ /\ at = "renewerWork"
       /\ Go(IF ~Has("renew", "main") THEN AfterRenewer
             ELSE IF Has("base", "main") THEN "renewExit" ELSE "renewClear")
    \/ RemoveItems("renewClear", "base", "renewMove")
    \/ MoveItems("renewMove", "renew", "base", "renewExit", "finish")
    \/ RemoveDirectory("renewExit", "renew", AfterRenewer)

\* Where an operation goes on after initialize.
FirstLine ==
    [open |-> "finish", vacuum |-> "vacuumPrepare", deposit |-> "renewPrepare",
     retrieve |-> "restorePrepare"]

\* The end of initialize.  A database is created for the path: SQLite drops a
\* log beside an empty one.
CreateFile ==
    /\ at = "createFile"
    /\ fs' = IF Has("base", "main") THEN fs
             ELSE [fs EXCEPT !["base"] =
                     [k \in (DOMAIN @ \ {"wal"}) \cup {"main"} |->
                        IF k = "main" THEN [id |-> NewInode, data |-> {}] ELSE @[k]]]
    /\ initialized' = TRUE
    /\ at' = FirstLine[job]
    /\ UNCHANGED <<setup, job, moving, workshop, written>>

\* A database made at p, with a material if it is backed up.
Make(here, p, data, kinds, next) ==
    /\ at = here /\ at' = next
    /\ fs' = [fs EXCEPT ![p] = [k \in kinds |->
                IF k = "main" THEN [id |-> NewInode, data |-> data]
                ELSE [id |-> SecondInode, data |-> {}]]]
    /\ UNCHANGED <<moving, rest>>

\* An operation gives up before it touches the current database.
GiveUp(here, next) == at = here /\ Go(next)

\* FactoryVacuum::prepare.
Vacuum ==
    \/ RemoveDirectory("vacuumPrepare", "vacuum/temp", "executeVacuum")
    \/ Make("executeVacuum", "vacuum/temp", Readable("base"), {"main"}, "vacuumForget")
    \/ GiveUp("executeVacuum", "vacuumGiveUp")
    \/ RemoveItems("vacuumForget", "vacuum", "vacuumKeep")
    \/ MoveItems("vacuumKeep", "vacuum/temp", "vacuum", "vacuumKept", "vacuumGiveUp")
    \/ RemoveDirectory("vacuumKept", "vacuum/temp", "vacuumRemove")
    \/ RemoveItems("vacuumRemove", "base", "vacuumWork")

\* The files assembled from the tables of the current and of the deposited
\* databases, without their data: there may be no table, or no backup.
Assembled == {{}, {"main"}, {"main", "material"}}

\* FactoryRenewer::prepare.
Deposit ==
    \/ RemoveDirectory("renewPrepare", "renew/temp", "assemble")
    \/ \E kinds \in Assembled :
          Make("assemble", "renew/temp", {}, kinds, "renewForget")
    \/ GiveUp("assemble", "finish")
    \/ RemoveItems("renewForget", "renew", "renewKeep")
    \/ MoveItems("renewKeep", "renew/temp", "renew", "renewKept", "finish")
    \/ RemoveDirectory("renewKept", "renew/temp", "depositorWork")

\* FactoryDepositor::work, called by deposit and retrieve.
DepositorWork ==
    \/ /\ at = "depositorWork" /\ at' = "depositMove"
       /\ \E w \in Workshops : IsUnique(w) /\ workshop' = w
       /\ UNCHANGED <<setup, fs, job, moving, initialized, written>>
    \/ /\ workshop \in Workshops
       /\ MoveItems("depositMove", "base", workshop,
                    IF job = "deposit" THEN "renewerWork" ELSE "restoreMove", "finish")

\* The factory directory is taken away, or not.
RemoveDeposited ==
    /\ at = "removeDeposited"
    /\ \/ \E p \in Places \ {"base"} : \E k \in DOMAIN fs[p] :
             fs' = Without(p, k) /\ UNCHANGED at
       \/ at' = "finish" /\ UNCHANGED fs
    /\ UNCHANGED <<moving, rest>>

\* FactoryRetriever::work; deposited databases go if errors are ignorable.
Retrieve ==
    \/ RemoveDirectory("restorePrepare", "restore", "restore")
    \/ /\ Readable("base") \cup Deposited # {}
       /\ Make("restore", "restore", Readable("base") \cup Deposited, {"main", "material"},
               "depositorWork")
    \/ GiveUp("restore", "finish")
    \/ MoveItems("restoreMove", "restore", "base", "removeDeposited", "finish")
    \/ RemoveDeposited

\* The operation returns; it leaves the database closed unless it was opened.
Finish ==
    /\ at = "finish" /\ at' = "idle"
    /\ initialized' = (initialized /\ job = "open")
    /\ job' = "none" /\ workshop' = "none"
    /\ UNCHANGED <<setup, fs, moving, written>>

\* The process is killed, and the application starts again.
Crash ==
    /\ at # "idle" \/ initialized
    /\ at' = "idle" /\ initialized' = FALSE
    /\ job' = "none" /\ workshop' = "none" /\ moving' = "link"
    /\ UNCHANGED <<setup, fs, written>>

\* All links to a file show its new content.
Change(id, data) ==
    [p \in Places |-> [k \in DOMAIN fs[p] |->
        IF fs[p][k].id = id THEN [id |-> id, data |-> data] ELSE fs[p][k]]]

\* The application writes to the log, and a checkpoint copies the log.
Write(d) ==
    /\ opened /\ d \notin written
    /\ written' = written \cup {d}
    /\ fs' = IF Has("base", "wal")
             THEN Change(fs["base"]["wal"].id, fs["base"]["wal"].data \cup {d})
             ELSE Put("base", "wal", [id |-> NewInode, data |-> {d}])
    /\ UNCHANGED <<setup, job, at, moving, workshop, initialized>>

Checkpoint ==
    /\ opened /\ Has("base", "wal")
    /\ LET main == fs["base"]["main"].id
           log  == fs["base"]["wal"].id
       IN  fs' = [p \in Places |-> [k \in DOMAIN fs[p] |->
                    IF fs[p][k].id = main THEN [id |-> main, data |-> Readable("base")]
                    ELSE IF fs[p][k].id = log THEN [id |-> log, data |-> {}]
                    ELSE fs[p][k]]]
    /\ UNCHANGED <<at, moving, rest>>

FactoryInit ==
    /\ setup \in FactorySetups
    /\ fs = [p \in Places |-> [k \in {} |-> 0]]
    /\ job = "none" /\ at = "idle" /\ moving = "link" /\ workshop = "none"
    /\ initialized = FALSE /\ written = {}

FactoryNext ==
    \/ \E j \in Jobs \cup {"open"} : Start(j)
    \/ VacuumWork \/ VacuumExit \/ RenewerWork \/ CreateFile
    \/ Vacuum \/ Deposit \/ DepositorWork \/ Retrieve
    \/ Finish \/ Crash \/ Checkpoint
    \/ \E d \in setup.data : Write(d)

FactorySpec == FactoryInit /\ [][FactoryNext]_factoryVars

----------------------------------------------------------------------------
(* Properties.                                                              *)

File == [id : Nat, data : SUBSET Data]

\* Types of the state.
FactoryTypeOK ==
    /\ setup \in FactorySetups
    /\ DOMAIN fs = Places
    /\ \A p \in Places : /\ DOMAIN fs[p] \subseteq DOMAIN Paths
                         /\ \A k \in DOMAIN fs[p] : fs[p][k] \in File
    /\ job \in Jobs \cup {"open", "none"}
    /\ moving \in {"link", "unlink", "recover"}
    /\ initialized \in BOOLEAN /\ written \subseteq Data

\* When the database is open, all data is in it or in a deposited database,
\* from where retrieve restores it.
AllDataKept == opened => written \subseteq Readable("base") \cup Deposited

\* File systems and builds for which the code promises to lose nothing: left
\* out are files whose attributes cannot be read, links that fail in a vacuum,
\* and deposits by renaming.
Promised ==
    /\ "stat" \notin Failing
    /\ "vacuum" \in Jobs => "link" \notin Failing
    /\ Renames => Jobs = {"vacuum"}

\* Whatever was killed before, and wherever a link failed in a deposit or a
\* retrieval, no data is lost.
DataNeverLost == Promised => AllDataKept

\* No operation that is half done is left behind when the database is open:
\* the next one cannot put an older copy in its place.
NothingPending == opened => ~Has("renew", "main") /\ ~Has("vacuum", "main")
=============================================================================
