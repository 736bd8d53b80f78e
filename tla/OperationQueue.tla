--------------------------- MODULE OperationQueue ---------------------------
(* The operation queue of one database: automatic migration (compression has *)
(* the same code), which handles start and stop by their configs, and the    *)
(* way from an error of corruption over the check of integrity to the        *)
(* callback of the application.  The timed queue below it keeps one entry    *)
(* per operation, whose information the last caller sets.                    *)
EXTENDS Integers, FiniteSets

CONSTANTS
    Openers,      \* threads that open and close handles
    Files,        \* the files at the path, one after the other
    Tolerable,    \* OperationQueueTolerableFailuresForMigration
    OperationSetups  \* which of them there are, and what happens to them

\* The threads that enable and close are none of the openers.
ASSUME OperationConstants ==
    /\ IsFiniteSet(Openers) /\ {"main", "closer"} \cap Openers = {} /\ "none" \notin Files
    /\ \A s \in OperationSetups :
          s.openers \subseteq Openers /\ s.files \subseteq Files /\ s.calm \in BOOLEAN

VARIABLES
    setup,        \* one of OperationSetups; it never changes
    queue,        \* m_timedQueue: information of the operations queued
    running,      \* the operation in onTimed
    config,       \* AutoMigrateConfig is a config of the database
    registered,   \* registeredForMigration
    registers,    \* handles the config was invoked for
    threads,      \* openers, the thread that enables, and the one that closes
    finished,     \* everything is migrated
    gaveUp,       \* stopped due to too many errors
    file, past,   \* the current file or NoFile, and the files removed
    broken,       \* the corrupted files
    corrupteds,   \* m_corrupteds
    callback,     \* m_corruptionNotifications has the path
    notified,     \* how often the callback was called for a file
    threw         \* an empty callback was called

migration == <<config, registered, registers, threads, finished, gaveUp>>
corruption == <<file, past, broken, corrupteds, callback, notified, threw>>
operationVars == <<setup, queue, running, migration, corruption>>

Reuse == setup.reuse       \* the file system gives an inode number again
Toggles == setup.toggles   \* automatic migration is switched on and off
Heeded == setup.calm       \* the callback is set from the start and stays, and
                           \* the attributes of the file are readable

None == [op |-> "None", info |-> 0]

NoFile == "none"

\* FileManager::getFileIdentifier, a hash of the device and the inode.
Identifier(f) == IF Reuse THEN "inode" ELSE f

Put(q, op, info) == [o \in DOMAIN q \cup {op} |-> IF o = op THEN info ELSE q[o]]

Removed(q, op) == [o \in DOMAIN q \ {op} |-> q[o]]

----------------------------------------------------------------------------
(* Automatic migration.                                                     *)

BugAsyncMigrate(failures) ==
    /\ queue' = Put(queue, "Migrate", failures)
    /\ gaveUp' = FALSE

\* asyncMigrate, under the shared lock.
AsyncMigrate(failures) ==
    IF registered
    THEN queue' = Put(queue, "Migrate", failures) /\ gaveUp' = FALSE
    ELSE UNCHANGED <<queue, gaveUp>>

BugInvoke(t) ==
    /\ config /\ threads[t] = "closed" /\ threads["closer"] # "drain"
    /\ registers' = registers + 1
    /\ threads' = [threads EXCEPT ![t] = IF registers = 1 THEN "async" ELSE "open"]
    /\ UNCHANGED <<setup, queue, running, config, registered, finished, gaveUp, corruption>>

\* AutoMigrateConfig::invoke when a handle is configured: count, then queue.
Invoke(t) ==
    /\ config /\ threads[t] = "closed" /\ threads["closer"] # "drain"
    /\ registers' = registers + 1
    /\ threads' = [threads EXCEPT ![t] = IF registers = 0 THEN "async" ELSE "open"]
    /\ UNCHANGED <<setup, queue, running, config, registered, finished, gaveUp, corruption>>

InvokeAsync(t) ==
    /\ threads[t] = "async"
    /\ AsyncMigrate(0)
    /\ threads' = [threads EXCEPT ![t] = "open"]
    /\ UNCHANGED <<setup, running, config, registered, registers, finished, corruption>>

\* AutoMigrateConfig::uninvoke when the handle is closed.
Uninvoke(t) ==
    /\ threads[t] = "open"
    /\ registers' = registers - 1
    /\ threads' = [threads EXCEPT ![t] = IF registers = 1 THEN "stop" ELSE "closed"]
    /\ UNCHANGED <<setup, queue, running, config, registered, finished, gaveUp, corruption>>

StopMigrate(t) ==
    /\ threads[t] = "stop"
    /\ queue' = Removed(queue, "Migrate")
    /\ threads' = [threads EXCEPT ![t] = "closed"]
    /\ UNCHANGED <<setup, running, config, registered, registers, finished, gaveUp, corruption>>

\* CommonCore::enableAutoMigrate.
Enable ==
    /\ Toggles /\ threads["main"] = "closed" /\ ~config
    /\ config' = TRUE /\ threads' = [threads EXCEPT !["main"] = "register"]
    /\ UNCHANGED <<setup, queue, running, registered, registers, finished, gaveUp, corruption>>

RegisterAsRequired ==
    /\ threads["main"] = "register"
    /\ registered' = TRUE /\ threads' = [threads EXCEPT !["main"] = "async"]
    /\ UNCHANGED <<setup, queue, running, config, registers, finished, gaveUp, corruption>>

Disable ==
    /\ Toggles /\ threads["main"] = "closed" /\ config
    /\ config' = FALSE /\ threads' = [threads EXCEPT !["main"] = "unregister"]
    /\ UNCHANGED <<setup, queue, running, registered, registers, finished, gaveUp, corruption>>

RegisterAsNotRequired ==
    /\ threads["main"] = "unregister"
    /\ registered' = FALSE /\ queue' = Removed(queue, "Migrate")
    /\ threads' = [threads EXCEPT !["main"] = "closed"]
    /\ UNCHANGED <<setup, running, config, registers, finished, gaveUp, corruption>>

EnableAsync ==
    /\ threads["main"] = "async"
    /\ AsyncMigrate(0)
    /\ threads' = [threads EXCEPT !["main"] = "closed"]
    /\ UNCHANGED <<setup, running, config, registered, registers, finished, corruption>>

\* doMigrate: done, to be continued, or failed once more.
DoMigrate ==
    LET n == running.info
    IN  /\ running.op = "Migrate"
        /\ running' = None
        /\ \/ finished' = TRUE /\ UNCHANGED <<queue, gaveUp>>
           \/ AsyncMigrate(n) /\ UNCHANGED finished
           \/ n + 1 < Tolerable /\ AsyncMigrate(n + 1) /\ UNCHANGED finished
           \/ n + 1 >= Tolerable /\ gaveUp' = TRUE /\ UNCHANGED <<queue, finished>>
        /\ UNCHANGED <<setup, config, registered, registers, threads, corruption>>

\* InnerDatabase::close: stop the operations, then drain the handles.
StopAllDatabaseEvent ==
    /\ threads["closer"] = "closed"
    /\ queue' = Removed(Removed(queue, "Migrate"), "Integrity")
    /\ threads' = [threads EXCEPT !["closer"] = "stopped"]
    /\ UNCHANGED <<setup, running, config, registered, registers, finished, gaveUp, corruption>>

Drain ==
    /\ threads["closer"] = "stopped"
    /\ threads' = [threads EXCEPT !["closer"] = "drain"]
    /\ UNCHANGED <<setup, queue, running, config, registered, registers, finished, gaveUp, corruption>>

DidDrain ==
    /\ threads["closer"] = "drain" /\ \A t \in Openers : threads[t] = "closed"
    /\ threads' = [threads EXCEPT !["closer"] = "closed"]
    /\ UNCHANGED <<setup, queue, running, config, registered, registers, finished, gaveUp, corruption>>

----------------------------------------------------------------------------
(* Corruption.                                                              *)

\* asyncCheckIntegrity.
AsyncCheckIntegrity(id) ==
    id \notin corrupteds /\ queue' = Put(queue, "Integrity", 0)

\* handleError of an error outside the check.  The thread holds a handle, so
\* the file stays while its identifier is read.
HandleError ==
    /\ file # NoFile /\ AsyncCheckIntegrity(Identifier(file))
    /\ UNCHANGED <<setup, running, migration, corruption>>

\* asyncNotifyCorruption.
AsyncNotifyCorruption(id) == queue' = Put(queue, "Notify", id)

BugConfirmQuietly ==
    /\ corrupteds' = corrupteds \cup {Identifier(file)}
    /\ UNCHANGED queue

\* handleError of an error from the check.
Confirm ==
    LET id == Identifier(file)
    IN  /\ corrupteds' = corrupteds \cup {id}
        /\ IF id \notin corrupteds /\ callback
           THEN AsyncNotifyCorruption(id) ELSE UNCHANGED queue

\* InnerDatabase::checkIntegrity finds an error.
CheckIntegrity ==
    file \in broken /\ Confirm

\* doCheckIntegrity; finding none, being interrupted and failing are the same.
DoCheckIntegrity ==
    /\ running.op = "Integrity"
    /\ running' = None
    /\ CheckIntegrity \/ UNCHANGED <<queue, corrupteds>>
    /\ UNCHANGED <<setup, migration, file, past, broken, callback, notified, threw>>

\* Database::checkIfCorrupted, in a thread of the application.
CheckIfCorrupted ==
    /\ CheckIntegrity
    /\ UNCHANGED <<setup, running, migration, file, past, broken, callback, notified, threw>>

\* The wrapper of CommonCore: the file must still be the corrupted one.
CallsBack(id) == file # NoFile /\ Identifier(file) = id

\* doNotifyCorruption; the callback may repair, that is remove or replace the
\* file.  Without a callback the call of the empty function throws.
DoNotifyCorruption ==
    LET id == running.info
    IN  /\ running.op = "Notify"
        /\ running' = None
        /\ threw' = ~callback
        /\ \/ /\ callback /\ CallsBack(id)
              /\ notified' = [notified EXCEPT ![file] = @ + 1]
              /\ \/ file' = NoFile /\ past' = past \cup {file}
                 \/ UNCHANGED <<file, past>>
           \/ /\ ~callback \/ ~CallsBack(id) \/ ~Heeded
              /\ UNCHANGED <<notified, file, past>>
        /\ UNCHANGED <<setup, queue, migration, broken, corrupteds, callback>>

\* setNotificationWhenCorrupted.
SetCallback ==
    /\ ~Heeded /\ ~callback
    /\ callback' = TRUE
    /\ UNCHANGED <<setup, queue, running, migration, file, past, broken, corrupteds, notified, threw>>

UnsetCallback ==
    /\ ~Heeded /\ callback
    /\ callback' = FALSE
    /\ UNCHANGED <<setup, queue, running, migration, file, past, broken, corrupteds, notified, threw>>

\* removeFiles, and the creation of a file that was not there before.
ReplaceFile ==
    /\ file' \in IF file = NoFile THEN setup.files \ past ELSE {NoFile}
    /\ past' = past \cup ({file} \ {NoFile})
    /\ UNCHANGED <<setup, queue, running, migration, broken, corrupteds, callback, notified, threw>>

----------------------------------------------------------------------------
\* The timed queue hands over an expired operation.
Take(op) ==
    /\ ~threw /\ running = None /\ op \in DOMAIN queue
    /\ running' = [op |-> op, info |-> queue[op]]
    /\ queue' = Removed(queue, op)
    /\ UNCHANGED <<setup, migration, corruption>>

OperationInit ==
    /\ setup \in OperationSetups
    /\ queue = <<>> /\ running = None
    /\ config = TRUE /\ registered = TRUE /\ registers = 0
    /\ threads = [t \in Openers \cup {"main", "closer"} |-> "closed"]
    /\ finished = FALSE /\ gaveUp = FALSE
    /\ file \in setup.files /\ past = {} /\ broken \in SUBSET setup.files
    /\ corrupteds = {} /\ callback = Heeded
    /\ notified = [f \in Files |-> 0] /\ threw = FALSE

OperationNext ==
    \/ \E t \in setup.openers : Invoke(t) \/ InvokeAsync(t) \/ Uninvoke(t) \/ StopMigrate(t)
    \/ Enable \/ RegisterAsRequired \/ EnableAsync \/ Disable \/ RegisterAsNotRequired
    \/ StopAllDatabaseEvent \/ Drain \/ DidDrain \/ DoMigrate
    \/ HandleError \/ DoCheckIntegrity \/ CheckIfCorrupted \/ DoNotifyCorruption
    \/ SetCallback \/ UnsetCallback \/ ReplaceFile
    \/ \E op \in {"Migrate", "Integrity", "Notify"} : Take(op)

OperationSpec == OperationInit /\ [][OperationNext]_operationVars

\* Every operation queued is taken and comes to its end.
OperationFairSpec ==
    /\ OperationSpec
    /\ \A op \in {"Migrate", "Integrity", "Notify"} : SF_operationVars(Take(op))
    /\ WF_operationVars(DoMigrate \/ DoCheckIntegrity \/ DoNotifyCorruption)

----------------------------------------------------------------------------
(* Properties.                                                              *)

\* Types of the state.
OperationTypeOK ==
    /\ DOMAIN queue \subseteq {"Migrate", "Integrity", "Notify"}
    /\ running.op \in {"None", "Migrate", "Integrity", "Notify"}
    /\ {config, registered, finished, gaveUp, callback, threw} \subseteq BOOLEAN
    /\ registers \in 0..Cardinality(Openers)
    /\ threads \in [Openers \cup {"main", "closer"} ->
                 {"closed", "async", "open", "stop", "register", "unregister",
                  "stopped", "drain"}]
    /\ file \in Files \cup {NoFile} /\ past \subseteq Files /\ broken \subseteq Files
    /\ corrupteds \subseteq {Identifier(f) : f \in Files}
    /\ notified \in [Files -> Nat]

\* Once migration is no longer required, nothing queues it: neither a running
\* step that wants to continue nor a handle that opens at the same time.
NotRequiredNotQueued == ~registered => "Migrate" \notin DOMAIN queue

\* While the handle of the one thread that opens handles is open, migration is
\* stepped again and again: it is queued, running, or about to be queued, until
\* it is finished or has failed too often, or the database is being closed.
KeepsStepping ==
    /\ Cardinality(setup.openers) = 1
    /\ registered /\ registers > 0 /\ ~finished /\ ~gaveUp
    /\ threads["closer"] = "closed" /\ \A t \in DOMAIN threads : threads[t] # "async"
    => "Migrate" \in DOMAIN queue \/ running.op = "Migrate"

\* The callback is called at most once for a file, and only for a corrupted one, where
\* inode numbers are not used again (handleError, doNotifyCorruption).
NotifiedOnce ==
    ~Reuse => \A f \in Files : notified[f] <= 1 /\ (notified[f] = 1 => f \in broken)

\* Once the corruption of the file is confirmed, the application is notified,
\* unless the file is removed before, and it is notified once.
ConfirmedIsNotified ==
    /\ Reuse \/ \A f \in Files :
          (Heeded /\ file = f /\ Identifier(f) \in corrupteds) ~> (notified[f] = 1 \/ file # f)
    /\ []NotifiedOnce
=============================================================================
