# Verification of WCDB

WCDB is a database framework on top of SQLCipher/SQLite. Its logic is the C++
code in `src/common`, which the `cpp`, `objc`, `swift`, `java` and `bridge`
directories make available to each language. This directory specifies in TLA+
the parts of `src/common` in which state is shared between threads, survives a
crash, or is moved step by step. TLC model-checks the specifications on small
instances; TLAPS proves the safety properties of ten of them for every number of
threads, handles, tables and keys and every limit (section 4).

Source paths in this document are relative to `src/common/`.

## 1. The system and its parts

| Part | State | Operations | Interacts with |
|---|---|---|---|
| `SharedLock` (`base/Lock`) | counters of readers and writers, queue of pending writers, per-thread share count | lockShared, unlockShared, lock, unlock | every structure below |
| `HandleCounter` (`core/HandleCounter`) | handles in use, writers in use, list of waiting threads | tryIncrease, decrease | HandlePool |
| `HandlePool` (`core/HandlePool`) | handles by slot, free list by category, per-thread handle with a reference count, the concurrency lock | flowOut, flowBack, blockade, drain, purge | SharedLock, HandleCounter, InnerDatabase |
| `DatabasePool` (`core/DatabasePool`) | databases by path, reference counts | getOrCreate, get, flowBack, purge | InnerDatabase, OperationQueue |
| `InnerDatabase` | initialized flag, closing counter, configs, factory, migration, compression | getHandle, close, transactions, file operations, backup, deposit, retrieve, vacuum, steps of migration/compression/checkpoint | all of the core |
| `InnerHandle`/`AbstractHandle` | SQLite handle, transaction level, transaction error, suspend flags | open, close, begin, commit, rollback, suspend | SQLite |
| `BusyRetryConfig` | per file: pager and shm locks of each handle, waiting threads | will/did lock, unlock, busy | SQLite's lock hooks |
| `TimedQueue`, `OperationQueue` | timed list, records of errors, sets of operations per path | queue, remove, stop, the timer thread; migrate, compress, backup, checkpoint, purge, merge FTS, notify corruption | CommonCore, DatabasePool |
| `Migration` | infos, hints, reference counts, migrating/referenced/dumpster sets | bind, initInfo, markAs..., step, tryMigrateRows, tryDropUnreferencedTable | handles |
| `Compression` | table infos, type columns, compressing list, records, bindings of a prepared statement | bind, initInfo, check and repair of the type column, step, compress rows, rollback | handles, transactions |
| `MergeFTSIndexLogic` | modified and merging tables | trigger, process, error counting | handles, OperationQueue |
| `AutoBackupConfig`, `AutoCheckpointConfig` | checkpointed pages, incremental material; frames per path | checkpoint hooks, commit hooks | Factory, OperationQueue |
| `Factory` (`repair/factory`) | files of the database, its backups and the deposited ones | backup, deposit, retrieve, vacuum, renew, remove | FileManager, mechanics |
| `Backup`, `Repairman`, parsers (`repair/mechanic`, `repair/parse`) | pages, verified pages, material | full and incremental backup, repair from material | files |
| `winq`, `tag`, `token`, `fts` tokenizers, ciphers, ORM wrappers | none shared | pure construction of SQL, encoding | - |

What makes these parts hard, and hence what is stated about them, is listed in
`PROJECT.json` under `hazards`: threads that wait for one another, a check made
under a lock and used after it is released, a handle or a file touched by two
owners, a crash between two file operations, and queues whose elements are put
back while they are being processed.

## 2. Modules

One module per component, with an `MC` module where TLC needs definitions for
the constants. Constants and state keep the names of the source where TLA+ allows
it; `PROJECT.json` maps every definition to its lines. An operator called `Bug...`
is a definition with a plausible mistake in it; it stands before the correct one,
no specification uses it, and it serves to confirm that a property notices.

| Module | Code | State | Actions |
|---|---|---|---|
| `SharedLock` | `base/Lock.cpp` | the counters, `pendingWriters`, `locking`, the shares of each thread, who waits and who of them is asleep | each call up to its wait, each wake-up, spurious wake-ups |
| `ReadWriteLock` | what the lock promises | owner, depth, shares | acquire, release, share, unshare; implemented by `SharedLock` and used by `HandlePool` |
| `HandleCounter` | `core/HandleCounter.cpp` | both counters, both pending lists, sleepers | increase, its two waits, decrease, spurious wake-ups |
| `HandlePool` | `core/HandlePool.cpp`, `initialize` and `getHandle` of `core/InnerDatabase.cpp` | handles and free handles of each slot, handles of each thread, open connections, the counters and the concurrency lock | the sections of `flowOut` and `flowBack` between two locks, blockade, drain around its callback, purge, begin and end of transactions |
| `Closing` | `close` and the interruptible tasks of `core/InnerDatabase.cpp` | `m_closing`, where each task and each closer is, marks and suspensions of the handles | a task from its share of the lock through the taking and the setting up of its handle to its return, close from `++m_closing` to `--m_closing`; `suspend` reads the mark of a handle in one step and acts on it in another |
| `Transaction` | `core/sqlite/AbstractHandle.cpp`, `core/InnerHandle.cpp`, `BaseBinding::createTable` | the transaction and the savepoints of SQLite, level and transaction error, the nested calls | entry and return of each kind of call, statements, pause and resume, a rollback after the calls; every statement may fail, those of a rollback included |
| `BusyRetry` | `core/config/BusyRetryConfig.cpp` | locks held, locks reported, what each thread tries, the order of each thread that is listed as waiting | the hooks of SQLite, the busy handler, time-outs |
| `PlainTable` | what a migrating table promises | the rows | insert, change, change of a key, delete |
| `MigrationRows` | `core/migration/MigratingStatementDecorator.cpp`, `MigrateHandleOperator.cpp`, `MigrationInfo.cpp` | rows of source and target, the sequence, how far the migration is | statements as they are split over the tables, batches, drop of the source, restart |
| `Migration` | `core/migration/Migration.cpp` | infos, hints, references, migrating infos, dumpster, what each thread has read | each block under `m_lock` |
| `TimedQueue` | `utility/TimedQueue.hpp` | the list, the clock, the thread in `loop` and its deadline, pending notifications | queue, notify, remove, stop, the steps of `loop`, exit |
| `OperationQueue` | `core/operate/OperationQueue.cpp`, `AutoMigrateConfig.cpp`, `CommonCore.cpp` | records, queued operations, the corrupted files, callbacks | handles that start and stop migration, enabling, close, the operations, errors, replaced files |
| `CompressedRows` | `core/compression/CompressingStatementDecorator.cpp`, `CompressHandleOperator.cpp`, `CompressionInfo.cpp`, `CompressionCenter.cpp`, `DecompressFunction.cpp` | rows of the table and of its uncompressed twin, bindings of the prepared statement, the place of the stepper and its record | every form of statement, batches, the record, change of the filter, rollback, restart |
| `Compression` | `core/compression/Compression.cpp`, `CompressingHandleDecorator.cpp`, `core/sqlite/HandleStatement.cpp` | the schema on disk and in the transaction of its writer, what the process knows of the table, where each thread is | each block under `m_lock` or on the database, transactions with nested ones, the stepper, waits for the write lock that time out |
| `Factory` | `repair/factory`, the moves of `base/FileManager.cpp`, `initialize` | files by directory with their inode, the line an operation is at | a step on one file, a failing link or attribute, a kill, the next `initialize` |

How they compose: `HandlePool` instantiates `ReadWriteLock`, the specification
that `SharedLock` is proved to implement, so what holds of the pool holds with the
real lock. `Closing` relies on one more property of the lock, that no new share
is given while a writer waits (`LockReadersYield`). `HandlePool` keeps the counter
of `HandleCounter` by its limits. `OperationQueue` takes from `TimedQueue` that an
entry leaves the queue in the end (`EveryEntryLeaves`), which is its fairness of
`Take`. `Migration` abstracts rows to their number, `MigrationRows` keeps the rows
and abstracts infos to the phases that `Migration` checks in `LifeOfInfo`. In the same
way `Compression` abstracts rows to batches and `CompressedRows` the threads to one
application and the stepper. `MCTransaction`, `MCOperationQueue` and `MCCompression`
put two modules next to each other: a behaviour is one of the first or of the second
(variable `part`), and one run checks the properties of both.

The list of waiting threads of `BusyRetryConfig` is a sorted list without repetition
in which the main thread comes first. Of it `BusyRetry` keeps the order of each
listed thread (`Must` for the main thread, `NoMatter` for the others): the order
among the others has no effect on the outcome, since `tryNotify` wakes everybody it
finds free to go on (or, with one condition variable for all, everybody at once).

SQLite is not modelled beyond what the code sees of it: a statement, a commit or
an open succeeds or fails, a failing statement may or may not end the
transaction, a lock is granted if the locks held allow it, and a write-ahead log
beside a new, empty main file is dropped. These definitions are marked external in the map.

## 3. Runs

Every run uses two workers and ends within about two minutes.

| Run | Instance | Properties |
|---|---|---|
| `lock` | 4 threads, acquisitions nested twice, one waiter notified at a time, spurious wake-ups | `NoLostWakeup`: the front writer of a free lock is awake, a reader sleeps only behind a writer. `ImplementsReadWriteLock`: refinement. `WritersNotStarved`: a waiting writer gets the lock if holders that do not wait themselves let go, so no holder of a share waits for the writer |
| `counter` | 4 requesters, 2 handles, 1 writer, `notify_all`, spurious wake-ups | `WithinLimits`; `NotStranded`: a sleeper has somebody left to wake it; `EverybodyServed`: once requests stop, every waiter is served |
| `pool` | 2 threads, 4 handle objects, 3 types in 2 slots, limits 3 and 1, 2 references | `OneUser`: a handle has one user; `HandleInUseIsOpen`: nobody closes it meanwhile; `BooksAgree`: connections, shares and counters agree with the handles in use at every step |
| `closing` | 2 tasks, backups alone or any, 2 closers, one of which drain may refuse | `BackupIsSuspended`: a close that waits has suspended every backup at work, and no suspension outlives the closes unless one was refused; `CloseCompletes` |
| `transaction` | 2 writes, calls nested 3 deep, 2 failing statements, 5 kinds of application | `CommittedIsDurable`, `FailedLeavesNothing`, `CleanCallCommits`, `TransactionEnds` |
| | 3 threads, one of them the main thread; shm or pager locks; notify-one or notify-all | `NoLostWakeup`: a sleeper is listed, and sleeps although its lock is reported free only while a lock holds up the main thread; `QuietMeansFree`: when everything is released and reported nobody sleeps; `HolderSeesMainThread` |
| `rows` | 4 ids, 2 values, each kind of key, a filter condition, two database files | `MigrationUnseen`, `MigrationKeepsRows`, `IsPlainTable` (refinement), `SourceIsDropped` |
| `migration` | 2 tables, 2 handles, 2 steppers in 4 combinations | `LifeOfInfo`, `BoundSourceKept`, `NeverAgain`, `EverythingMigrates` |
| `operation` | 2 keys, 2 callers, delays 0 to 2, time up to 4 | `SleepsNotTooLong`, `EveryEntryLeaves`, `StopEnds` |
| | 1 or 2 threads that open handles, 1 or 2 files, 2 tolerated failures | `NotRequiredNotQueued`, `KeepsStepping`, `ConfirmedIsNotified` |
| `factory` | vacuum, deposit and retrieve alone and in pairs, 2 data, 1 or 2 workshops, failing links and attributes, both builds for vacuum | `DataNeverLost`, `NothingPending` |
| `factory_renaming` | a deposit where files are renamed | `AllDataKept`, violated: section 6 |
| `compression` | 8 applications: each form of statement, kinds of dictionary, filters that change, rollbacks, restarts; up to 3 rows, 2 columns | `ReadsAsWritten`: every read gives what a plain table would; `FinishedIsTyped`: once the table counts as compressed the stepper missed no row; `CompressionFinishes` |
| | 2 users and the stepper in 9 uses: columns added, tables created and dropped, nested transactions rolled back, waits for the lock that time out | `TypeColumnFound`, `StatementsPrepared`, `EverythingCompressed` |
| `compression_rebinding` | an insert executed again whose content is bound before its match value | `SameAsUncompressed`, violated: section 6 |

Several runs explore different uses of one component at once: the variable
`setup` (in `CompressedRows` `use`, in `Transaction` `application`) is chosen in the initial state from a constant
(`Setups`, `Applications`, `OperationSetups`, `TableSetups`, `FactorySetups`) and never changes; a property that is promised only for some uses names them as
its condition.

**Bounds.** Four threads are two readers that nest next to two writers that queue,
the least in which a writer is notified while another one and a reader wait. Two
handles and one writer let both limits of the counter be reached at once and
separately. In the pool three handles are in use and a fourth object is made in
place of one that was purged. Three nested calls give a call that is neither the
outermost nor the innermost one; two failures let a commit and the rollback after
it both fail. Four ids leave one row migrated, one to migrate, one to insert, and
one above all of them. Three rows of a compressed table in batches of two leave a
row between two batches and a record that is one batch behind. `MaxRows`, `MaxTime`, `MaxSaves`, `MaxDepth`,
`MaxReferences`, `MaxFaults`, the ids and operations of an application bound what the
program does not; `MaxHandles`, `MaxWriters`, `Tolerable`, `BatchCount`, `RecordCount`
and `RollbackCount` are limits of the program with smaller values.
Symmetry is used for threads, handles and writes that the specification does not
tell apart, in runs without liveness. The view of `factory` replaces inode
numbers by the sets of files that share them.

**Deadlock** is checked in every run but `compression`, in which the application has a
bounded number of operations and everything rests when they are done and the
stepper has finished. In `operation` the timed queue may rest only when the thread in
`loop` has ended and time has reached its bound (`Rests`).

**Fairness.** Weak fairness of a step that a running thread takes without waiting
for anybody: a notified thread runs, a task goes on from one section to the next,
a handle is given back, the timer thread wakes up at its deadline. Strong fairness
where the code tries again and again and others can get in between: a close that
waits in `drain` behind a lock that prefers writers (`WritersNotStarved`), a task that waits to
write the lists of the pool (`TaskTake`, `TaskReturn`: `m_memory` is the same kind of lock), a step of a migration that
fails while the database is busy and is repeated by the queue, an entry of the
queue that others remove and add, a batch of the stepper of compression whose rows
statements take away and put back. Nothing is assumed of how long a task works
(`Closing`), that a lock serves those that wait for a share while others drain again and
again (a close that waits for its share is fair only weakly; `CloseCompletes` names the
exception), or that callers stop calling, except where a property says so
(`EverybodyServed`: no new requests; `WritersNotStarved`: holders let go).
## 4. Proofs

| Module | About | Open in it | Theorems |
|---|---|---|---|
| `LockProofs` | the lock | threads, nesting, build | `Invariance`, `LockExcludes`, `LockLosesNoWakeup`, `LockCountsExactly`, `LockWaitersHoldNothing`, `LockReadersYield`, `LockWritersInOrder`, `LockImplementsReadWriteLock` |
| | close against tasks | tasks, closers | `ClosingInvariance`, `CloseSuspendsBackups` |
| `CountingProofs` | the counter of handles | requesters, limits, build | `Invariance`, `CounterWithinLimits`, `CounterListsCountWaiters`, `CounterNotStranded` |
| | the operation queue | threads that open handles, files, uses, tolerated failures | `OperationInvariance`, `NotRequiredIsNotQueued`, `MigrationKeepsStepping`, `CorruptionNotifiedOnce` |
| `HandlePoolProofs` | the pool | threads, handles, categories, slots, types, limits, nesting | `PoolInvariance`, `HandlesServeOne`, `HandlesInUseStayOpen`, `PoolBooksAgree` |
| `HandleProofs` | the busy handler | threads, locks asked for, build | `BusyInvariance`, `BusyLosesNoWakeup`, `BusyQuietMeansFree`, `BusyHolderSeesMainThread` |
| | transactions of a handle | writes, settings of the application, nested calls, failing statements, savepoints | `TransactionInvariant`, `TransactionTypes`, `TransactionsEnd`, `CommitsAreDurable`, `FailuresLeaveNothing`, `CleanCallsCommit` |
| `MigrationProofs` | infos of migrating tables | tables, handles, steppers, rows | `MigrationInvariance`, `InfosLive`, `SourcesOfStatementsKept`, `MigratesOnce` |
| `CompressionProofs` | infos of compressed tables | users, their operations, columns at the start | `CompressionInvariance`, `TypeColumnIsFound` |
| `TimedQueueProofs` | the timed queue | keys, callers, delays, time | `QueueInvariance`, `QueueSleepsNotTooLong` |
| `FactoryProofs` | the repair factory | data, workshops, operations called, failing calls, build | `FactoryInvariance`, `FactoryTyped`, `NeverPending`, `DataKept` |

In each module `IInv` (`ClosingIInv`, `BusyIInv`, `OperationIInv`, `CompressionIInv`,
`FactoryIInv`) is the inductive invariant, with one lemma per action (or group of
actions that move one thing) and one step per conjunct under it. Assumptions are the
`ASSUME` of the component's module and nothing else; what is assumed finite is what the
code counts.

**The lock.** Assumptions (`LockAssumption`): `MaxDepth` is a positive number,
`NoThread` is no thread, `NotifyOne` is a Boolean. The properties of section 3
are not inductive one by one. Exclusion needs that `m_readers` counts the shares
of all threads exactly (`CountersAgree`): otherwise a writer enters at
`m_readers == 0` while somebody shares. The count needs that a thread inside a
wait holds nothing (`WaitersHoldNothing`), and `NoLostWakeup` needs that the queue
of writers is exactly the threads that wait for the lock, each once
(`QueueIsWaiters`): the thread notified is the front of the queue. `IInv` is the
conjunction of these with the types and the finiteness of the counted sets. There
is one lemma per action and one step per conjunct under it; lemmas about adding
and removing a share and about pushing to and popping from the queue carry the
counting. From `Spec => []IInv` (`Invariance`) follow

- `LockExcludes`, `LockCountsExactly`, `LockWaitersHoldNothing`;
- `LockLosesNoWakeup`, which run `lock` checks as `NoLostWakeup`;
- `LockReadersYield` and `LockWritersInOrder`, properties of steps;
- `LockImplementsReadWriteLock`: every step of the lock is a step of the abstract
  lock or changes nothing of it.

**The counter.** Assumptions (`CounterAssumption`): the requesters are finitely
many, the limits are positive and there are at most as many writers as handles. `ListsCountWaiters` is the
key: a waiter pops the first entry of its list, which need not be its own, so the
list may name other threads than those that wait, but it never has more or fewer
entries, and `size() > 0` does test for a waiter. `IInv` adds, for `notify_all`,
that a writer sleeps only while the limit of writers is reached
(`WriterSleepsOnlyWhenFull`); `NotStranded` is inductive only with it, since a
recycled write handle wakes the writers and nobody else. Theorems:
`CounterWithinLimits`, `CounterListsCountWaiters` (both builds) and
`CounterNotStranded` (`notify_all`).

**The pool.** Assumptions (`PoolAssumption`): finitely many threads, handles and
categories, every type has a slot and a category, limits are positive. `OneUser`
compares handles in use only; it is inductive once every handle has one place: in the
hand of one thread for one category, carried by one thread between two sections of
`flowOut` or `flowBack`, or once in one free list (`OnePlace`). `Way` says what a thread
has at each of these sections, in particular that it has no handle of the category it
is getting one for. `Accounts` counts the shares of a thread, the handles and the
writers from the handles in use and the threads on their way; a thread that drains
owns the lock, so by `Alone` and `Accounts` nobody else has a handle or carries one, and
`ClearAllHandles` closes no handle in use. `Slotted` and `Kept` (a handle without a
reference is in a transaction) need that nobody drains while using a handle
themselves, which is the condition of `HandlesInUseStayOpen` and `PoolBooksAgree`;
`HandlesServeOne` holds without it. The lemmas on places (`PlaceHand`, `PlaceCarried`,
`PlacePopped`, `PlacePushed`) and on counts (`OneMoreUse`, `OneLessUse`,
`WalkAccounts`) are stated once and used by the steps. Lemmas that count take what the
library proves of finite sets as a hypothesis (`FiniteSetFacts`), which the last lemma
before the theorems proves.

**Closing.** `ClosingAssumption`: tasks and closers are different threads, and closers
are finitely many. A close goes through the handles while tasks set theirs up, mark them
and give them back, and between its reading of a mark and its call of `sqlite3_suspend` the
handle may have a new user. `BackupIsSuspended` needs that `m_closing` is exactly the number
of threads inside `close`, that a backup that has begun is marked and in its slot
(`Marked`), and that a backup at work is suspended or still ahead of every closer in its loop, none
of which is about to resume it (`Followed`): a backup that passes its test found nobody
inside, so whoever enters later reads the mark. That no suspension outlives the closes
(`Settled`) needs that nobody is in the loop while the pool is drained and that the
drain leaves nothing suspended (`Loops`).

**The busy handler.** `BusyConstants`: the main thread is one of the threads, requests
are for shm or pager locks of the kinds SQLite has. `NoLostWakeup` compares a sleeper
with the locks on record, so `BusyIInv` first ties the record to the locks SQLite granted:
they differ only for a thread that is about to report (`MasksTrue`, `PagerTrue`,
`OneKind`). `ListTrue` says who is listed, with which order, and that
`m_mainThreadBusyTrying` is up exactly while the main thread is in the handler.
`PassedOver` is what `tryNotify` leaves behind: a sleeper must wait, or the main thread
is held up and has not come to rest without locks since. That last clause is what makes
it inductive: the report of the main thread's own release wakes whoever was passed
over. `QuietMeansFree` follows: with everything released and reported nothing is on
record, so nobody has to wait and nothing holds up the main thread.

**Transactions.** `TransactionConstants`: the bounds are natural numbers and an application
is four settings, any of them. The operations are functions from a handle to its possible
results, so first one lemma per operation says what a result is, field by field
(`BeginResults`, `CommitResults`, `RollbackResults`, `CommitOrRollbackResults`,
`StatementResults`); they need that every level above the first has its savepoint, in the
order of the levels (`Nested`, part of `Sound`), although a rolled-back savepoint stays and
its name is used again: `SavepointNests` and `SavepointEnds` say that the innermost savepoint
of every level below is untouched. `IInv` then ties the handle to the calls in progress.
Whatever the application ignores, the level is at most the number of calls inside a
transaction, or one more where `ROLLBACK` may fail (`Balanced`), from which
`TransactionsEnd` follows; it may be less, since after SQLite rolled back by itself the next
begin starts again at 0. A `ROLLBACK` that fails leaves a transaction at level 0, which the next
begin puts right: `PutRight` is the handle it works on, and `Firm` what holds of that one. For a careful application the level is that number, only the
innermost call has seen a failure, and the durable contents are those the outermost call
began with (`Orderly`); a transaction is fatal only while its innermost call knows why
(`FatalIsKnown`), hence `CleanCallsCommit`; and what the connection sees is what the innermost
call began with and wrote, while each savepoint holds what its call began with (`Contents`),
hence `CommitsAreDurable` and `FailuresLeaveNothing`. One lemma per thing that happens to the
calls (`CallBegins`, `CallFails`, `CallWrites`, `CallPauses`, `CallResumes`, `CallReturns`) carries
this from step to step. TLC checked `IInv` first.

**Migration.** `MigrationConstants`: finitely many handles, which are no steppers. What an
actor has read outside `m_lock` is stale; `Walk` says what still holds of it at every
place (a source table it has seen is there as long as the table has no info; a table it
drops has left `m_referenceds`; the rows it found gone are gone), `Binding` what a
handle that prepares a statement holds, `Sources` that an info that can be referenced
has its source table. The count of `m_referenceds` is the number of handles that hold
the info, which `Holding` carries from step to step. `MigratesOnce` is a property of
steps proved from the same invariant.

**The timed queue.** `QueueConstants`: delays and the bound of time are natural numbers,
there is a key. The list is sorted by time and has one entry per key
(`SortedByOrder`, `OneEntryPerKey`), so that the entry the thread waits for is the
earliest; `NothingDueBefore` says so for all entries while no notification is under
way. Lemmas say what `RemoveAt` and `InsertAt` return and that inserting in order
keeps a list sorted.

**The operation queue.** `OperationConstants`: the threads that open handles are finitely
many and different from the others, a use says which of them there are and what may
happen. `NotRequiredNotQueued` is inductive with the types: every place that queues a
migration tests `m_records` under the same lock. `KeepsStepping` is not. It needs that
`registers` is the number of the handles the config was invoked for (`HandlesCounted`):
only then the handle that counts down to 0 and removes the operation is the last one,
and with one thread no other handle can be opened between the two. `CorruptionNotifiedOnce`
needs what is under way (`NotificationsOutstanding`): a notification that is queued or
running is for a file that is in `m_corrupteds` and was not notified, and one that is
queued while another runs is for another file; a callback that is called twice would come
from a second entry for the same file, which `handleError` does not make for an identifier
that is recorded.

**Compression.** `CompressionConstants`: the stepper is no user, the names of the columns
of a table are different. `TypeColumnFound` relates the index that the process keeps to the
committed columns when rows are compressed, long after it was counted. `IInv` says that a
transaction, a savepoint and what a thread read before it alters the table each begin
with the columns that were committed before (`WorkInv`, `SavedInv`, `MetasInv`), that no
schema has two type columns, and that the index is that of the type column in
every schema that has one, or 0 (`Right`). What is rolled back is then a tail that the
index survives. The exception is a table that did not exist: it is created with its
type column second and may vanish again, so `SmallInv` says that while no table is
committed it can only be the table as it is defined. For this no column may be added
to a table that was created in the process. The condition `Steady` says so. The first form
of the property lacked that condition and held in every instance of the run; it was the search for the
invariant that showed a trace against it, which TLC confirmed with a longer use (7
operations of one thread): a thread has defined the table it is about to create;
meanwhile another one creates it in a transaction, adds a column, counts the index of the
type column behind that column, and rolls back; the index is kept, and the table that the
first thread creates has its type column elsewhere.

**The repair factory.** `FactoryConstants`: the directories for deposits are finitely many and
none of the others. `DataNeverLost` speaks of an open database, but the data has to be somewhere
at every step, since the process may be killed after any of them and the next `initialize`
knows only the files. `Found` says what such an `initialize` would find: the data is in
the current database and the deposited ones; without a current database, in the vacuumed
and the deposited ones; without either, in the deposited ones alone. It is inductive with what is
true while files move (`Stages`). A move never has the main file in neither directory
and whichever has it has the data (`Passing`); a deposit only has files of the current
database until all are linked (`Duplicated`), and everything from then on; a retrieval has
restored everything before it deposits (`Within`). The order of the files matters in one
place: a vacuum that removes the current database takes the main file first, and from
then on the vacuumed one counts. `SameInode` says that files with one inode
are one file under one name: a deposit leaves two links to a file when it is killed,
and a checkpoint through one of them empties the log under both. `PendingInv` says at which
lines a vacuum or a renewal may be pending, and carries `NothingPending`; `ControlInv`
says which operation is at which line. One group of lemmas says what each routine of
`FileManager` does to the files, once for all its callers (`RemoveItemsFiles`,
`RemoveDirectoryFiles`, `MoveItemsFiles`, `PassingStep`). TLC checked the invariant
on the instances of run `factory` first.

**Only model-checked**, and why:

- liveness (`WritersNotStarved`, `EverybodyServed`, `CloseCompletes`, `SourceIsDropped`,
  `EverythingMigrates`, `EveryEntryLeaves`, `StopEnds`, `ConfirmedIsNotified`,
  `CompressionFinishes`, `StatementsPrepared`, `EverythingCompressed`), which TLAPS does
  not reach under fairness;
- what rests on recursive computation over data: `MigrationUnseen`, `MigrationKeepsRows`
  and `IsPlainTable` (the rows of a batch, `Migrated`) and `ReadsAsWritten` and
  `FinishedIsTyped` (recursive functions over the columns of a row), which would need
  induction over rows and columns.

## 5. What is promised under a condition

- `HandlePool`: `DrainsWithHandle` is `FALSE`: no thread that is inside its own
  blockade closes the database while it uses a handle (see 6).
- `NotStranded` is stated for `notify_all`. With notify-one the run would have to
  exclude spurious wake-ups: such a wake-up makes a list name another thread than
  the one that sleeps.
- `CloseCompletes` and `BackupIsSuspended` speak of backups, which mark their
  handle before they test `m_closing`. That no suspension outlives the closes is stated where
  drain refuses none of them; `CloseCompletes` where no others drain again and again.
- `CommittedIsDurable`, `FailedLeavesNothing` and `CleanCallCommits` speak of an
  application that leaves a transaction when something failed in it (`Careful`),
  with a journal, and of rollbacks that do not fail: `rollbackTransaction` returns nothing, so
  the application does not hear of one that does; the first one of an application that
  creates no tables; the last one, where tables are created, of a `BEGIN` that does not fail.
  `TransactionEnds` holds for every application; that no transaction is left needs that
  `ROLLBACK` does not fail, while `ROLLBACK TO` may, and in lite mode, where a rollback is
  a commit, that no `COMMIT` and no `RELEASE` fails.
- `MigrationUnseen`, `IsPlainTable` and `SourceIsDropped` need that no commit on two
  files is cut in two and no key is assigned (`Exact`). `MigrationKeepsRows` needs
  neither.
- `BoundSourceKept`: a handle binds a table once. `EverythingMigrates`: tables do
  not come and go. `KeepsStepping`: one thread opens handles. `ConfirmedIsNotified`:
  inode numbers are not used again; that the call comes at all, the callback is
  registered from the start and stays, and the attributes of the file can be read
  (`Heeded`).
- `DataNeverLost`: the attributes of a file can be read, no link fails in a vacuum,
  and files are not renamed in a deposit.
- `ReadsAsWritten` (`Careful`): a statement that is executed again binds its match value
  first and its update does not select rows; a column with several dictionaries is the
  last one where rows are compressed after they were written; every match value has
  a dictionary where an update selects rows. `FinishedIsTyped`: compression of new data
  is not switched off, nothing is rolled back, and rows are not written by upsert or
  `INSERT ... SELECT`. `CompressionFinishes`: every match value has a dictionary.
- `TypeColumnFound`: no column is added between reading the columns of the table and
  altering it, the table is not dropped, and no column is added to one that was not there
  from the start (`Steady`). `EverythingCompressed`: no nested
  transaction is rolled back; that the record says so, no wait for the write lock times out,
  since whether the record was written is not looked at.

## 6. Where code and comments disagree

Two runs show a disagreement as a counterexample. `factory_renaming`: the depositor moves
the main file first (`repair/factory/FactoryDepositor.cpp:46`), and where files are
moved by renaming, a kill before the log is moved loses the log, although
`core/InnerDatabase.cpp:798` says "So data will never lost." and
`repair/factory/FactoryRenewer.cpp:189` moves "from end to start" for this reason.
`compression_rebinding`: `reset` and `clearBindings`
(`core/compression/CompressingStatementDecorator.cpp:148`) leave the text that was kept for a
column with several dictionaries until its match value is bound; when the content is bound
first, the second execution of an insert stores the text of the first one.

The following were met while modelling, most of them as counterexamples to a property
of section 5 without its condition:

- `core/HandleCounter.cpp:84`: two write handles recycled in a row can both notify
  the same writer, so a thread that waits for any handle sleeps on below the limit
  until another handle is recycled (`HandleCounter.hpp:43`).
- `core/HandlePool.cpp:81`: the assertion "There are some threaded handles not
  invalidated." tests for the level `Read`; a thread in its own blockade has the
  level `Write`, with or without a handle, and its handle is closed.
- `core/InnerDatabase.cpp:1003`: tasks other than backup test `m_closing` before they
  mark their handle; a close in between does not suspend them, against the comment
  at line 145.
- `core/sqlite/AbstractHandle.cpp:930`: `suspend` reads the mark and acts on it without a
  lock against `markAsCanBeSuspended`. A close may suspend a handle whose mark has been taken
  back, so that a task that has just begun, marked or not, is interrupted; if drain refuses
  that close, the suspension stays until the handle is set up again.
- `core/sqlite/AbstractHandle.cpp:588`: a failed statement makes the transaction roll
  back only after `markErrorNotAllowedWithinTransaction`; the header of the
  Objective-C interface says it does "if no error occurs during the transaction,
  otherwise it will rollback".
- `core/sqlite/AbstractHandle.cpp:622`: a commit succeeds when SQLite is in no
  transaction any more, also after SQLite rolled back by itself.
- `core/sqlite/AbstractHandle.cpp:650`: a nested rollback executes `ROLLBACK TO` only
  while errors are allowed; after `createTable` in the same transaction it does not.
- `core/sqlite/AbstractHandle.cpp:668`: after a `ROLLBACK` that fails the level is 0 and the
  transaction is still open. The next transaction nests in it, and those after it too: they
  return true and nothing is committed until a rollback succeeds. A
  `ROLLBACK TO` that fails (650) is not noticed either, and what was to be undone is
  committed with the outer transaction. The comment at 642-646 says that checking the rollback is
  "unnecessary", so that the handle can leave the transaction.
- `winq/extension/BaseBinding.cpp:237`: `createTable` forbids errors before its
  `BEGIN`; when that fails, a later transaction is rolled back for it.
- `core/sqlite/AbstractHandle.cpp:639`: in lite mode a failing commit leaves the
  handle in its transaction, against the comment at 643-645.
- `core/migration/MigrateHandleOperator.cpp:211` and
  `MigratingStatementDecorator.cpp:598`: a row in both tables (after a crash between
  two commits, or a key assigned in one table only) is taken for the end of the
  migration, and later source rows are not read until the next start
  (`Database.hpp:797` of the C++ interface).
- `core/migration/MigrationInfo.cpp:530`: updates and deletes address source rows by
  id without the filter condition; the id of a new row may be that of a row of
  another target table.
- `core/migration/Migration.cpp:491`: binding a table again releases the reference
  of an earlier statement on it (`Migration.hpp:102`).
- `core/migration/Migration.cpp:597`, `:682`, `:709`: the end of a migration is decided in
  two sections, two steppers may finish the same table, and a hint may come while
  tables are acquired; the assertions at lines 600, 203 and 602 can fail.
- `core/migration/AutoMigrateConfig.cpp:53`: a handle that closes counts down and
  removes the operation in two steps; one that opens in between loses its steps.
- `core/operate/OperationQueue.cpp:139`, `:680`, `:138`: a callback registered after the
  corruption was recorded is not called for it; one taken away after the
  notification was queued is called as an empty function; an identifier of a
  removed file stays recorded when its inode is used again.
- `base/FileManager.cpp:474`: an item whose attributes cannot be read ends the first
  loop of `moveItems` with success, and the originals are removed.
- `core/compression/CompressionInfo.cpp:431`: the offset of the values of a row is counted
  on for a match column only in the branch that compresses the value, so after a value
  that is not compressed the next column with several dictionaries reads a wrong value.
- `core/compression/CompressionInfo.cpp:391`: rows written by upsert or `INSERT ... SELECT`
  are compressed afterwards whether or not `m_canCompressNewData` is set, and an upsert that
  updates, or an insert of several selected rows, leaves rows uncompressed; the header of
  the Objective-C interface says of both that new data follows the setting.
- `core/compression/CompressingStatementDecorator.cpp:1225`: an update that selects rows
  does not look at the mark of a failed compression.
- `core/compression/Compression.cpp:262`: the rollback of a nested transaction forgets that
  the outer one created the record table or waits for its commit.
- `core/compression/Compression.cpp:439`, `:530`: a hint may come while tables are acquired, so
  the assertion that there is none can fail, and the flag it resets is set again.
- `core/compression/Compression.cpp:338`, `:221`: the index of the type column is counted
  from columns read before the table is altered, and a repair is refused when another
  thread asked for the check in the meantime.
- `core/compression/CompressHandleOperator.cpp:148`: `parseColumns` drops the last character
  of a record that does not end in a separator.
- `repair/factory/FactoryVacuum.cpp:77`: when the vacuumed database cannot be moved
  back, `exit` removes the directory that holds it.

## 7. Not modelled

`DatabasePool` and `CommonCore` beyond what `OperationQueue` needs;
`MergeFTSIndexLogic`; automatic backup and checkpoint and the materials of
`FactoryBackup`; `removeFiles` and `moveFiles`: state machines that the plan below
takes up. The parsers and crawlers of repair, ciphers, tokenizers, zstd, WINQ and
the object mapping compute on contents and syntax with no shared state in the parts
read for this project. Configurations, integrity check and assembly are sequences of
statements on one handle. The language interfaces were read for their documentation
only. Within the modelled parts: databases in memory, which have one handle and no
files, and do not use the pool (`core/InnerDatabase.cpp:130`, `:186`, `:272`), and the flag `threaded`, with
which `flowOut` only looks for a handle of the thread (`core/HandlePool.cpp:188`); the busy
monitor, the read of `m_mainThreadBusyTrying` outside its lock, multi-row inserts, `ALTER TABLE`
and `UPDATE OR REPLACE` on a migrating table, rebinding of unioned views, the failure
to remove a file; views, renamed tables and the rewriting of nested queries on a
compressed table, the contexts and the training of dictionaries, and `purge` of infos
that other threads may hold.

## 8. Plan

1. `Backup`: checkpoint hooks, incremental material and `FactoryBackup`, with a crash
   between two of its steps; `removeFiles` and `moveFiles` next to `Factory`.
2. `DatabasePool`: references and the close of the last one, composed with `Closing`;
   `MergeFTSIndexLogic`; the remaining operations of `OperationQueue`, over
   `TimedQueue` as its abstract queue.
