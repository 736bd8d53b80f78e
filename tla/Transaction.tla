---------------------------- MODULE Transaction ----------------------------
(* The transactions of one handle: AbstractHandle::beginTransaction,        *)
(* commitTransaction, rollbackTransaction and commitOrRollbackTransaction,  *)
(* with the level and the transaction error they keep, under the calls      *)
(* InnerHandle::runTransaction, runTransactionIfNotInTransaction and        *)
(* runPausableTransactionWithOneLoop, nested as an application nests them.  *)
(*                                                                          *)
(* A handle is used by one thread at a time, so the operations are written  *)
(* as functions from the state of the handle to the set of its possible     *)
(* results [ok, h]; what SQLite makes of a statement is the only choice.    *)
EXTENDS Integers, Sequences, FiniteSets

CONSTANTS
    Writes,        \* the changes statements make, each to a row of its own
    MaxDepth,      \* bound: calls of runTransaction nested in each other
    MaxFaults,     \* bound: statements that fail in a behaviour
    MaxSaves,      \* bound: savepoints, which a rollback to them keeps
    Applications   \* the kinds of application

StatementKinds ==
    {"begin", "savepoint", "release", "commit", "rollback", "rollbackTo", "statement"}

\* The bounds are numbers; an application is four settings.
TransactionConstants ==
    /\ MaxDepth \in Nat /\ MaxFaults \in Nat
    /\ Applications \subseteq [failing : SUBSET StatementKinds, marks : BOOLEAN,
                               ignores : BOOLEAN, lite : BOOLEAN]

ASSUME TransactionAssumption == TransactionConstants

VARIABLES
    application, \* its settings, and what may fail; it never changes
    handle,      \* the connection and the handle on it
    frames,      \* the calls in progress, outermost first
    last         \* what the call that just ended reported; <<>> after other steps

transactionVars == <<application, handle, frames, last>>

Failing == application.failing        \* the statements that may fail
Marks == application.marks            \* whether the application calls createTable
IgnoresErrors == application.ignores  \* whether it goes on after a failed statement
Lite == application.lite              \* m_enableLiteMode: no rollback journal

TransactionErrors == {"Allowed", "NotAllowed", "Fatal"}

(* inTx, db, cur and saves are SQLite's: whether a transaction is open, the *)
(* durable contents, the contents this connection sees and the savepoints.  *)
Fresh == [inTx |-> FALSE, db |-> {}, cur |-> {}, saves |-> <<>>,
          level |-> 0, err |-> "Allowed", cached |-> "Allowed",
          faults |-> MaxFaults]

----------------------------------------------------------------------------
(* SQLite.                                                                  *)

Opened(h) == [h EXCEPT !.inTx = TRUE]

Closed(h, contents) == [h EXCEPT !.inTx = FALSE, !.db = contents,
                                 !.cur = contents, !.saves = <<>>]

Saved(h, name) == [h EXCEPT !.saves = Append(@, [name |-> name, at |-> h.cur])]

\* The innermost savepoint of that name, 0 when there is none.
SaveIndex(h, name) ==
    LET found == {i \in 1..Len(h.saves) : h.saves[i].name = name}
    IN  IF found = {} THEN 0 ELSE CHOOSE i \in found : \A j \in found : j <= i

Released(h, name) ==
    [h EXCEPT !.saves = SubSeq(@, 1, SaveIndex(h, name) - 1)]

BackTo(h, name) ==
    LET i == SaveIndex(h, name)
    IN  [h EXCEPT !.saves = SubSeq(@, 1, i), !.cur = h.saves[i].at]

Wrote(h, w) == IF h.inTx THEN [h EXCEPT !.cur = @ \cup {w}]
               ELSE Closed(h, h.db \cup {w})

----------------------------------------------------------------------------
(* What a failed statement leaves: notifyError makes the transaction fatal  *)
(* when errors are not allowed in it.                                       *)

NotifyError(h) ==
    [h EXCEPT !.err = IF @ = "Allowed" THEN @ ELSE "Fatal"]

\* A statement succeeds, or it fails and SQLite either keeps the transaction
\* or rolls it back by itself.
Execute(kind, h, done) ==
    {[ok |-> TRUE, h |-> done]} \cup
    {[ok |-> FALSE, h |-> [NotifyError(g) EXCEPT !.faults = @ - 1]] :
        g \in IF kind \in Failing /\ h.faults > 0
              THEN {h} \cup (IF h.inTx THEN {Closed(h, h.db)} ELSE {})
              ELSE {}}

MarkErrorNotAllowed(h) ==
    [h EXCEPT !.err = IF @ = "Allowed" THEN "NotAllowed" ELSE @]

CacheError(h) == [h EXCEPT !.cached = h.err]

ResumeError(h) == [h EXCEPT !.err = h.cached]

----------------------------------------------------------------------------
(* The operations on the handle.                                            *)

\* The level is put right first: the transaction may have been rolled back
\* by SQLite, or begun by a statement of the application.
BeginTransaction(h) ==
    LET g == [h EXCEPT !.level = IF ~h.inTx THEN 0 ELSE IF @ = 0 THEN 1 ELSE @]
    IN  IF g.level > 0
        THEN {[r EXCEPT !.h.level = IF r.ok THEN @ + 1 ELSE @] :
                r \in IF g.err = "Allowed"
                      THEN Execute("savepoint", g, Saved(g, g.level + 1))
                      ELSE {[ok |-> TRUE, h |-> g]}}
        ELSE {[r EXCEPT !.h.level = IF r.ok THEN 1 ELSE @] :
                r \in Execute("begin", g, Opened(g))}

CommitTransaction(h) ==
    IF h.level > 1
    THEN {[r EXCEPT !.h.level = IF r.ok THEN @ - 1 ELSE @] :
            r \in IF h.err = "Allowed" /\ h.inTx
                  THEN Execute("release", h, Released(h, h.level))
                  ELSE {[ok |-> TRUE, h |-> h]}}
    ELSE {[r EXCEPT !.h.level = IF r.ok THEN 0 ELSE @,
                    !.h.err = IF r.ok THEN "Allowed" ELSE @] :
            r \in IF h.inTx THEN Execute("commit", h, Closed(h, h.cur))
                  ELSE {[ok |-> TRUE, h |-> h]}}

BugRollbackOnlyLevel(h) ==
    {IF h.level > 1 THEN [h EXCEPT !.level = @ - 1]
     ELSE [(IF h.inTx THEN Closed(h, h.db) ELSE h)
              EXCEPT !.level = 0, !.err = "Allowed"]}

BugRollbackTrustsLevel(h) ==
    {IF h.level > 1
     THEN [(IF h.err = "Allowed" /\ h.inTx THEN BackTo(h, h.level) ELSE h)
              EXCEPT !.level = @ - 1]
     ELSE [h EXCEPT !.level = 0, !.err = "Allowed"]}

\* The set of states the rollback can leave: the level is lowered whether or not
\* SQLite rolled back, and nobody is told.  In lite mode it is a commit.
RollbackTransaction(h) ==
    IF Lite THEN {r.h : r \in CommitTransaction(NotifyError(h))}
    ELSE IF h.level > 1
    THEN {[r.h EXCEPT !.level = @ - 1] :
            r \in IF h.err = "Allowed" /\ h.inTx
                  THEN Execute("rollbackTo", h, BackTo(h, h.level))
                  ELSE {[ok |-> TRUE, h |-> h]}}
    ELSE {[r.h EXCEPT !.level = 0, !.err = "Allowed"] :
            r \in IF h.inTx THEN Execute("rollback", h, Closed(h, h.db))
                  ELSE {[ok |-> TRUE, h |-> h]}}

BugLeavesFailedCommit(h) ==
    IF h.err = "Fatal"
    THEN {[ok |-> FALSE, h |-> g] : g \in RollbackTransaction(h)}
    ELSE CommitTransaction(h)

CommitOrRollback(h) ==
    LET undone(g) == {[ok |-> FALSE, h |-> u] : u \in RollbackTransaction(g)}
    IN  IF h.err = "Fatal" THEN undone(h)
        ELSE UNION {IF r.ok THEN {r} ELSE undone(r.h) : r \in CommitTransaction(h)}

BugAddColumnDuplicate(h) == ResumeError(NotifyError(CacheError(h)))

\* AbstractHandle::addColumn of a column that is there: the error is forgiven
\* unless the transaction was fatal before.
AddColumnDuplicate(h) ==
    IF h.err = "Fatal" THEN NotifyError(h)
    ELSE ResumeError(NotifyError(CacheError(h)))

\* HandleStatement::prepare of a statement that names a missing column: the
\* column is added, perhaps by somebody else meanwhile, and the error forgiven.
PrepareRecovering(h) ==
    ResumeError(AddColumnDuplicate(NotifyError(CacheError(h))))

----------------------------------------------------------------------------
(* The application.  A frame is a call in progress: the contents it began   *)
(* with, what was written in it and kept, whether it saw a failure, and     *)
(* whether it is a pausable transaction between two transactions.           *)

Frame(kind, h) == [kind |-> kind, base |-> h.cur, work |-> {},
                   failed |-> FALSE, paused |-> FALSE]

Top == frames[Len(frames)]

Running == frames # <<>> /\ ~Top.paused

\* A careful application leaves a transaction as soon as something failed.
GoesOn == Running /\ (IgnoresErrors \/ ~Top.failed)

SetTop(f) == [frames EXCEPT ![Len(frames)] = f]

\* The call returns ok; an error in it is an error of the caller's too.
Return(ok, asked, h) ==
    LET n == Len(frames)
        rest == SubSeq(frames, 1, n - 1)
        f == Top
        failed == f.failed \/ (asked /\ ~ok)
    IN  /\ handle' = h /\ UNCHANGED application
        /\ last' = [ok |-> ok, asked |-> asked, failed |-> f.failed, depth |-> n,
                    base |-> f.base, work |-> f.work,
                    fault |-> h.faults # handle.faults]
        /\ frames' = IF rest = <<>> THEN rest
                     ELSE [rest EXCEPT ![n - 1].failed = @ \/ failed,
                                       ![n - 1].work = @ \cup (IF ok THEN f.work
                                                                ELSE f.work \cap f.base)]

\* runTransaction and runPausableTransactionWithOneLoop up to the callback.
Begin(kind, before) ==
    /\ Len(frames) < MaxDepth /\ Len(handle.saves) < MaxSaves
    /\ frames = <<>> \/ (GoesOn /\ Top.kind # "create")
    /\ \E r \in BeginTransaction(before) :
          /\ handle' = r.h /\ UNCHANGED application
          /\ last' = <<>>
          /\ frames' = IF r.ok THEN Append(frames, Frame(kind, r.h))
                       ELSE IF frames = <<>> THEN frames
                       ELSE SetTop([Top EXCEPT !.failed = TRUE])

RunTransaction == \E kind \in {"run", "pausable"} : Begin(kind, handle)

\* BaseBinding::createTable outside a transaction.
CreateTable ==
    /\ Marks /\ ~handle.inTx
    /\ Begin("create", MarkErrorNotAllowed(handle))

\* A statement of the application, or one of createTable in a transaction.
Statement ==
    /\ GoesOn
    /\ \E w \in Writes \ handle.cur, mark \in {FALSE, Marks} :
          /\ mark => handle.inTx
          /\ LET h == IF mark THEN MarkErrorNotAllowed(handle) ELSE handle
             IN  \E r \in Execute("statement", h, Wrote(h, w)) :
                    /\ handle' = r.h /\ UNCHANGED application
                    /\ last' = <<>>
                    /\ frames' = SetTop(IF r.ok THEN [Top EXCEPT !.work = @ \cup {w}]
                                        ELSE [Top EXCEPT !.failed = TRUE])

\* A statement whose column is added on the way.
RecoveringStatement ==
    /\ GoesOn
    /\ handle' = PrepareRecovering(handle)
    /\ last' = <<>>
    /\ UNCHANGED <<application, frames>>

\* The callback returns false: rollbackTransaction.
ReturnFalse ==
    /\ Running
    /\ \E h \in RollbackTransaction(handle) : Return(FALSE, FALSE, h)

\* The callback returns true, for the last time if it is a pausable one.
ReturnTrue ==
    /\ GoesOn
    /\ \E r \in CommitOrRollback(handle) : Return(r.ok, TRUE, r.h)

\* checkMainThreadBusyRetry: the transaction is committed to let the main
\* thread in, and begun again after a sleep.
Pause ==
    /\ GoesOn
    /\ Top.kind = "pausable"
    /\ \E r \in CommitOrRollback(handle) :
          IF r.ok
          THEN /\ handle' = r.h /\ UNCHANGED application
               /\ last' = <<>>
               /\ frames' = SetTop([Top EXCEPT !.paused = TRUE, !.base = r.h.cur])
          ELSE Return(FALSE, TRUE, r.h)

Resume ==
    /\ frames # <<>> /\ Top.paused
    /\ \E r \in BeginTransaction(handle) :
          IF r.ok
          THEN /\ handle' = r.h /\ UNCHANGED application
               /\ last' = <<>>
               /\ frames' = SetTop([Top EXCEPT !.paused = FALSE, !.base = r.h.cur])
          ELSE Return(FALSE, TRUE, r.h)

\* InnerDatabase::rollbackTransaction, by an application that finds itself in a
\* transaction after its calls have returned.
RollbackAgain ==
    /\ frames = <<>> /\ handle.inTx
    /\ handle' \in RollbackTransaction(handle)
    /\ last' = <<>>
    /\ UNCHANGED <<application, frames>>

TransactionInit ==
    application \in Applications /\ handle = Fresh /\ frames = <<>> /\ last = <<>>

TransactionNext ==
    \/ RunTransaction \/ CreateTable \/ Statement \/ RecoveringStatement
    \/ ReturnFalse \/ ReturnTrue \/ Pause \/ Resume \/ RollbackAgain

TransactionSpec == TransactionInit /\ [][TransactionNext]_transactionVars

----------------------------------------------------------------------------
Ended == last # <<>>

\* Types of the state.
TransactionTypeOK ==
    /\ handle \in [inTx : BOOLEAN, db : SUBSET Writes, cur : SUBSET Writes,
                   saves : Seq([name : Nat, at : SUBSET Writes]), level : Nat,
                   err : TransactionErrors, cached : TransactionErrors,
                   faults : 0..MaxFaults]
    /\ frames \in Seq([kind : {"run", "pausable", "create"}, base : SUBSET Writes,
                       work : SUBSET Writes, failed : BOOLEAN, paused : BOOLEAN])
    /\ Ended => last.ok \in BOOLEAN /\ last.depth \in 1..MaxDepth

\* Applications that leave a transaction as soon as something failed in it,
\* with a journal to roll back, where no rollback fails: of one that fails the
\* application hears nothing.
Careful == ~IgnoresErrors /\ ~Lite /\ {"rollback", "rollbackTo"} \cap Failing = {}

(* A careful application that creates no tables: runTransaction that returns *)
(* true at the outermost level made exactly what was written in it durable,  *)
(* nested calls that returned true included.                                 *)
CommittedIsDurable ==
    Careful /\ ~Marks /\ Ended /\ last.ok /\ last.depth = 1
        => handle.db = last.base \cup last.work

(* At every level a call that returns false left nothing of its writes to    *)
(* the call around it; an application that creates tables is promised this   *)
(* of the outermost call only.                                               *)
FailedLeavesNothing ==
    Careful /\ Ended /\ ~last.ok /\ (Marks => last.depth = 1)
        => handle.cur \subseteq last.base

(* A callback that returned true without an error in it is committed, unless *)
(* a statement of the commit itself failed: no error of an earlier           *)
(* transaction, and no forgiven one, is held against it.  Where tables are   *)
(* created this needs that no BEGIN was busy.                                *)
CleanCallCommits ==
    Careful /\ (Marks => "begin" \notin Failing)
        /\ Ended /\ last.asked /\ ~last.failed /\ ~last.fault => last.ok

(* Once the calls have returned, whatever the application ignored, the level *)
(* is at most 1, so that the next rollback is a ROLLBACK and not one to a    *)
(* savepoint, even where ROLLBACK TO and ROLLBACK fail.  Where no ROLLBACK   *)
(* fails, whatever else does, the handle is outside any transaction, with no *)
(* savepoint, at level 0.  In lite mode, where a rollback is a commit, this  *)
(* needs that no COMMIT and no RELEASE fails.                                *)
TransactionEnds ==
    (Lite => {"commit", "release"} \cap Failing = {}) /\ frames = <<>>
        => /\ handle.level <= 1
           /\ "rollback" \notin Failing =>
                 ~handle.inTx /\ handle.saves = <<>> /\ handle.level = 0
=============================================================================
