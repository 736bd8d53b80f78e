--------------------------- MODULE MCTransaction ---------------------------
(* Small instances of transactions.  A behaviour is one of the transactions *)
(* of a handle (Transaction) or of the threads that wait for the locks of   *)
(* a file (BusyRetry); the variables of the other rest.                     *)
EXTENDS BusyRetry, Transaction, TLC

CONSTANTS m, a, b

\* Which of the two a behaviour is of.
VARIABLE part

App(failing, marks, ignores, lite) ==
    [failing |-> failing, marks |-> marks, ignores |-> ignores, lite |-> lite]

\* Where a rollback is a commit.
InLiteMode == App({"begin", "savepoint", "statement"}, FALSE, FALSE, TRUE)

Forward == StatementKinds \ {"rollback", "rollbackTo"}

\* Applications that nest transactions, that create tables, and that go on after
\* errors, where no rollback fails, where no ROLLBACK fails and where everything
\* may; and one in lite mode.
MCApplications ==
    {App(Forward, FALSE, FALSE, FALSE),
     App(Forward \ {"begin"}, TRUE, FALSE, FALSE),
     App(StatementKinds \ {"rollback"}, TRUE, TRUE, FALSE),
     App(StatementKinds, FALSE, TRUE, FALSE),
     InLiteMode}

\* Readers and the writer of the write-ahead log, and a checkpointer.
MCShm == {Shm(Shared, {1}), Shm(Exclusive, {0}), Shm(Exclusive, {0, 1})}

\* Readers and writers with a rollback journal.
MCPager == {Pager(Shared), Pager(Reserved)}

MCSetups == [requests : {MCShm, MCPager}, apple : BOOLEAN]

InTransactions == part = "transactions"
InLocks == part = "locks"

MCInit ==
    /\ Init /\ TransactionInit
    /\ \/ InTransactions /\ setup = [requests |-> MCPager, apple |-> TRUE]
       \/ InLocks /\ application = InLiteMode

TransactionsNext == InTransactions /\ TransactionNext /\ UNCHANGED <<part, vars>>
LocksNext == InLocks /\ Next /\ UNCHANGED <<part, transactionVars>>

MCSpec == MCInit /\ [][TransactionsNext \/ LocksNext]_<<part, vars, transactionVars>>

Symmetry == Permutations({a, b}) \cup Permutations(Writes)
=============================================================================
