-------------------------- MODULE MCOperationQueue --------------------------
(* Small instances of the queues.  A behaviour is one of the timed queue    *)
(* (TimedQueue) or of the operations of a database that are queued in it    *)
(* (OperationQueue); the variables of the other rest.                       *)
EXTENDS TimedQueue, OperationQueue

CONSTANTS t1, t2, f1, f2

\* Which of the two a behaviour is of.
VARIABLE part

Use(openers, files, reuse, toggles, calm) ==
    [openers |-> openers, files |-> files, reuse |-> reuse, toggles |-> toggles,
     calm |-> calm]

\* Handles that come and go while migration is switched on and off; files that
\* are corrupted, replaced and get the inode numbers of others.
MCSetups ==
    {Use({t1, t2}, {f1}, FALSE, TRUE, TRUE), Use({t1}, {f1}, FALSE, TRUE, TRUE)}
    \cup {Use({}, {f1, f2}, reuse, FALSE, calm) : reuse \in BOOLEAN, calm \in BOOLEAN}

InTimed == part = "timed"
InOperations == part = "operations"

MCInit ==
    /\ Init /\ OperationInit
    /\ \/ InTimed /\ setup = Use({t1}, {f1}, FALSE, TRUE, TRUE) /\ broken = {}
       \/ InOperations

TimedNext == InTimed /\ Next /\ UNCHANGED <<part, operationVars>>
OperationsNext == InOperations /\ OperationNext /\ UNCHANGED <<part, vars>>

\* Everything of the timed queue is done.
Rests == InTimed /\ pc = "ended" /\ clock = MaxTime /\ UNCHANGED <<part, vars, operationVars>>

MCVars == <<part, vars, operationVars>>

\* Fairness of the two modules, each in its part.
MCSpec ==
    /\ MCInit /\ [][TimedNext \/ OperationsNext \/ Rests]_MCVars
    /\ WF_vars(InTimed /\ Tick) /\ WF_vars(InTimed /\ TimedOut)
    /\ WF_vars(InTimed /\ (End \/ Wait \/ TakeExpired)) /\ WF_vars(InTimed /\ Expired)
    /\ \A c \in Callers : WF_vars(InTimed /\ Notify(c))
    /\ \A op \in {"Migrate", "Integrity", "Notify"} :
          SF_operationVars(InOperations /\ Take(op))
    /\ WF_operationVars(/\ InOperations
                        /\ \/ DoMigrate \/ DoCheckIntegrity
                           \/ DoNotifyCorruption)
=============================================================================
