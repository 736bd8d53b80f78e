--------------------------- MODULE HandleCounter ---------------------------
(***************************************************************************)
(* WCDB::HandleCounter (core/HandleCounter.cpp): limits how many handles of *)
(* a database are in use, and how many of them are meant for writing.       *)
(*                                                                         *)
(* A requester is one use of a handle, from tryIncreaseHandleCount to       *)
(* decreaseHandleCount.  Both run under m_lock, which is released only       *)
(* inside Conditional::wait.  A handle type other than HandleType::Normal    *)
(* does not wait: its call returns false and changes nothing, a stuttering   *)
(* step here.  When it succeeds it is counted as the others are.             *)
(***************************************************************************)
EXTENDS Naturals, Sequences, FiniteSets

CONSTANTS Requesters,
          MaxHandles,   \* HandlePoolMaxAllowedNumberOfHandles, 32
          MaxWriters,   \* HandlePoolMaxAllowedNumberOfWriters, 4
          NotifyOne,    \* TRUE: the __APPLE__ build, which signals one thread
          Spurious      \* TRUE: a wait may return without a notification

ASSUME CounterAssumption ==
    /\ IsFiniteSet(Requesters)
    /\ MaxHandles \in Nat \ {0}
    /\ MaxWriters \in Nat \ {0}
    /\ MaxWriters <= MaxHandles
    /\ NotifyOne \in BOOLEAN
    /\ Spurious \in BOOLEAN

VARIABLES totalCount,      \* m_totalCount
          writerCount,     \* m_writerCount
          pendingNormals,  \* m_pendingNormals, a list of threads
          pendingWriters,  \* m_pendingWriters
          pc,              \* outside, in one of the waits, or holding a handle
          writeHint,       \* the argument of the requester's call
          asleep           \* blocked in Conditional::wait, not notified

vars == <<totalCount, writerCount, pendingNormals, pendingWriters, pc, writeHint, asleep>>

\* Types of the state.
TypeOK ==
    /\ totalCount \in Nat
    /\ writerCount \in Nat
    /\ pendingNormals \in Seq(Requesters)
    /\ pendingWriters \in Seq(Requesters)
    /\ pc \in [Requesters -> {"outside", "waitNormal", "waitWriter", "holding"}]
    /\ writeHint \in [Requesters -> BOOLEAN]
    /\ asleep \subseteq Requesters

Init ==
    /\ totalCount = 0
    /\ writerCount = 0
    /\ pendingNormals = <<>>
    /\ pendingWriters = <<>>
    /\ pc = [r \in Requesters |-> "outside"]
    /\ writeHint = [r \in Requesters |-> FALSE]
    /\ asleep = {}

-----------------------------------------------------------------------------
\* The two loop conditions of tryIncreaseHandleCount.
Full == totalCount >= MaxHandles
WritersFull(hint) == hint /\ writerCount >= MaxWriters

\* push_back and wait on one of the two conditions; the queues are given as they
\* are after the pop_front of the wait the requester comes from, if any.
WaitNormal(r, normals, writers) ==
    /\ pendingNormals' = Append(normals, r)
    /\ pendingWriters' = writers
    /\ pc' = [pc EXCEPT ![r] = "waitNormal"]
    /\ asleep' = asleep \cup {r}
    /\ UNCHANGED <<totalCount, writerCount>>

WaitWriter(r, normals, writers) ==
    /\ pendingNormals' = normals
    /\ pendingWriters' = Append(writers, r)
    /\ pc' = [pc EXCEPT ![r] = "waitWriter"]
    /\ asleep' = asleep \cup {r}
    /\ UNCHANGED <<totalCount, writerCount>>

Increase(r, hint, normals, writers) ==
    /\ writerCount' = IF hint THEN writerCount + 1 ELSE writerCount
    /\ totalCount' = totalCount + 1
    /\ pendingNormals' = normals
    /\ pendingWriters' = writers
    /\ pc' = [pc EXCEPT ![r] = "holding"]
    /\ UNCHANGED asleep

\* tryIncreaseHandleCount from its entry to its first wait or its return.
TryIncreaseHandleCount(r, hint) ==
    /\ pc[r] = "outside"
    /\ writeHint' = [writeHint EXCEPT ![r] = hint]
    /\ \/ Full /\ WaitNormal(r, pendingNormals, pendingWriters)
       \/ ~Full /\ WritersFull(hint) /\ WaitWriter(r, pendingNormals, pendingWriters)
       \/ ~Full /\ ~WritersFull(hint) /\ Increase(r, hint, pendingNormals, pendingWriters)

\* A requester returns from the wait of the inner loop on the total: pop_front,
\* then the loop conditions again.
NormalAwake(r) ==
    LET normals == Tail(pendingNormals) IN
    /\ pc[r] = "waitNormal"
    /\ r \notin asleep
    /\ \/ Full /\ WaitNormal(r, normals, pendingWriters)
       \/ ~Full /\ WritersFull(writeHint[r]) /\ WaitWriter(r, normals, pendingWriters)
       \/ ~Full /\ ~WritersFull(writeHint[r])
          /\ Increase(r, writeHint[r], normals, pendingWriters)
    /\ UNCHANGED writeHint

BugWriterAwakeSkipsTotal(r) ==
    LET writers == Tail(pendingWriters) IN
    /\ pc[r] = "waitWriter"
    /\ r \notin asleep
    /\ \/ WritersFull(writeHint[r]) /\ WaitWriter(r, pendingNormals, writers)
       \/ ~WritersFull(writeHint[r])
          /\ Increase(r, writeHint[r], pendingNormals, writers)
    /\ UNCHANGED writeHint

\* A requester returns from the wait of the inner loop on the writers.  When that
\* loop ends the outer condition is tested, and the total may be exceeded by now.
WriterAwake(r) ==
    LET writers == Tail(pendingWriters) IN
    /\ pc[r] = "waitWriter"
    /\ r \notin asleep
    /\ \/ WritersFull(writeHint[r]) /\ WaitWriter(r, pendingNormals, writers)
       \/ ~WritersFull(writeHint[r]) /\ Full /\ WaitNormal(r, pendingNormals, writers)
       \/ ~WritersFull(writeHint[r]) /\ ~Full
          /\ Increase(r, writeHint[r], pendingNormals, writers)
    /\ UNCHANGED writeHint

BugNotifyNobody == asleep

\* Who sleeps on after m_conditionalWriters (m_conditionalNormals) is notified.
NotifyWriters ==
    IF NotifyOne THEN asleep \ {Head(pendingWriters)}
                 ELSE {r \in asleep : pc[r] # "waitWriter"}

NotifyNormals ==
    IF NotifyOne THEN asleep \ {Head(pendingNormals)}
                 ELSE {r \in asleep : pc[r] # "waitNormal"}

\* hasNotified: a writer was notified, so the waiters for any handle are not.
DecreaseHandleCount(r) ==
    LET hint == writeHint[r] IN
    /\ pc[r] = "holding"
    /\ pc' = [pc EXCEPT ![r] = "outside"]
    /\ writerCount' = IF hint THEN writerCount - 1 ELSE writerCount
    /\ totalCount' = totalCount - 1
    /\ asleep' = IF hint /\ pendingWriters # <<>> THEN NotifyWriters
                 ELSE IF pendingNormals # <<>> THEN NotifyNormals
                 ELSE asleep
    /\ UNCHANGED <<pendingNormals, pendingWriters, writeHint>>

SpuriousWakeup(r) ==
    /\ Spurious
    /\ r \in asleep
    /\ asleep' = asleep \ {r}
    /\ UNCHANGED <<totalCount, writerCount, pendingNormals, pendingWriters, pc, writeHint>>

Next == \E r \in Requesters :
    \/ \E hint \in BOOLEAN : TryIncreaseHandleCount(r, hint)
    \/ NormalAwake(r)
    \/ WriterAwake(r)
    \/ DecreaseHandleCount(r)
    \/ SpuriousWakeup(r)

Spec == Init /\ [][Next]_vars

\* A requester that was notified runs, and one that holds a handle recycles it.
Fairness == \A r \in Requesters :
    WF_vars(NormalAwake(r)) /\ WF_vars(WriterAwake(r)) /\ WF_vars(DecreaseHandleCount(r))
FairSpec == Spec /\ Fairness

-----------------------------------------------------------------------------
Waiting(place) == {r \in Requesters : pc[r] = place}
Holders == {r \in Requesters : pc[r] = "holding"}
WriteHolders == {r \in Holders : writeHint[r]}

\* HandleCounter.hpp:36-42: never more handles in use, nor more of them for
\* writing, than allowed; and the counters count exactly the handles in use, so
\* the assertions of decreaseHandleCount hold.
WithinLimits ==
    /\ totalCount = Cardinality(Holders)
    /\ writerCount = Cardinality(WriteHolders)
    /\ totalCount <= MaxHandles
    /\ writerCount <= MaxWriters

\* Each pending list is as long as the set of threads inside its wait, whatever
\* the order in which they pop_front: size() > 0 tests for a waiter.
ListsCountWaiters ==
    /\ Len(pendingNormals) = Cardinality(Waiting("waitNormal"))
    /\ Len(pendingWriters) = Cardinality(Waiting("waitWriter"))

\* While anybody sleeps, somebody can still wake a waiter: a handle is in use and
\* its recycling will notify, or a notified thread has yet to run.
NotStranded ==
    asleep # {} => Holders # {} \/ \E r \in Waiting("waitNormal") \cup Waiting("waitWriter") :
                                       r \notin asleep

\* With notify_all, a writer sleeps on the writers only while their limit is
\* reached: whenever a writer's handle comes back, all of them look again.
WriterSleepsOnlyWhenFull ==
    (\E r \in asleep : pc[r] = "waitWriter") => writerCount >= MaxWriters

\* A requester that waits gets a handle in the end if requests stop coming.
Calm == <>[][\A r \in Requesters, hint \in BOOLEAN : ~TryIncreaseHandleCount(r, hint)]_vars
EverybodyServed ==
    Calm => \A r \in Requesters : pc[r] \in {"waitNormal", "waitWriter"} ~> pc[r] = "holding"
=============================================================================
