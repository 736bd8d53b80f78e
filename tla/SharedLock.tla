----------------------------- MODULE SharedLock -----------------------------
(***************************************************************************)
(* WCDB::SharedLock (src/common/base/Lock.cpp): the reentrant, writer-      *)
(* preferring read-write lock that every shared structure of WCDB uses.     *)
(*                                                                         *)
(* Every method runs under the mutex m_lock, released only inside           *)
(* Conditional::wait, so a call is one step up to its wait and every        *)
(* wake-up is one more step.  A waiting thread is in asleep until it is     *)
(* notified (or wakes spuriously, which std::condition_variable allows);    *)
(* it then evaluates the condition of its loop again.                       *)
(*                                                                         *)
(* A call that a WCTRemedialAssert refuses (an unpaired unlock, an upgrade, *)
(* a downgrade) changes nothing: it is a stuttering step of this module.    *)
(***************************************************************************)
EXTENDS Naturals, Sequences, FiniteSets

CONSTANTS Threads,        \* the threads that call the lock
          NoThread,       \* m_locking = nullptr
          NotifyOne,      \* TRUE: the __APPLE__ build, which signals one thread
          MaxDepth        \* bound on the nesting of one thread's acquisitions

ASSUME LockAssumption ==
    /\ NoThread \notin Threads
    /\ NotifyOne \in BOOLEAN
    /\ MaxDepth \in Nat \ {0}

VARIABLES readers,          \* m_readers
          writers,          \* m_writers
          pendingReaders,   \* m_pendingReaders
          pendingWriters,   \* m_pendingWriters, a list of threads
          locking,          \* m_locking
          threadedReaders,  \* m_threadedReaders, thread-local
          pc,               \* where a thread is: outside, or in one of the waits
          asleep            \* threads blocked in Conditional::wait, not notified

vars == <<readers, writers, pendingReaders, pendingWriters, locking,
          threadedReaders, pc, asleep>>

\* Types of the state.
TypeOK ==
    /\ readers \in Nat
    /\ writers \in Nat
    /\ pendingReaders \in Nat
    /\ pendingWriters \in Seq(Threads)
    /\ locking \in Threads \cup {NoThread}
    /\ threadedReaders \in [Threads -> Nat]
    /\ pc \in [Threads -> {"outside", "waitShared", "waitLock"}]
    /\ asleep \subseteq Threads

Init ==
    /\ readers = 0
    /\ writers = 0
    /\ pendingReaders = 0
    /\ pendingWriters = <<>>
    /\ locking = NoThread
    /\ threadedReaders = [t \in Threads |-> 0]
    /\ pc = [t \in Threads |-> "outside"]
    /\ asleep = {}

-----------------------------------------------------------------------------
\* Faulty variants, named Bug..., precede the definition they are a fault of.
BugNotifyNobody == asleep

\* m_conditionalWriters.notify(front) or notify_all, and
\* m_conditionalReaders.notify_all: who is still asleep afterwards.
NotifyWriters ==
    IF NotifyOne THEN asleep \ {Head(pendingWriters)}
                 ELSE {t \in asleep : pc[t] # "waitLock"}

NotifyReaders == {t \in asleep : pc[t] # "waitShared"}

BugNestedShareWaits(t) ==
    IF writers > 0 THEN locking # t ELSE pendingWriters # <<>>

\* The condition under which lockShared has to wait at its first test: held by
\* another thread, or somebody waits to lock and this thread shares nothing yet.
MustWaitToShare(t) ==
    IF writers > 0 THEN locking # t
    ELSE pendingWriters # <<>> /\ threadedReaders[t] = 0

AcquireShared(t) ==
    /\ readers' = readers + 1
    /\ threadedReaders' = [threadedReaders EXCEPT ![t] = @ + 1]
    /\ UNCHANGED <<writers, pendingWriters, locking>>

LockShared(t) ==
    /\ pc[t] = "outside"
    /\ threadedReaders[t] < MaxDepth
    /\ \/ /\ MustWaitToShare(t)
          /\ pendingReaders' = pendingReaders + 1
          /\ pc' = [pc EXCEPT ![t] = "waitShared"]
          /\ asleep' = asleep \cup {t}
          /\ UNCHANGED <<readers, writers, pendingWriters, locking, threadedReaders>>
       \/ /\ ~MustWaitToShare(t)
          /\ AcquireShared(t)
          /\ UNCHANGED <<pendingReaders, pc, asleep>>

\* lockShared returns from the wait and tests its loop condition.
LockSharedAwake(t) ==
    /\ pc[t] = "waitShared"
    /\ t \notin asleep
    /\ \/ /\ writers > 0 \/ pendingWriters # <<>>
          /\ asleep' = asleep \cup {t}
          /\ UNCHANGED <<readers, writers, pendingReaders, pendingWriters, locking,
                         threadedReaders, pc>>
       \/ /\ writers = 0 /\ pendingWriters = <<>>
          /\ pendingReaders' = pendingReaders - 1
          /\ pc' = [pc EXCEPT ![t] = "outside"]
          /\ AcquireShared(t)
          /\ UNCHANGED asleep

UnlockShared(t) ==
    /\ pc[t] = "outside"
    /\ threadedReaders[t] > 0
    /\ threadedReaders' = [threadedReaders EXCEPT ![t] = @ - 1]
    /\ readers' = readers - 1
    /\ asleep' = IF readers' = 0 /\ writers = 0 /\ pendingWriters # <<>>
                 THEN NotifyWriters ELSE asleep
    /\ UNCHANGED <<writers, pendingReaders, pendingWriters, locking, pc>>

\* The loop condition of lock.
MustWaitToLock(t, queue) == readers > 0 \/ writers > 0 \/ Head(queue) # t

AcquireLock(t) ==
    /\ writers' = writers + 1
    /\ locking' = t
    /\ UNCHANGED <<readers, pendingReaders, threadedReaders>>

Lock(t) ==
    /\ pc[t] = "outside"
    /\ threadedReaders[t] = 0
    /\ \/ /\ locking = t
          /\ writers < MaxDepth
          /\ AcquireLock(t)
          /\ UNCHANGED <<pendingWriters, pc, asleep>>
       \/ /\ locking # t
          /\ MustWaitToLock(t, Append(pendingWriters, t))
          /\ pendingWriters' = Append(pendingWriters, t)
          /\ pc' = [pc EXCEPT ![t] = "waitLock"]
          /\ asleep' = asleep \cup {t}
          /\ UNCHANGED <<readers, writers, pendingReaders, locking, threadedReaders>>
       \/ /\ locking # t
          /\ ~MustWaitToLock(t, Append(pendingWriters, t))
          /\ AcquireLock(t)
          /\ UNCHANGED <<pendingWriters, pc, asleep>>

\* lock returns from the wait and tests its loop condition.
LockAwake(t) ==
    /\ pc[t] = "waitLock"
    /\ t \notin asleep
    /\ \/ /\ MustWaitToLock(t, pendingWriters)
          /\ asleep' = asleep \cup {t}
          /\ UNCHANGED <<readers, writers, pendingReaders, pendingWriters, locking,
                         threadedReaders, pc>>
       \/ /\ ~MustWaitToLock(t, pendingWriters)
          /\ pendingWriters' = Tail(pendingWriters)
          /\ pc' = [pc EXCEPT ![t] = "outside"]
          /\ AcquireLock(t)
          /\ UNCHANGED asleep

BugUnlockFreesNested(t) ==
    /\ pc[t] = "outside"
    /\ threadedReaders[t] = 0
    /\ locking = t
    /\ writers' = 0
    /\ locking' = NoThread
    /\ asleep' = IF pendingWriters # <<>> THEN NotifyWriters ELSE NotifyReaders
    /\ UNCHANGED <<readers, pendingReaders, pendingWriters, threadedReaders, pc>>

Unlock(t) ==
    /\ pc[t] = "outside"
    /\ threadedReaders[t] = 0
    /\ locking = t
    /\ writers' = writers - 1
    /\ \/ /\ writers' > 0
          /\ UNCHANGED <<locking, asleep>>
       \/ /\ writers' = 0
          /\ locking' = NoThread
          /\ asleep' = IF pendingWriters # <<>> THEN NotifyWriters
                       ELSE IF pendingReaders > 0 THEN NotifyReaders
                       ELSE asleep
    /\ UNCHANGED <<readers, pendingReaders, pendingWriters, threadedReaders, pc>>

\* A wait may return although nobody notified.
SpuriousWakeup(t) ==
    /\ t \in asleep
    /\ asleep' = asleep \ {t}
    /\ UNCHANGED <<readers, writers, pendingReaders, pendingWriters, locking,
                   threadedReaders, pc>>

Next == \E t \in Threads :
    \/ LockShared(t)
    \/ LockSharedAwake(t)
    \/ UnlockShared(t)
    \/ Lock(t)
    \/ LockAwake(t)
    \/ Unlock(t)
    \/ SpuriousWakeup(t)

Spec == Init /\ [][Next]_vars

\* The scheduler runs a thread that can leave a wait.
Fairness == \A t \in Threads : WF_vars(LockSharedAwake(t)) /\ WF_vars(LockAwake(t))
FairSpec == Spec /\ Fairness

-----------------------------------------------------------------------------
Level(t) == IF locking = t THEN "Write"
            ELSE IF threadedReaders[t] > 0 THEN "Read" ELSE "None"

\* Mutual exclusion, as the callers rely on it: while a thread holds the write
\* lock no other thread holds any share (readers of the writer itself are fine).
Exclusion ==
    \A t, u \in Threads : Level(t) = "Write" /\ u # t => Level(u) = "None"

\* The shared counters agree with the thread-local ones: m_readers counts exactly
\* the shares held, m_writers is positive exactly while a thread is m_locking, and
\* m_pendingReaders counts exactly the readers inside the wait.
Shares == {s \in Threads \X (1 .. MaxDepth) : s[2] <= threadedReaders[s[1]]}
InSharedWait == {t \in Threads : pc[t] = "waitShared"}

CountersAgree ==
    /\ \A t \in Threads : threadedReaders[t] <= MaxDepth
    /\ readers = Cardinality(Shares)
    /\ writers > 0 <=> locking # NoThread
    /\ pendingReaders = Cardinality(InSharedWait)

\* m_pendingWriters holds each waiting writer once, and nobody else: pop_front in
\* lock() removes the caller's own entry.
QueueIsWaiters ==
    /\ \A i, j \in DOMAIN pendingWriters : pendingWriters[i] = pendingWriters[j] => i = j
    /\ \A t \in Threads : pc[t] = "waitLock" <=>
                          \E i \in DOMAIN pendingWriters : pendingWriters[i] = t

\* No wake-up is lost.  When the lock is free the writer at the front of the queue
\* is awake, and a reader sleeps only while a writer holds or awaits the lock.
NoLostWakeup ==
    /\ (readers = 0 /\ writers = 0 /\ pendingWriters # <<>>)
         => Head(pendingWriters) \notin asleep
    /\ \A t \in asleep : pc[t] = "waitShared" => writers > 0 \/ pendingWriters # <<>>

\* A thread inside a wait holds nothing of this lock, so a waiter never blocks the
\* thread it waits for (a reentrant reader is let through past pending writers).
WaitersHoldNothing ==
    \A t \in Threads : pc[t] # "outside" => Level(t) = "None"

\* The lock implements the abstract reentrant read-write lock: hidden behind the
\* counters, queues and wake-ups, every step acquires or releases as promised.
RW == INSTANCE ReadWriteLock WITH owner <- locking, depth <- writers,
                                  shares <- threadedReaders
ImplementsReadWriteLock == RW!RWSpec

\* Comment at Lock.cpp:71: a pending lock makes a new reader wait, so that the
\* pending writer does not starve.  Only a thread that already holds the lock may
\* still gain a share.
ReaderYields ==
    \A t \in Threads :
        threadedReaders'[t] > threadedReaders[t] /\ pendingWriters # <<>>
          => Level(t) # "None"
ReadersYield == [][ReaderYields]_vars

\* Writers get the lock in the order in which they began to wait: a new writer
\* enters only when it is first in the queue, or when the queue is empty.
FirstWriterEnters ==
    locking' # locking /\ locking' # NoThread
      => pendingWriters = <<>> \/ locking' = Head(pendingWriters)
WritersInOrder == [][FirstWriterEnters]_vars

\* Callers pair their calls: nobody who does not wait keeps the lock forever.
HoldsEnd == \A t \in Threads : []<>(Level(t) = "None" \/ pc[t] # "outside")

\* A writer that waits gets the lock, whatever the others do, if holders let go: a
\* reader that holds a share and asks for another one does not wait for the writer
\* that waits for its share.
WritersNotStarved ==
    HoldsEnd => \A t \in Threads : pc[t] = "waitLock" ~> locking = t

=============================================================================
