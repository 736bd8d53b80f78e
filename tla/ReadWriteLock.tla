--------------------------- MODULE ReadWriteLock ---------------------------
(***************************************************************************)
(* What SharedLock promises its callers, with no queues, counters, mutex or *)
(* condition variables: a reentrant read-write lock in which the owner may   *)
(* also share.  Each acquisition is one step that happens when it may.       *)
(***************************************************************************)
EXTENDS Naturals

CONSTANTS Threads, NoThread

VARIABLES owner,   \* the thread that holds the lock exclusively
          depth,   \* how many times it holds it
          shares   \* how many shares each thread holds

rwVars == <<owner, depth, shares>>

RWInit ==
    /\ owner = NoThread
    /\ depth = 0
    /\ shares = [t \in Threads |-> 0]

Share(t) ==
    /\ owner \in {NoThread, t}
    /\ shares' = [shares EXCEPT ![t] = @ + 1]
    /\ UNCHANGED <<owner, depth>>

Unshare(t) ==
    /\ shares[t] > 0
    /\ shares' = [shares EXCEPT ![t] = @ - 1]
    /\ UNCHANGED <<owner, depth>>

Acquire(t) ==
    /\ shares[t] = 0
    /\ \/ owner = t
       \/ owner = NoThread /\ \A u \in Threads : shares[u] = 0
    /\ owner' = t
    /\ depth' = depth + 1
    /\ UNCHANGED shares

Release(t) ==
    /\ owner = t
    /\ shares[t] = 0
    /\ depth' = depth - 1
    /\ owner' = IF depth = 1 THEN NoThread ELSE t
    /\ UNCHANGED shares

RWNext == \E t \in Threads : Share(t) \/ Unshare(t) \/ Acquire(t) \/ Release(t)

RWSpec == RWInit /\ [][RWNext]_rwVars
=============================================================================
