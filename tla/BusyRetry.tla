----------------------------- MODULE BusyRetry -----------------------------
(* core/config/BusyRetryConfig.cpp: how threads wait for SQLite's locks on  *)
(* one database file.  SQLite announces a lock it is about to take          *)
(* (willLock, willShmLock), calls the busy handler when it does not get it  *)
(* (onBusy, State::wait), and reports every change of the locks it holds    *)
(* (lockDidChange, shmLockDidChange), after the change took place.  The     *)
(* handler waits on what was reported, the main thread ahead of the others. *)
EXTENDS Integers, FiniteSets, FiniteSetsExt, Functions

CONSTANTS
    Threads,    \* threads, each with a connection of its own to the file
    Main,       \* the main thread
    NoThread,
    Setups      \* the uses of the file and the builds

\* What a thread asks for is a shm lock or a pager lock of a use of the file.
ASSUME BusyConstants ==
    /\ Main \in Threads /\ NoThread \notin Threads
    /\ \A s \in Setups : \A r \in s.requests :
         \/ r.type \in {1, 4} /\ r = [category |-> "Shm", type |-> r.type, bits |-> r.bits]
         \/ r.type \in 1..4 /\ r = [category |-> "Pager", type |-> r.type, bits |-> {}]

VARIABLES
    setup,      \* the use of the file and the build; it never changes
    pc,         \* what each thread is doing
    holds,      \* the locks SQLite really has for each thread's connection
    trying,     \* m_tryings: what each thread last announced
    shmMasks,   \* m_shmMasks: the reported shm locks, by connection
    pagerType,  \* m_pagerType: the last reported pager lock of any connection
    localPagerType, \* m_localPagerType, per thread
    pagerChangeTid, \* m_pagerChangeTid
    waitings,   \* m_waitings: the listed threads with their order
    mainThreadBusyTrying \* m_mainThreadBusyTrying # nullptr

vars == <<setup, pc, holds, trying, shmMasks, pagerType, localPagerType,
          pagerChangeTid, waitings, mainThreadBusyTrying>>

reported == <<shmMasks, pagerType, localPagerType, pagerChangeTid>>

Requests == setup.requests \* what a thread without locks may ask SQLite for
Apple == setup.apple       \* threads are notified one by one, not all together

(* Pager locks are numbered as in Global::PagerLock; a set of shm locks is  *)
(* the mask with those bits.                                                *)
NoLock == 0
Shared == 1
Reserved == 2
Pending == 3
Exclusive == 4

Mask(bits) == MapThenSumSet(LAMBDA b : 2^b, bits)

Free == [pager |-> NoLock, shared |-> {}, exclusive |-> {}]

Shm(type, bits) == [category |-> "Shm", type |-> type, bits |-> bits]

Pager(type) == [category |-> "Pager", type |-> type, bits |-> {}]

----------------------------------------------------------------------------
(* SQLite's lock manager: whether a connection gets a lock, and with it.    *)

Grants(t, r) ==
    \A u \in Threads \ {t} :
        CASE r.category = "Shm" /\ r.type = Shared ->
                r.bits \cap holds[u].exclusive = {}
          [] r.category = "Shm" /\ r.type = Exclusive ->
                r.bits \cap (holds[u].exclusive \cup holds[u].shared) = {}
          [] r.category = "Pager" /\ r.type = Shared -> holds[u].pager < Pending
          [] r.category = "Pager" /\ r.type = Reserved -> holds[u].pager < Reserved
          [] OTHER -> holds[u].pager = NoLock

With(l, r) ==
    IF r.category = "Pager" THEN [l EXCEPT !.pager = r.type]
    ELSE IF r.type = Shared THEN [l EXCEPT !.shared = @ \cup r.bits]
    ELSE [l EXCEPT !.exclusive = @ \cup r.bits]

----------------------------------------------------------------------------
(* Expecting and the tests on it.                                           *)

SatisfiedPager(r, type) ==
    r.category = "Pager" =>
        /\ r.type = Reserved => type < Reserved
        /\ r.type \in {Pending, Exclusive} => type = NoLock
        /\ r.type = Shared => type < Pending

SatisfiedShm(r, mask) ==
    r.category = "Shm" =>
        /\ r.bits \cap mask.exclusive = {}
        /\ r.type = Exclusive => r.bits \cap mask.shared = {}

\* As thread t sees it: it does not wait for a pager lock of its own.
ShouldWait(r, t, masks, type, local) ==
    \/ ~SatisfiedPager(r, type) /\ type # local[t]
    \/ \E c \in Threads : ~SatisfiedShm(r, masks[c])

BugLocalShouldWait(r, t) == pagerChangeTid = t /\ ~SatisfiedPager(r, pagerType)

\* Whether thread t itself stands in the way of r.
LocalShouldWait(r, t) ==
    \/ pagerChangeTid = t /\ ~SatisfiedPager(r, pagerType)
    \/ \E c \in Threads : shmMasks[c].tid = t /\ ~SatisfiedShm(r, shmMasks[c])

----------------------------------------------------------------------------
(* m_waitings, a UniqueList in ascending order: the main thread is first.   *)
(* tryNotify, called by thread t with the reported state as it just became, *)
(* looks at the waiting threads in order and gives up at a main thread that *)
(* still has to wait; what it tests is the expectation of the waiter with   *)
(* the local pager type of the caller.                                      *)

Must == 0       \* Exclusivity
NoMatter == 1

\* UniqueList::insert.
Inserted(t) ==
    [u \in DOMAIN waitings \cup {t} |->
        IF u # t THEN waitings[u] ELSE IF t = Main THEN Must ELSE NoMatter]

\* UniqueList::erase.
Erased(erased) == Restrict(waitings, DOMAIN waitings \ erased)

Blocked(u, t, masks, type, local) == ShouldWait(trying[u], t, masks, type, local)

\* The threads that are looked at: the ones before a main thread that has to wait.
Reach(t, masks, type, local) ==
    {u \in DOMAIN waitings : \A v \in DOMAIN waitings :
        waitings[v] = Must /\ Blocked(v, t, masks, type, local) => waitings[u] < waitings[v]}

TryNotify(t, masks, type, local) ==
    LET ready == {u \in Reach(t, masks, type, local) : ~Blocked(u, t, masks, type, local)}
        woken == IF Apple THEN ready
                 ELSE IF ready = {} THEN {}
                 ELSE {u \in Threads : pc[u] = "waiting"}
    IN  /\ pc' = [u \in Threads |-> IF u = t THEN "running"
                                   ELSE IF u \in woken THEN "notified" ELSE pc[u]]
        /\ waitings' = IF Apple THEN Erased(woken) ELSE waitings

NoNotify(t) == pc' = [pc EXCEPT ![t] = "running"] /\ UNCHANGED waitings

----------------------------------------------------------------------------
(* SQLite on thread t announces a lock and tries it.                        *)

WillLock(t, r) ==
    /\ pc[t] = "running" /\ holds[t] = Free
    /\ trying' = [trying EXCEPT ![t] = r]
    /\ pc' = [pc EXCEPT ![t] = "trying"]
    /\ UNCHANGED <<setup, holds, reported, waitings, mainThreadBusyTrying>>

\* A writer in a rollback journal goes on from Reserved to Exclusive.
WillUpgrade(t) ==
    /\ pc[t] = "running" /\ holds[t].pager = Reserved
    /\ trying' = [trying EXCEPT ![t] = Pager(Exclusive)]
    /\ pc' = [pc EXCEPT ![t] = "trying"]
    /\ UNCHANGED <<setup, holds, reported, waitings, mainThreadBusyTrying>>

TryLock(t) ==
    /\ pc[t] = "trying"
    /\ IF Grants(t, trying[t])
       THEN /\ holds' = [holds EXCEPT ![t] = With(@, trying[t])]
            /\ pc' = [pc EXCEPT ![t] = "changed"]
       ELSE /\ pc' = [pc EXCEPT ![t] = "busy"]
            /\ UNCHANGED holds
    /\ UNCHANGED <<setup, trying, reported, waitings, mainThreadBusyTrying>>

Release(t) ==
    /\ pc[t] = "running" /\ holds[t] # Free
    /\ holds' = [holds EXCEPT ![t] = Free]
    /\ pc' = [pc EXCEPT ![t] = "changed"]
    /\ UNCHANGED <<setup, trying, reported, waitings, mainThreadBusyTrying>>

\* lockDidChange: State::updatePagerLock.
LockDidChange(t) ==
    LET type == holds[t].pager
        local == [localPagerType EXCEPT ![t] = type]
    IN  /\ pc[t] = "changed" /\ trying[t].category = "Pager"
        /\ IF type # pagerType
           THEN /\ pagerType' = type
                /\ localPagerType' = local
                /\ pagerChangeTid' = t
                /\ IF type < pagerType THEN TryNotify(t, shmMasks, type, local)
                   ELSE NoNotify(t)
           ELSE NoNotify(t) /\ UNCHANGED <<pagerType, localPagerType, pagerChangeTid>>
        /\ UNCHANGED <<setup, holds, trying, shmMasks, mainThreadBusyTrying>>

BugShmLockDidChange(t) ==
    LET mask == [shared |-> holds[t].shared, exclusive |-> holds[t].exclusive, tid |-> t]
        masks == [shmMasks EXCEPT ![t] = mask]
    IN  /\ pc[t] = "changed" /\ trying[t].category = "Shm"
        /\ shmMasks' = masks
        /\ IF Mask(mask.shared) < Mask(shmMasks[t].shared)
           THEN TryNotify(t, masks, pagerType, localPagerType)
           ELSE NoNotify(t)
        /\ UNCHANGED <<setup, holds, trying, pagerType, localPagerType, pagerChangeTid,
                       mainThreadBusyTrying>>

\* shmLockDidChange: State::updateShmLock.
ShmLockDidChange(t) ==
    LET none == holds[t].shared = {} /\ holds[t].exclusive = {}
        mask == [shared |-> holds[t].shared, exclusive |-> holds[t].exclusive,
                 tid |-> IF none THEN NoThread ELSE t]
        masks == [shmMasks EXCEPT ![t] = mask]
    IN  /\ pc[t] = "changed" /\ trying[t].category = "Shm"
        /\ shmMasks' = masks
        /\ IF \/ none
              \/ Mask(mask.shared) < Mask(shmMasks[t].shared)
              \/ Mask(mask.exclusive) < Mask(shmMasks[t].exclusive)
           THEN TryNotify(t, masks, pagerType, localPagerType)
           ELSE NoNotify(t)
        /\ UNCHANGED <<setup, holds, trying, pagerType, localPagerType, pagerChangeTid,
                       mainThreadBusyTrying>>

----------------------------------------------------------------------------
(* State::wait.                                                             *)

BugWait(t) ==
    /\ pc[t] = "busy"
    /\ pc' = [pc EXCEPT ![t] = "waiting"]
    /\ waitings' = Inserted(t)
    /\ mainThreadBusyTrying' = (mainThreadBusyTrying \/ t = Main)
    /\ UNCHANGED <<setup, holds, trying, reported>>

\* One turn of the loop under the lock of the state, up to wait_for.
Wait(t) ==
    /\ pc[t] = "busy"
    /\ IF ShouldWait(trying[t], t, shmMasks, pagerType, localPagerType)
       THEN /\ pc' = [pc EXCEPT ![t] = "waiting"]
            /\ waitings' = Inserted(t)
            /\ mainThreadBusyTrying' = (mainThreadBusyTrying \/ t = Main)
       ELSE /\ pc' = [pc EXCEPT ![t] = "trying"]
            /\ UNCHANGED <<waitings, mainThreadBusyTrying>>
    /\ UNCHANGED <<setup, holds, trying, reported>>

\* wait_for runs out of time before a notification.
TimeOut(t) ==
    /\ pc[t] = "waiting"
    /\ pc' = [pc EXCEPT ![t] = "timedout"]
    /\ UNCHANGED <<setup, holds, trying, reported, waitings, mainThreadBusyTrying>>

\* The thread has the lock of the state again: notified, it looks whether it
\* still has to wait; timed out, it retries anyway.
WakesUp(t) ==
    /\ pc[t] \in {"notified", "timedout"}
    /\ pc' = [pc EXCEPT ![t] = IF pc[t] = "notified" THEN "busy" ELSE "trying"]
    /\ waitings' = Erased({t})
    /\ mainThreadBusyTrying' = (mainThreadBusyTrying /\ t # Main)
    /\ UNCHANGED <<setup, holds, trying, reported>>

----------------------------------------------------------------------------
Init ==
    /\ setup \in Setups
    /\ pc = [t \in Threads |-> "running"]
    /\ holds = [t \in Threads |-> Free]
    /\ trying = [t \in Threads |-> [category |-> "None", type |-> NoLock, bits |-> {}]]
    /\ shmMasks = [t \in Threads |->
                     [shared |-> {}, exclusive |-> {}, tid |-> NoThread]]
    /\ pagerType = NoLock
    /\ localPagerType = [t \in Threads |-> NoLock]
    /\ pagerChangeTid = NoThread
    /\ waitings = [t \in {} |-> NoMatter]
    /\ mainThreadBusyTrying = FALSE

Next ==
    \E t \in Threads :
        \/ \E r \in Requests : WillLock(t, r)
        \/ WillUpgrade(t) \/ TryLock(t) \/ Release(t)
        \/ LockDidChange(t) \/ ShmLockDidChange(t)
        \/ Wait(t) \/ TimeOut(t) \/ WakesUp(t)

Spec == Init /\ [][Next]_vars

----------------------------------------------------------------------------
\* A lock on record stands in the way of what t waits for.
MustWait(t) ==
    \/ ~SatisfiedPager(trying[t], pagerType)
    \/ \E c \in Threads : ~SatisfiedShm(trying[t], shmMasks[c])

\* A lock on record, no shm lock of its own, stands in the way of the main thread.
MainHeldUp ==
    \/ ~SatisfiedPager(trying[Main], pagerType)
    \/ \E c \in Threads \ {Main} : ~SatisfiedShm(trying[Main], shmMasks[c])

(* Types of the state. *)
TypeOK ==
    /\ setup \in Setups
    /\ pc \in [Threads -> {"running", "trying", "changed", "busy", "waiting",
                           "notified", "timedout"}]
    /\ \A t \in Threads :
         /\ trying[t].category \in {"None", "Shm", "Pager"}
         /\ trying[t].category = "Pager" => trying[t].type \in Shared..Exclusive
         /\ holds[t] = [pager |-> holds[t].pager, shared |-> holds[t].shared,
                        exclusive |-> holds[t].exclusive]
         /\ holds[t].pager \in NoLock..Exclusive
    /\ DOMAIN trying = Threads /\ DOMAIN holds = Threads /\ DOMAIN shmMasks = Threads
    /\ pagerType \in NoLock..Exclusive
    /\ localPagerType \in [Threads -> NoLock..Exclusive]
    /\ pagerChangeTid \in Threads \cup {NoThread}
    /\ waitings \in [DOMAIN waitings -> {Must, NoMatter}] /\ DOMAIN waitings \subseteq Threads
    /\ mainThreadBusyTrying \in BOOLEAN

(* No lost wake-up: a thread that sleeps is on the list of those to be       *)
(* notified, and it sleeps although what it waits for was reported free only *)
(* while a lock on record holds up the main thread, which goes first.        *)
NoLostWakeup ==
    \A t \in Threads :
        pc[t] = "waiting" =>
            /\ t \in DOMAIN waitings
            /\ MustWait(t) \/ MainHeldUp

(* When nobody holds a lock and every change was reported, no lock is on    *)
(* record and nobody sleeps: what was reported last is never left behind.   *)
QuietMeansFree ==
    (\A t \in Threads : holds[t] = Free /\ pc[t] # "changed")
        => /\ pagerType = NoLock
           /\ \A t \in Threads : shmMasks[t].shared \cup shmMasks[t].exclusive = {}
           /\ \A t \in Threads : pc[t] # "waiting"

(* A pausable transaction lets the main thread in: while the main thread    *)
(* sleeps for a shm lock another thread has reported, checkMainThreadBusy-  *)
(* Retry is true for that thread and for no thread without a lock.          *)
HolderSeesMainThread ==
    pc[Main] = "waiting" /\ trying[Main].category = "Shm" =>
        \A t \in Threads \ {Main} :
            pc[t] = "running" =>
                (mainThreadBusyTrying /\ LocalShouldWait(trying[Main], t)
                    <=> ~SatisfiedShm(trying[Main], holds[t]))

=============================================================================
