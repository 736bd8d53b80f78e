---------------------------- MODULE HandleProofs ----------------------------
(* Proofs about what a handle does when SQLite is busy and about its        *)
(* transactions.                                                            *)
(*                                                                          *)
(* BusyRetry, for any set of threads, any locks that the uses of the file   *)
(* ask for, and both builds.  The argument: what is on record differs from  *)
(* what SQLite granted only for a thread about to report, and there a       *)
(* report of a release finds every waiter that it can free, or finds the    *)
(* main thread first in the list and held up.  From then on the lock that   *)
(* holds up the main thread stays on record until its release is reported,  *)
(* or until the main thread itself has got it and released it: both wake    *)
(* whoever was passed over.                                                 *)
(*                                                                          *)
(* Transaction, for every set of writes, every kind of application and any  *)
(* number of nested calls, failing statements and savepoints.               *)
EXTENDS BusyRetry, Transaction, TLAPS

----------------------------------------------------------------------------
(* BusyRetry.                                                               *)

Asking == {"trying", "busy", "waiting", "notified", "timedout"}
Listed == {"waiting", "notified", "timedout"}

\* A connection holds locks of the kind its thread asked for last, and while
\* it asks for a shm lock it holds none.
OneKind ==
    \A t \in Threads :
        /\ trying[t].category # "Pager" => holds[t].pager = NoLock
        /\ trying[t].category # "Shm" \/ pc[t] \in Asking =>
              holds[t].shared = {} /\ holds[t].exclusive = {}
        /\ trying[t].category = "None" => pc[t] = "running"

\* A shm mask is what the connection holds, unless the thread is about to
\* report the first lock or the release of all of them.
MasksTrue ==
    \A t \in Threads :
        /\ ~(pc[t] = "changed" /\ trying[t].category = "Shm") =>
              shmMasks[t].shared = holds[t].shared /\ shmMasks[t].exclusive = holds[t].exclusive
        /\ pc[t] = "changed" /\ trying[t].category = "Shm" =>
              \/ holds[t].shared = {} /\ holds[t].exclusive = {}
              \/ shmMasks[t].shared = {} /\ shmMasks[t].exclusive = {}
        /\ shmMasks[t].tid = IF shmMasks[t].shared = {} /\ shmMasks[t].exclusive = {}
                             THEN NoThread ELSE t

\* A pager lock on record is held by who reported it last, or about to go.
PagerTrue ==
    pagerType # NoLock =>
        /\ pagerChangeTid \in Threads
        /\ \/ holds[pagerChangeTid].pager = pagerType
           \/ pc[pagerChangeTid] = "changed" /\ trying[pagerChangeTid].category = "Pager"

\* The list, and the mark of the main thread.
ListTrue ==
    /\ \A t \in Threads : pc[t] = "waiting" => t \in DOMAIN waitings
    /\ \A t \in DOMAIN waitings :
          pc[t] \in Listed /\ waitings[t] = IF t = Main THEN Must ELSE NoMatter
    /\ mainThreadBusyTrying <=> pc[Main] \in Listed

\* Nobody is passed over once the main thread has reported its release.
PassedOver ==
    \A t \in Threads : pc[t] = "waiting" =>
        \/ MustWait(t)
        \/ MainHeldUp /\ ~(pc[Main] = "running" /\ holds[Main] = Free)

BusyIInv == TypeOK /\ OneKind /\ MasksTrue /\ PagerTrue /\ ListTrue /\ PassedOver

----------------------------------------------------------------------------
(* Requests and the locks on record.                                        *)

Pcs == {"running", "trying", "changed", "busy", "waiting", "notified", "timedout"}

\* A pager request is for one of the locks.
Proper(r) == r.category = "Pager" => r.type \in Shared..Exclusive

\* The requests of a use of the file are what the busy handler knows.
LEMMA RequestsAreProper ==
    ASSUME TypeOK, NEW r \in Requests
    PROVE  r.category \in {"Shm", "Pager"} /\ Proper(r)
BY BusyConstants DEF TypeOK, Requests, Proper, Shared, Exclusive

\* Where no lock is on record nobody has to wait.
LEMMA NothingToWaitFor ==
    ASSUME NEW r, Proper(r)
    PROVE  /\ SatisfiedPager(r, NoLock)
           /\ \A mask : mask.shared = {} /\ mask.exclusive = {} => SatisfiedShm(r, mask)
BY DEF Proper, SatisfiedPager, SatisfiedShm, NoLock, Shared, Reserved, Pending, Exclusive

\* A stronger pager lock on record satisfies no more than a weaker one.
LEMMA StrongerPager ==
    ASSUME NEW r, Proper(r), NEW low \in NoLock..Exclusive, NEW high \in NoLock..Exclusive,
           low <= high, ~SatisfiedPager(r, low)
    PROVE  ~SatisfiedPager(r, high)
BY DEF Proper, SatisfiedPager, NoLock, Shared, Reserved, Pending, Exclusive

\* Who is blocked, as some thread sees it, has to wait for a lock on record.
LEMMA BlockedMustWait ==
    ASSUME NEW t, NEW u, NEW masks, NEW type, NEW local, Blocked(u, t, masks, type, local)
    PROVE  \/ ~SatisfiedPager(trying[u], type)
           \/ \E c \in Threads : ~SatisfiedShm(trying[u], masks[c])
BY DEF Blocked, ShouldWait

\* Steps that report nothing leave who has to wait as it was.
LEMMA SameRecord ==
    ASSUME UNCHANGED <<shmMasks, pagerType>>
    PROVE  /\ \A u : trying'[u] = trying[u] => (MustWait(u)' <=> MustWait(u))
           /\ trying'[Main] = trying[Main] => (MainHeldUp' <=> MainHeldUp)
BY DEF MustWait, MainHeldUp

\* Free is no lock of any kind.
LEMMA FreeIsNone ==
    ASSUME TypeOK, NEW t \in Threads
    PROVE  holds[t] = Free <=> /\ holds[t].pager = NoLock
                               /\ holds[t].shared = {} /\ holds[t].exclusive = {}
BY DEF TypeOK, Free

----------------------------------------------------------------------------
(* tryNotify.                                                               *)

\* A report moves the thread that makes it on, and wakes none but listed ones.
LEMMA ReportWakes ==
    ASSUME TypeOK, ListTrue, NEW t \in Threads, pc[t] = "changed",
           NEW masks, NEW type, NEW local,
           TryNotify(t, masks, type, local) \/ NoNotify(t), UNCHANGED mainThreadBusyTrying
    PROVE  /\ pc' \in [Threads -> Pcs] /\ pc'[t] = "running"
           /\ \A u \in Threads \ {t} :
                 pc'[u] = pc[u] \/ (pc[u] \in Listed /\ pc'[u] = "notified")
           /\ waitings' \in [DOMAIN waitings' -> {Must, NoMatter}] /\ DOMAIN waitings' \subseteq Threads
           /\ ListTrue'
<1>1. t \notin DOMAIN waitings BY DEF ListTrue, Listed
<1>2. CASE NoNotify(t)
  <2>1. pc' = [pc EXCEPT ![t] = "running"] /\ waitings' = waitings BY <1>2 DEF NoNotify
  <2>2. pc' \in [Threads -> Pcs] /\ pc'[t] = "running" /\ \A u \in Threads \ {t} : pc'[u] = pc[u]
    BY <2>1 DEF TypeOK, Pcs
  <2>3. ListTrue' BY <1>1, <2>1, <2>2, BusyConstants DEF ListTrue, Listed, TypeOK
  <2>4. QED BY <2>1, <2>2, <2>3 DEF TypeOK
<1>3. CASE TryNotify(t, masks, type, local)
  <2> DEFINE ready == {u \in Reach(t, masks, type, local) : ~Blocked(u, t, masks, type, local)}
             woken == IF Apple THEN ready
                      ELSE IF ready = {} THEN {}
                      ELSE {u \in Threads : pc[u] = "waiting"}
  <2>1. /\ pc' = [u \in Threads |-> IF u = t THEN "running"
                                   ELSE IF u \in woken THEN "notified" ELSE pc[u]]
        /\ waitings' = IF Apple THEN Erased(woken) ELSE waitings
    BY <1>3 DEF TryNotify
  <2>2. ready \subseteq DOMAIN waitings BY DEF Reach
  <2>3. \A u \in woken : u \in Threads /\ pc[u] \in Listed
    BY <2>2 DEF ListTrue, TypeOK, Listed
  <2>4. Apple \/ \A u \in woken : pc[u] = "waiting" OBVIOUS
  <2> HIDE DEF ready, woken
  <2>5. pc' \in [Threads -> Pcs] /\ pc'[t] = "running"
        /\ \A u \in Threads \ {t} : pc'[u] = IF u \in woken THEN "notified" ELSE pc[u]
    BY <2>1 DEF TypeOK, Pcs
  <2>6. /\ DOMAIN waitings' \subseteq DOMAIN waitings
        /\ \A u \in DOMAIN waitings' : waitings'[u] = waitings[u]
        /\ \A u \in DOMAIN waitings \ woken : u \in DOMAIN waitings'
        /\ waitings' = [u \in DOMAIN waitings' |-> waitings'[u]]
    BY <2>1, Zenon DEF Erased, Restrict, TypeOK
  <2>7. waitings' \in [DOMAIN waitings' -> {Must, NoMatter}] /\ DOMAIN waitings' \subseteq Threads
    BY <2>6 DEF TypeOK
  <2>8. \A u \in Threads : pc'[u] = "waiting" => u \in DOMAIN waitings'
    BY <2>5, <2>6 DEF ListTrue
  <2>9. \A u \in DOMAIN waitings' :
          pc'[u] \in Listed /\ waitings'[u] = IF u = Main THEN Must ELSE NoMatter
    BY <1>1, <2>5, <2>6, <2>7 DEF ListTrue, Listed
  <2>10. pc'[Main] \in Listed <=> pc[Main] \in Listed
    BY <2>3, <2>5, BusyConstants DEF Listed
  <2>11. ListTrue' BY <2>8, <2>9, <2>10 DEF ListTrue
  <2>12. QED BY <2>3, <2>5, <2>7, <2>11
<1>4. QED BY <1>2, <1>3

\* Whoever sleeps after tryNotify was looked at and has to wait, unless the list
\* was left at the main thread.
LEMMA NotifyFinds ==
    ASSUME TypeOK, ListTrue, NEW t \in Threads, pc[t] = "changed",
           NEW masks, NEW type, NEW local, TryNotify(t, masks, type, local)
    PROVE  \/ \A u \in Threads : pc'[u] = "waiting" => Blocked(u, t, masks, type, local)
           \/ pc[Main] \in Listed /\ Blocked(Main, t, masks, type, local)
<1> DEFINE ready == {u \in Reach(t, masks, type, local) : ~Blocked(u, t, masks, type, local)}
           woken == IF Apple THEN ready
                    ELSE IF ready = {} THEN {}
                    ELSE {u \in Threads : pc[u] = "waiting"}
<1>1. pc' = [u \in Threads |-> IF u = t THEN "running"
                               ELSE IF u \in woken THEN "notified" ELSE pc[u]]
  BY DEF TryNotify
<1>2. CASE Main \in DOMAIN waitings /\ Blocked(Main, t, masks, type, local)
  BY <1>2 DEF ListTrue
<1>3. CASE ~(Main \in DOMAIN waitings /\ Blocked(Main, t, masks, type, local))
  <2>1. \A v \in DOMAIN waitings : waitings[v] = Must => v = Main
    BY DEF ListTrue, Must, NoMatter
  <2>2. \A u \in DOMAIN waitings : ~Blocked(u, t, masks, type, local) => u \in ready
    BY <1>3, <2>1 DEF Reach
  <2> HIDE DEF ready
  <2>3. ASSUME NEW u \in Threads, pc'[u] = "waiting" PROVE Blocked(u, t, masks, type, local)
    <3>1. u # t /\ u \notin woken /\ pc[u] = "waiting" BY <1>1, <2>3
    <3>2. u \in DOMAIN waitings BY <3>1 DEF ListTrue
    <3>3. CASE Apple BY <2>2, <3>1, <3>2, <3>3
    <3>4. CASE ~Apple BY <2>2, <3>1, <3>2, <3>4
    <3>5. QED BY <3>3, <3>4
  <2>4. QED BY <2>3
<1>4. QED BY <1>2, <1>3

----------------------------------------------------------------------------
(* Steps that report nothing.                                               *)

\* The thread announces a lock.
Asks(t, r) ==
    /\ pc[t] = "running"
    /\ trying' = [trying EXCEPT ![t] = r] /\ pc' = [pc EXCEPT ![t] = "trying"]
    /\ UNCHANGED <<setup, holds, reported, waitings, mainThreadBusyTrying>>

\* A thread that begins to ask for a lock: willLock.
LEMMA AskStep ==
    ASSUME BusyIInv, NEW t \in Threads, NEW r, r.category \in {"Shm", "Pager"}, Proper(r),
           Asks(t, r),
           holds[t] = Free \/ (trying[t].category = "Pager" /\ r = Pager(Exclusive))
    PROVE  BusyIInv'
<1>1. TypeOK /\ UNCHANGED <<setup, holds, shmMasks, pagerType, localPagerType, pagerChangeTid,
                            waitings, mainThreadBusyTrying>>
  BY DEF BusyIInv, Asks, reported
<1>2. /\ trying'[t] = r /\ pc'[t] = "trying" /\ DOMAIN trying' = Threads
      /\ \A u \in Threads \ {t} : trying'[u] = trying[u] /\ pc'[u] = pc[u]
      /\ pc' \in [Threads -> Pcs] /\ pc[t] = "running"
  BY <1>1 DEF TypeOK, Pcs, Asks
<1>3. TypeOK'
  BY <1>1, <1>2 DEF TypeOK, Proper, Pcs
<1>4. OneKind'
  BY <1>1, <1>2, FreeIsNone DEF BusyIInv, OneKind, Pager, Asking
<1>5. MasksTrue'
  BY <1>1, <1>2 DEF BusyIInv, MasksTrue
<1>6. PagerTrue'
  BY <1>1, <1>2, FreeIsNone DEF BusyIInv, PagerTrue
<1>7. ListTrue'
  BY <1>1, <1>2, BusyConstants DEF BusyIInv, ListTrue, Listed, TypeOK
<1>8. PassedOver'
  <2>1. ASSUME NEW u \in Threads, pc'[u] = "waiting"
        PROVE  \/ MustWait(u)'
               \/ MainHeldUp' /\ ~(pc'[Main] = "running" /\ holds'[Main] = Free)
    <3>1. u # t /\ pc[u] = "waiting" /\ (MustWait(u)' <=> MustWait(u))
      BY <1>1, <1>2, <2>1, SameRecord
    <3>2. CASE MustWait(u) BY <3>1, <3>2
    <3>3. CASE ~MustWait(u) /\ t # Main
      BY <1>1, <1>2, <3>1, <3>3, SameRecord, BusyConstants DEF BusyIInv, PassedOver
    <3>4. CASE ~MustWait(u) /\ t = Main
      <4>1. MainHeldUp /\ holds[Main] # Free BY <1>2, <3>1, <3>4 DEF BusyIInv, PassedOver
      <4>2. trying[Main].category = "Pager" /\ r = Pager(Exclusive) BY <3>4, <4>1
      <4>3. ~SatisfiedPager(trying[Main], pagerType)
        BY <4>1, <4>2 DEF MainHeldUp, SatisfiedShm
      <4>4. pagerType # NoLock
        BY <1>1, <3>4, <4>3, NothingToWaitFor DEF TypeOK, Proper
      <4>5. ~SatisfiedPager(r, pagerType)
        BY <1>1, <4>2, <4>4 DEF SatisfiedPager, Pager, Reserved, Pending, Exclusive, Shared
      <4>6. QED BY <1>1, <1>2, <3>4, <4>5 DEF MainHeldUp
    <3>5. QED BY <3>2, <3>3, <3>4
  <2>2. QED BY <2>1 DEF PassedOver
<1>9. QED BY <1>3, <1>4, <1>5, <1>6, <1>7, <1>8 DEF BusyIInv

\* SQLite grants the lock or is busy, and releases locks.
LEMMA SQLiteSteps ==
    ASSUME BusyIInv, NEW t \in Threads, TryLock(t) \/ Release(t)
    PROVE  BusyIInv'
<1> DEFINE l == holds'[t]
<1>1. TypeOK /\ UNCHANGED <<setup, trying, waitings, mainThreadBusyTrying, shmMasks, pagerType,
                            localPagerType, pagerChangeTid>>
  BY DEF BusyIInv, TryLock, Release, reported
<1>2. /\ pc[t] \in {"trying", "running"} /\ pc'[t] \in {"changed", "busy"}
      /\ \A u \in Threads \ {t} : pc'[u] = pc[u] /\ holds'[u] = holds[u]
      /\ pc' \in [Threads -> Pcs] /\ DOMAIN holds' = Threads
  BY <1>1 DEF TypeOK, TryLock, Release, Pcs
<1>3. \/ pc'[t] = "busy" /\ pc[t] = "trying" /\ l = holds[t]
      \/ pc'[t] = "changed" /\ pc[t] = "running" /\ l = Free /\ holds[t] # Free
      \/ pc'[t] = "changed" /\ pc[t] = "trying" /\ l = With(holds[t], trying[t])
         /\ Grants(t, trying[t])
  BY <1>1 DEF TypeOK, TryLock, Release
<1>4. /\ l = [pager |-> l.pager, shared |-> l.shared, exclusive |-> l.exclusive]
      /\ l.pager \in NoLock..Exclusive
      /\ trying[t].category # "Pager" => l.pager = NoLock
      /\ trying[t].category # "Shm" => l.shared = {} /\ l.exclusive = {}
      /\ trying[t].category # "None"
  <2>0. trying[t].category \in {"Shm", "Pager"}
    BY <1>1, <1>3, FreeIsNone DEF TypeOK, BusyIInv, OneKind
  <2>1. CASE l = holds[t] BY <1>1, <2>0, <2>1 DEF TypeOK, BusyIInv, OneKind
  <2>2. CASE l = Free BY <2>0, <2>2 DEF Free, NoLock, Exclusive
  <2>3. CASE l = With(holds[t], trying[t])
    <3>1. CASE trying[t].category = "Pager"
      BY <1>1, <2>3, <3>1 DEF With, TypeOK, BusyIInv, OneKind, Shared, Exclusive, NoLock
    <3>2. CASE trying[t].category = "Shm"
      <4>1. trying[t].category # "Pager" BY <3>2
      <4>2. CASE trying[t].type = Shared
        BY <1>1, <2>0, <2>3, <4>1, <4>2, Zenon DEF With, TypeOK, BusyIInv, OneKind
      <4>3. CASE trying[t].type # Shared
        BY <1>1, <2>0, <2>3, <4>1, <4>3, Zenon DEF With, TypeOK, BusyIInv, OneKind
      <4>4. QED BY <3>2, <4>2, <4>3
    <3>3. QED BY <2>0, <3>1, <3>2
  <2>4. QED BY <1>3, <2>0, <2>1, <2>2, <2>3
<1> HIDE DEF l
<1>5. TypeOK'
  BY <1>1, <1>2, <1>4, SMTT(30) DEF TypeOK, Pcs, l
<1>6. OneKind'
  BY <1>1, <1>2, <1>3, <1>4 DEF BusyIInv, OneKind, Asking, l
<1>7. MasksTrue'
  <2>1. ~(pc[t] = "changed" /\ trying[t].category = "Shm") BY <1>2
  <2>2. pc[t] = "trying" /\ trying[t].category = "Shm"
        => shmMasks[t].shared = {} /\ shmMasks[t].exclusive = {}
    BY <2>1 DEF BusyIInv, MasksTrue, OneKind, Asking
  <2>3. l = Free => l.shared = {} /\ l.exclusive = {} BY DEF Free
  <2>4. ~(pc'[t] = "changed" /\ trying[t].category = "Shm")
        => shmMasks[t].shared = l.shared /\ shmMasks[t].exclusive = l.exclusive
    BY <1>2, <1>3, <1>4, <2>1, Zenon DEF BusyIInv, MasksTrue, OneKind
  <2>5. QED BY <1>1, <1>2, <1>3, <2>1, <2>2, <2>3, <2>4 DEF BusyIInv, MasksTrue, l
<1>8. PagerTrue'
  <2>1. pc'[t] = "changed" /\ holds[t].pager # NoLock => trying[t].category = "Pager"
    BY DEF BusyIInv, OneKind
  <2>2. QED BY <1>1, <1>2, <1>3, <2>1 DEF BusyIInv, PagerTrue, l
<1>9. ListTrue'
  BY <1>1, <1>2, BusyConstants, Zenon DEF BusyIInv, ListTrue, Listed, TypeOK
<1>10. PassedOver'
  <2>1. \A u \in Threads : pc'[u] = "waiting" => pc[u] = "waiting" /\ u # t BY <1>2
  <2>2. pc'[Main] = "running" => pc[Main] = "running" /\ holds'[Main] = holds[Main]
    BY <1>2, BusyConstants
  <2>3. QED BY <1>1, <2>1, <2>2, SameRecord DEF BusyIInv, PassedOver
<1>11. QED BY <1>5, <1>6, <1>7, <1>8, <1>9, <1>10 DEF BusyIInv

\* State::wait up to wait_for, its time-out, and the return from it.
LEMMA WaitSteps ==
    ASSUME BusyIInv, NEW t \in Threads, Wait(t) \/ TimeOut(t) \/ WakesUp(t)
    PROVE  BusyIInv'
<1>1. TypeOK /\ UNCHANGED <<setup, holds, trying, shmMasks, pagerType, localPagerType,
                            pagerChangeTid>>
  BY DEF BusyIInv, Wait, TimeOut, WakesUp, reported
<1>2. /\ pc[t] \in Asking /\ pc'[t] \in Asking
      /\ \A u \in Threads \ {t} : pc'[u] = pc[u]
      /\ pc' \in [Threads -> Pcs]
  BY <1>1, SMTT(30) DEF TypeOK, Wait, TimeOut, WakesUp, Pcs, Asking
<1>3. \/ /\ pc[t] = "busy" /\ pc'[t] = "waiting" /\ MustWait(t) /\ waitings' = Inserted(t)
         /\ mainThreadBusyTrying' = (mainThreadBusyTrying \/ t = Main)
      \/ /\ pc[t] = "busy" /\ pc'[t] = "trying" /\ UNCHANGED <<waitings, mainThreadBusyTrying>>
      \/ /\ pc[t] = "waiting" /\ pc'[t] = "timedout"
         /\ UNCHANGED <<waitings, mainThreadBusyTrying>>
      \/ /\ pc[t] \in {"notified", "timedout"} /\ pc'[t] \in {"busy", "trying"}
         /\ waitings' = Erased({t})
         /\ mainThreadBusyTrying' = (mainThreadBusyTrying /\ t # Main)
  BY <1>1 DEF TypeOK, Wait, TimeOut, WakesUp, ShouldWait, MustWait
<1>4. /\ mainThreadBusyTrying' \in BOOLEAN /\ (mainThreadBusyTrying' <=> pc'[Main] \in Listed)
      /\ waitings' = [u \in DOMAIN waitings' |-> waitings'[u]]
      /\ DOMAIN waitings' \subseteq Threads
      /\ \A u \in Threads : pc'[u] = "waiting" => u \in DOMAIN waitings'
      /\ \A u \in DOMAIN waitings' :
            pc'[u] \in Listed /\ waitings'[u] = IF u = Main THEN Must ELSE NoMatter
  <2>1. CASE waitings' = Inserted(t) /\ pc'[t] = "waiting"
             /\ mainThreadBusyTrying' = (mainThreadBusyTrying \/ t = Main)
    BY <1>1, <1>2, <2>1, BusyConstants, Zenon DEF BusyIInv, TypeOK, ListTrue, Inserted, Listed
  <2>2. CASE /\ UNCHANGED <<waitings, mainThreadBusyTrying>>
             /\ (pc[t] = "busy" /\ pc'[t] = "trying") \/ (pc[t] = "waiting" /\ pc'[t] = "timedout")
    BY <1>1, <1>2, <2>2, BusyConstants DEF BusyIInv, TypeOK, ListTrue, Listed
  <2>3. CASE waitings' = Erased({t}) /\ pc'[t] \in {"busy", "trying"} /\ pc[t] \in Listed
             /\ mainThreadBusyTrying' = (mainThreadBusyTrying /\ t # Main)
    BY <1>1, <1>2, <2>3, BusyConstants, Zenon DEF BusyIInv, TypeOK, ListTrue, Erased, Restrict, Listed
  <2>4. QED BY <1>3, <2>1, <2>2, <2>3 DEF Listed
<1>5. TypeOK'
  BY <1>1, <1>2, <1>4, SMTT(30) DEF TypeOK, Pcs
<1>6. OneKind' /\ MasksTrue' /\ PagerTrue'
  BY <1>1, <1>2 DEF BusyIInv, OneKind, MasksTrue, PagerTrue, Asking
<1>7. ListTrue' BY <1>4, SMTT(30) DEF ListTrue
<1>8. PassedOver'
  <2>1. \A u \in Threads : pc'[u] = "waiting" => (u = t /\ MustWait(t)) \/ pc[u] = "waiting"
    BY <1>2, <1>3
  <2>2. pc'[Main] = "running" => pc[Main] = "running" BY <1>2, BusyConstants DEF Asking
  <2>3. QED BY <1>1, <2>1, <2>2, SameRecord DEF BusyIInv, PassedOver
<1>9. QED BY <1>5, <1>6, <1>7, <1>8 DEF BusyIInv

----------------------------------------------------------------------------
(* Reports.                                                                 *)

\* A thread on the list has no shm lock on record.
LEMMA ListedHasNone ==
    ASSUME BusyIInv, NEW u \in Threads, pc[u] \in Listed
    PROVE  shmMasks[u].shared = {} /\ shmMasks[u].exclusive = {}
BY DEF BusyIInv, OneKind, MasksTrue, Listed, Asking

\* After tryNotify nobody is passed over but for a main thread that is held up.
LEMMA NotifyLeaves ==
    ASSUME BusyIInv, NEW t \in Threads, pc[t] = "changed", UNCHANGED trying,
           \A c \in Threads \ {t} : shmMasks'[c] = shmMasks[c],
           TryNotify(t, shmMasks', pagerType', localPagerType'),
           pc'[t] = "running",
           \A u \in Threads \ {t} :
              pc'[u] = pc[u] \/ (pc[u] \in Listed /\ pc'[u] = "notified")
    PROVE  PassedOver'
<1>1. CASE \A u \in Threads :
             pc'[u] = "waiting" => Blocked(u, t, shmMasks', pagerType', localPagerType')
  <2>1. \A u \in Threads : pc'[u] = "waiting" => MustWait(u)'
    BY <1>1, BlockedMustWait DEF MustWait
  <2>2. QED BY <2>1 DEF PassedOver
<1>2. CASE pc[Main] \in Listed /\ Blocked(Main, t, shmMasks', pagerType', localPagerType')
  <2>1. Main # t /\ pc'[Main] \in Listed BY <1>2, BusyConstants DEF Listed
  <2>2. shmMasks'[Main].shared = {} /\ shmMasks'[Main].exclusive = {}
    BY <1>2, <2>1, ListedHasNone, BusyConstants
  <2>3. SatisfiedShm(trying[Main], shmMasks'[Main])
    BY <2>2, NothingToWaitFor, BusyConstants DEF BusyIInv, TypeOK, Proper
  <2>4. MainHeldUp'
    BY <1>2, <2>3, BlockedMustWait DEF MainHeldUp
  <2>5. QED BY <2>1, <2>4 DEF PassedOver, Listed
<1>3. QED BY <1>1, <1>2, NotifyFinds DEF BusyIInv

\* updatePagerLock.
LEMMA LockDidChangeStep ==
    ASSUME BusyIInv, NEW t \in Threads, LockDidChange(t)
    PROVE  BusyIInv'
<1> DEFINE type == holds[t].pager
<1>1. /\ TypeOK /\ ListTrue /\ pc[t] = "changed" /\ trying[t].category = "Pager"
      /\ UNCHANGED <<setup, holds, trying, shmMasks, mainThreadBusyTrying>>
      /\ type \in NoLock..Exclusive
  BY DEF BusyIInv, LockDidChange, TypeOK
<1>2. \/ /\ type < pagerType /\ TryNotify(t, shmMasks', pagerType', localPagerType')
         /\ localPagerType' = [localPagerType EXCEPT ![t] = type]
         /\ pagerType' = type /\ pagerChangeTid' = t
      \/ /\ pagerType < type /\ NoNotify(t)
         /\ localPagerType' = [localPagerType EXCEPT ![t] = type]
         /\ pagerType' = type /\ pagerChangeTid' = t
      \/ /\ type = pagerType /\ NoNotify(t)
         /\ UNCHANGED <<pagerType, localPagerType, pagerChangeTid>>
  <2>1. CASE type = pagerType BY <1>1, <2>1 DEF LockDidChange
  <2>2. CASE type # pagerType /\ type < pagerType
    <3>1. /\ shmMasks' = shmMasks /\ pagerType' = type /\ pagerChangeTid' = t
          /\ localPagerType' = [localPagerType EXCEPT ![t] = type]
          /\ TryNotify(t, shmMasks, type, [localPagerType EXCEPT ![t] = type])
      BY <1>1, <2>2 DEF LockDidChange
    <3>2. TryNotify(t, shmMasks', pagerType', localPagerType') BY <3>1
    <3>3. QED BY <2>2, <3>1, <3>2
  <2>3. CASE type # pagerType /\ ~(type < pagerType)
    <3>1. pagerType < type BY <1>1, <2>3 DEF TypeOK, NoLock, Exclusive
    <3>2. QED BY <1>1, <2>3, <3>1 DEF LockDidChange
  <2>4. QED BY <2>1, <2>2, <2>3, SMTT(30)
<1> HIDE DEF type
<1>3. /\ pc' \in [Threads -> Pcs] /\ pc'[t] = "running"
      /\ \A u \in Threads \ {t} :
            pc'[u] = pc[u] \/ (pc[u] \in Listed /\ pc'[u] = "notified")
      /\ waitings' \in [DOMAIN waitings' -> {Must, NoMatter}] /\ DOMAIN waitings' \subseteq Threads
      /\ ListTrue'
  BY <1>1, <1>2, ReportWakes
<1>4. TypeOK'
  <2>1. /\ pagerType' \in NoLock..Exclusive
        /\ localPagerType' \in [Threads -> NoLock..Exclusive]
        /\ pagerChangeTid' \in Threads \cup {NoThread}
    BY <1>1, <1>2 DEF TypeOK
  <2>2. QED BY <1>1, <1>3, <2>1 DEF TypeOK, Pcs
<1>5. OneKind' /\ MasksTrue'
  BY <1>1, <1>3 DEF BusyIInv, OneKind, MasksTrue, Asking, Listed
<1>6. PagerTrue'
  BY <1>1, <1>2, <1>3 DEF BusyIInv, PagerTrue, Listed, type
<1>7. PassedOver'
  <2>1. CASE type < pagerType
    <3>1. TryNotify(t, shmMasks', pagerType', localPagerType')
      BY <1>1, <1>2, <2>1 DEF TypeOK, NoLock, Exclusive
    <3>2. QED BY <1>1, <1>3, <3>1, NotifyLeaves
  <2>2. CASE pagerType <= type
    <3>1. pc' = [pc EXCEPT ![t] = "running"] /\ pagerType' = type
      BY <1>1, <1>2, <2>2 DEF NoNotify, TypeOK, NoLock, Exclusive
    <3>2. \A u \in Threads : ~SatisfiedPager(trying[u], pagerType)
                             => ~SatisfiedPager(trying[u], pagerType')
      BY <1>1, <2>2, <3>1, StrongerPager DEF TypeOK, Proper
    <3>3. (\A u \in Threads : MustWait(u) => MustWait(u)') /\ (MainHeldUp => MainHeldUp')
      BY <1>1, <3>2, BusyConstants DEF MustWait, MainHeldUp
    <3>4. \A u \in Threads : pc'[u] = "waiting" => pc[u] = "waiting" BY <1>1, <3>1 DEF TypeOK
    <3>5. ASSUME t = Main, holds[Main] = Free PROVE ~MainHeldUp
      <4>1. type = NoLock /\ pagerType = NoLock
        BY <1>1, <2>2, <3>5 DEF type, Free, TypeOK, NoLock, Exclusive
      <4>2. QED BY <1>1, <3>5, <4>1, NothingToWaitFor DEF MainHeldUp, TypeOK, Proper, SatisfiedShm
    <3>6. QED BY <1>1, <3>1, <3>3, <3>4, <3>5, BusyConstants DEF BusyIInv, PassedOver, TypeOK
  <2>3. QED BY <1>1, <2>1, <2>2 DEF TypeOK, NoLock, Exclusive
<1>8. QED BY <1>3, <1>4, <1>5, <1>6, <1>7 DEF BusyIInv

\* updateShmLock.
LEMMA ShmLockDidChangeStep ==
    ASSUME BusyIInv, NEW t \in Threads, ShmLockDidChange(t)
    PROVE  BusyIInv'
<1> DEFINE none == holds[t].shared = {} /\ holds[t].exclusive = {}
           mask == [shared |-> holds[t].shared, exclusive |-> holds[t].exclusive,
                    tid |-> IF none THEN NoThread ELSE t]
<1>1. /\ TypeOK /\ ListTrue /\ pc[t] = "changed" /\ trying[t].category = "Shm"
      /\ UNCHANGED <<setup, holds, trying, pagerType, localPagerType, pagerChangeTid,
                     mainThreadBusyTrying>>
      /\ shmMasks' = [shmMasks EXCEPT ![t] = mask]
  BY DEF BusyIInv, ShmLockDidChange
<1>2. \/ TryNotify(t, shmMasks', pagerType', localPagerType')
      \/ NoNotify(t) /\ ~none
  <2>1. UNCHANGED <<pagerType, localPagerType>> BY <1>1
  <2>2. QED BY <2>1 DEF ShmLockDidChange
<1>3. /\ pc' \in [Threads -> Pcs] /\ pc'[t] = "running"
      /\ \A u \in Threads \ {t} :
            pc'[u] = pc[u] \/ (pc[u] \in Listed /\ pc'[u] = "notified")
      /\ waitings' \in [DOMAIN waitings' -> {Must, NoMatter}] /\ DOMAIN waitings' \subseteq Threads
      /\ ListTrue'
  BY <1>1, <1>2, ReportWakes
<1>4. /\ shmMasks'[t] = mask /\ DOMAIN shmMasks' = Threads
      /\ \A c \in Threads \ {t} : shmMasks'[c] = shmMasks[c]
  BY <1>1 DEF TypeOK
<1>5. TypeOK'
  BY <1>1, <1>3, <1>4 DEF TypeOK, Pcs
<1>6. OneKind'
  BY <1>1, <1>3 DEF BusyIInv, OneKind, Asking, Listed
<1>7. MasksTrue'
  BY <1>1, <1>3, <1>4 DEF BusyIInv, MasksTrue, Listed
<1>8. PagerTrue'
  BY <1>1, <1>3 DEF BusyIInv, PagerTrue, OneKind, Listed
<1>9. PassedOver'
  <2>1. CASE TryNotify(t, shmMasks', pagerType', localPagerType')
    BY <1>1, <1>3, <1>4, <2>1, NotifyLeaves, Zenon
  <2>2. CASE NoNotify(t) /\ ~none
    <3>1. shmMasks[t].shared = {} /\ shmMasks[t].exclusive = {}
      BY <1>1, <2>2 DEF BusyIInv, MasksTrue
    <3>2. \A u \in Threads : SatisfiedShm(trying[u], shmMasks[t])
      BY <1>1, <3>1, NothingToWaitFor DEF TypeOK, Proper
    <3>3. (\A u \in Threads : MustWait(u) => MustWait(u)') /\ (MainHeldUp => MainHeldUp')
      BY <1>1, <1>4, <3>2, BusyConstants DEF MustWait, MainHeldUp
    <3>4. /\ \A u \in Threads : pc'[u] = "waiting" => pc[u] = "waiting"
          /\ Main # t => pc'[Main] = pc[Main]
      BY <1>1, <2>2, BusyConstants DEF TypeOK, NoNotify
    <3>5. Main = t => holds'[Main] # Free BY <1>1, <2>2 DEF Free
    <3>6. QED BY <1>1, <3>3, <3>4, <3>5, SMTT(30) DEF BusyIInv, PassedOver
  <2>3. QED BY <1>2, <2>1, <2>2
<1>10. QED BY <1>3, <1>5, <1>6, <1>7, <1>8, <1>9, SMTT(30) DEF BusyIInv

----------------------------------------------------------------------------
(* The invariant, and what it says.                                         *)

LEMMA InitialBusy == Init => BusyIInv
<1> SUFFICES ASSUME Init PROVE BusyIInv OBVIOUS
<1>1. TypeOK
  <2>1. DOMAIN waitings = {} /\ waitings \in [DOMAIN waitings -> {Must, NoMatter}] BY DEF Init
  <2>2. /\ setup \in Setups /\ pc \in [Threads -> Pcs]
        /\ pagerType \in NoLock..Exclusive /\ localPagerType \in [Threads -> NoLock..Exclusive]
        /\ pagerChangeTid \in Threads \cup {NoThread} /\ mainThreadBusyTrying \in BOOLEAN
    <3>1. NoLock \in NoLock..Exclusive BY DEF NoLock, Exclusive
    <3>2. QED BY <3>1, Zenon DEF Init, Pcs
  <2>3. /\ DOMAIN trying = Threads /\ DOMAIN holds = Threads /\ DOMAIN shmMasks = Threads
        /\ \A t \in Threads : trying[t].category = "None" /\ holds[t] = Free
    BY SMTT(30) DEF Init
  <2>4. Free = [pager |-> Free.pager, shared |-> Free.shared, exclusive |-> Free.exclusive]
        /\ Free.pager \in NoLock..Exclusive
    BY DEF Free, NoLock, Exclusive
  <2>5. QED BY <2>1, <2>2, <2>3, <2>4 DEF TypeOK, Pcs
<1>2. OneKind /\ MasksTrue /\ PagerTrue BY Zenon DEF Init, OneKind, MasksTrue, PagerTrue, Free
<1>3. ListTrue BY BusyConstants DEF Init, ListTrue, Listed
<1>4. PassedOver BY DEF Init, PassedOver
<1>5. QED BY <1>1, <1>2, <1>3, <1>4 DEF BusyIInv

LEMMA BusyStep == BusyIInv /\ [Next]_vars => BusyIInv'
<1> SUFFICES ASSUME BusyIInv, [Next]_vars PROVE BusyIInv' OBVIOUS
<1>1. ASSUME NEW t \in Threads, NEW r \in Requests, WillLock(t, r) PROVE BusyIInv'
  <2>1. r.category \in {"Shm", "Pager"} /\ Proper(r) BY RequestsAreProper DEF BusyIInv
  <2>2. Asks(t, r) /\ holds[t] = Free BY <1>1 DEF WillLock, Asks
  <2>3. QED BY <2>1, <2>2, AskStep
<1>2. ASSUME NEW t \in Threads, WillUpgrade(t) PROVE BusyIInv'
  <2>1. trying[t].category = "Pager"
    BY <1>2 DEF BusyIInv, OneKind, WillUpgrade, Reserved, NoLock
  <2>2. Pager(Exclusive).category \in {"Shm", "Pager"} /\ Proper(Pager(Exclusive))
    BY DEF Pager, Proper, Shared, Exclusive
  <2>3. Asks(t, Pager(Exclusive)) BY <1>2 DEF WillUpgrade, Asks
  <2>4. QED BY <2>1, <2>2, <2>3, AskStep
<1>3. CASE UNCHANGED vars
  <2>1. UNCHANGED <<setup, pc, holds, trying, shmMasks, pagerType, localPagerType,
                    pagerChangeTid, waitings, mainThreadBusyTrying>> BY <1>3 DEF vars
  <2>2. TypeOK' BY <2>1 DEF BusyIInv, TypeOK
  <2>3. OneKind' /\ MasksTrue' /\ PagerTrue' BY <2>1 DEF BusyIInv, OneKind, MasksTrue, PagerTrue
  <2>4. ListTrue' BY <2>1 DEF BusyIInv, ListTrue
  <2>5. PassedOver' BY <2>1, SameRecord DEF BusyIInv, PassedOver
  <2>6. QED BY <2>2, <2>3, <2>4, <2>5 DEF BusyIInv
<1>4. QED BY <1>1, <1>2, <1>3, SQLiteSteps, WaitSteps, LockDidChangeStep, ShmLockDidChangeStep
          DEF Next

LEMMA QuietRecord == BusyIInv => QuietMeansFree
<1> SUFFICES ASSUME BusyIInv, \A t \in Threads : holds[t] = Free /\ pc[t] # "changed"
             PROVE  /\ pagerType = NoLock
                    /\ \A t \in Threads : shmMasks[t].shared \cup shmMasks[t].exclusive = {}
                    /\ \A t \in Threads : pc[t] # "waiting"
  BY DEF QuietMeansFree
<1>1. pagerType = NoLock BY DEF BusyIInv, PagerTrue, Free
<1>2. \A t \in Threads : shmMasks[t].shared = {} /\ shmMasks[t].exclusive = {}
  BY DEF BusyIInv, MasksTrue, Free
<1>3. \A t \in Threads : ~MustWait(t)
  BY <1>1, <1>2, NothingToWaitFor DEF MustWait, BusyIInv, TypeOK, Proper
<1>4. ~MainHeldUp
  BY <1>1, <1>2, NothingToWaitFor, BusyConstants DEF MainHeldUp, BusyIInv, TypeOK, Proper
<1>5. QED BY <1>1, <1>2, <1>3, <1>4 DEF BusyIInv, PassedOver

LEMMA HolderSees == BusyIInv => HolderSeesMainThread
<1> SUFFICES ASSUME BusyIInv, pc[Main] = "waiting", trying[Main].category = "Shm",
                    NEW t \in Threads \ {Main}, pc[t] = "running"
             PROVE  mainThreadBusyTrying /\ LocalShouldWait(trying[Main], t)
                       <=> ~SatisfiedShm(trying[Main], holds[t])
  BY DEF HolderSeesMainThread
<1>1. mainThreadBusyTrying BY DEF BusyIInv, ListTrue, Listed
<1>2. SatisfiedPager(trying[Main], pagerType) BY DEF SatisfiedPager
<1>3. \A c \in Threads : shmMasks[c].tid = t => c = t
  BY BusyConstants DEF BusyIInv, MasksTrue
<1>4. shmMasks[t].shared = holds[t].shared /\ shmMasks[t].exclusive = holds[t].exclusive
  BY DEF BusyIInv, MasksTrue
<1>5. SatisfiedShm(trying[Main], shmMasks[t]) <=> SatisfiedShm(trying[Main], holds[t])
  BY <1>4 DEF SatisfiedShm
<1>6. ~SatisfiedShm(trying[Main], shmMasks[t]) => shmMasks[t].tid = t
  BY NothingToWaitFor, BusyConstants DEF BusyIInv, MasksTrue, TypeOK, Proper
<1>7. QED BY <1>1, <1>2, <1>3, <1>5, <1>6 DEF LocalShouldWait

\* The inductive invariant of the busy handler: what is on record is what SQLite
\* granted up to the reports under way, the list holds those who sleep, and nobody
\* is passed over but for a main thread that is held up.
THEOREM BusyInvariance == Spec => []BusyIInv
<1>1. Init => BusyIInv BY InitialBusy
<1>2. BusyIInv /\ [Next]_vars => BusyIInv' BY BusyStep
<1>3. QED BY <1>1, <1>2, PTL DEF Spec

\* State::wait and State::tryNotify lose no wake-up.
THEOREM BusyLosesNoWakeup == Spec => []NoLostWakeup
<1>1. BusyIInv => NoLostWakeup BY DEF BusyIInv, ListTrue, PassedOver, NoLostWakeup
<1>2. QED BY <1>1, BusyInvariance, PTL

\* When all locks are released and reported, updatePagerLock and updateShmLock
\* have left nothing on record, and tryNotify has left nobody asleep.
THEOREM BusyQuietMeansFree == Spec => []QuietMeansFree
<1>1. BusyIInv => QuietMeansFree BY QuietRecord
<1>2. QED BY <1>1, BusyInvariance, PTL

\* checkMainThreadBusyRetry is true for exactly the threads whose shm locks stand in
\* the way of the sleeping main thread.
THEOREM BusyHolderSeesMainThread == Spec => []HolderSeesMainThread
<1>1. BusyIInv => HolderSeesMainThread BY HolderSees
<1>2. QED BY <1>1, BusyInvariance, PTL

----------------------------------------------------------------------------
(* Transaction.                                                             *)

SaveType == [name : Nat, at : SUBSET Writes]

HandleType == [inTx : BOOLEAN, db : SUBSET Writes, cur : SUBSET Writes,
               saves : Seq(SaveType), level : Nat,
               err : TransactionErrors, cached : TransactionErrors,
               faults : 0..MaxFaults]

FrameType == [kind : {"run", "pausable", "create"}, base : SUBSET Writes,
              work : SUBSET Writes, failed : BOOLEAN, paused : BOOLEAN]

----------------------------------------------------------------------------
(* The handle.                                                              *)

\* p is where SQLite finds the savepoint of that name.
Innermost(h, name, p) ==
    /\ p \in 1..Len(h.saves) /\ h.saves[p].name = name
    /\ \A q \in 1..Len(h.saves) : h.saves[q].name = name => q <= p

\* Every level above the first has its savepoint, in the order of the levels.
Nested(h) ==
    /\ \A i \in 2..h.level : Innermost(h, i, SaveIndex(h, i))
    /\ \A i, j \in 2..h.level : i < j => SaveIndex(h, i) < SaveIndex(h, j)

\* A handle between two operations: outside a transaction nothing is pending, and
\* only a ROLLBACK that failed leaves one at level 0.
Sound(h) ==
    /\ h \in HandleType
    /\ ~h.inTx => h.saves = <<>> /\ h.cur = h.db
    /\ h.inTx => h.level >= 1 \/ "rollback" \in Failing
    /\ h.inTx /\ h.err = "Allowed" => Nested(h)

\* A handle whose level beginTransaction has put right.
Firm(h) == Sound(h) /\ (h.inTx => h.level >= 1)

PutRight(h) == [h EXCEPT !.level = IF h.inTx /\ @ = 0 THEN 1 ELSE @]

\* SaveIndex finds the innermost savepoint of a name.
LEMMA SaveIndexFinds ==
    ASSUME NEW h, NEW name, NEW p, Innermost(h, name, p)
    PROVE  SaveIndex(h, name) = p
<1> DEFINE found == {i \in 1..Len(h.saves) : h.saves[i].name = name}
<1>1. p \in found /\ \A j \in found : j <= p BY DEF Innermost
<1>2. \A i \in found : i \in Int BY DEF found
<1>3. \A i \in found : (\A j \in found : j <= i) => i = p
  BY <1>1, <1>2
<1>4. SaveIndex(h, name) = CHOOSE i \in found : \A j \in found : j <= i
  BY <1>1, Zenon DEF SaveIndex
<1> HIDE DEF found
<1>5. QED BY <1>1, <1>3, <1>4, Zenon

\* With the same savepoints the same ones are found.
LEMMA SameSaves ==
    ASSUME NEW g, NEW h, g.saves = h.saves
    PROVE  \A name : /\ SaveIndex(g, name) = SaveIndex(h, name)
                     /\ \A p : Innermost(g, name, p) <=> Innermost(h, name, p)
<1>1. \A name : SaveIndex(g, name) = SaveIndex(h, name) BY DEF SaveIndex
<1>2. \A name, p : Innermost(g, name, p) <=> Innermost(h, name, p) BY DEF Innermost
<1>3. QED BY <1>1, <1>2, Zenon

\* A handle that differs from h in what is pending of it only in its contents, its
\* errors or its faults.
LEMMA SameNesting ==
    ASSUME NEW g, NEW h, g.saves = h.saves, g.level = h.level, Nested(h)
    PROVE  Nested(g)
BY SameSaves, ZenonT(30) DEF Nested

\* The savepoints of the levels up to n are the same.
SameLevels(h, g, n) ==
    \A i \in 2..n : /\ SaveIndex(g, i) = SaveIndex(h, i)
                    /\ g.saves[SaveIndex(g, i)] = h.saves[SaveIndex(h, i)]

\* g is h with a savepoint of the next level.
Deepens(h, at, g) ==
    /\ g.saves = Append(h.saves, [name |-> h.level + 1, at |-> at])
    /\ g.level = h.level + 1

\* A savepoint of the next level.
LEMMA SavepointNests ==
    ASSUME NEW h \in HandleType, Nested(h), h.level >= 1, NEW at \in SUBSET Writes, NEW g,
           Deepens(h, at, g)
    PROVE  /\ Nested(g)
           /\ SaveIndex(g, g.level) = Len(g.saves) /\ g.saves[Len(g.saves)].at = at
           /\ SameLevels(h, g, h.level)
<1> USE DEF Deepens, SameLevels
<1> DEFINE n == Len(h.saves)
           new == [name |-> h.level + 1, at |-> at]
<1>1. /\ n \in Nat /\ Len(g.saves) = n + 1 /\ g.saves[n + 1] = new
      /\ \A q \in 1..n : g.saves[q] = h.saves[q]
      /\ h.level \in Nat /\ new.name = h.level + 1 /\ new.at = at
  BY DEF HandleType, SaveType
<1> HIDE DEF n, new
<1>2. Innermost(g, g.level, n + 1) BY <1>1 DEF Innermost
<1>3. \A i \in 2..h.level : Innermost(g, i, SaveIndex(h, i))
  <2> SUFFICES ASSUME NEW i \in 2..h.level PROVE Innermost(g, i, SaveIndex(h, i)) OBVIOUS
  <2>1. Innermost(h, i, SaveIndex(h, i)) BY DEF Nested
  <2>2. QED BY <1>1, <2>1, SMTT(30) DEF Innermost, n
<1>4. /\ SaveIndex(g, g.level) = n + 1
      /\ \A i \in 2..h.level : SaveIndex(g, i) = SaveIndex(h, i) /\ SaveIndex(h, i) \in 1..n
  <2>1. SaveIndex(g, g.level) = n + 1 BY <1>2, SaveIndexFinds, Zenon
  <2>2. \A i \in 2..h.level : SaveIndex(g, i) = SaveIndex(h, i) BY <1>3, SaveIndexFinds, Zenon
  <2>3. \A i \in 2..h.level : SaveIndex(h, i) \in 1..n BY Zenon DEF Nested, Innermost, n
  <2>4. QED BY <2>1, <2>2, <2>3, Zenon
<1>5. \A i \in 2..g.level : i \in 2..h.level \/ i = g.level BY <1>1
<1>6. \A i \in 2..g.level : Innermost(g, i, SaveIndex(g, i)) BY <1>2, <1>3, <1>4, <1>5
<1>7. \A i, j \in 2..g.level : i < j => SaveIndex(g, i) < SaveIndex(g, j)
  <2> SUFFICES ASSUME NEW i \in 2..g.level, NEW j \in 2..g.level, i < j
               PROVE  SaveIndex(g, i) < SaveIndex(g, j)
    OBVIOUS
  <2>1. i \in 2..h.level BY <1>1
  <2>2. CASE j = g.level BY <1>1, <1>4, <2>1, <2>2
  <2>3. CASE j \in 2..h.level BY <1>4, <2>1, <2>3 DEF Nested
  <2>4. QED BY <1>5, <2>2, <2>3
<1>8. QED BY <1>1, <1>4, <1>6, <1>7, Zenon DEF Nested

\* g is h without the savepoint of the last level, or with it as the last one.
Narrows(h, n, g) ==
    /\ n = SaveIndex(h, h.level) - 1 \/ n = SaveIndex(h, h.level)
    /\ g.saves = SubSeq(h.saves, 1, n) /\ g.level = h.level - 1

\* The savepoint of the last level is released, or rolled back to, which keeps it.
LEMMA SavepointEnds ==
    ASSUME NEW h \in HandleType, Nested(h), h.level >= 2, NEW n \in Nat, NEW g,
           Narrows(h, n, g)
    PROVE  /\ Nested(g)
           /\ SameLevels(h, g, g.level)
<1> USE DEF Narrows
<1>1. /\ h.level \in Nat /\ Innermost(h, h.level, SaveIndex(h, h.level)) BY DEF Nested, HandleType
<1>2. /\ Len(g.saves) = n /\ n <= Len(h.saves) /\ Len(h.saves) \in Nat
      /\ \A q \in 1..n : g.saves[q] = h.saves[q]
  BY <1>1 DEF HandleType, Innermost
<1>3. \A i \in 2..g.level : i \in 2..h.level /\ i < h.level BY <1>1
<1>4. ASSUME NEW i \in 2..g.level
      PROVE  SaveIndex(h, i) \in 1..n /\ Innermost(g, i, SaveIndex(h, i))
  <2>1. SaveIndex(h, i) < SaveIndex(h, h.level) /\ Innermost(h, i, SaveIndex(h, i))
    BY <1>1, <1>3 DEF Nested
  <2>2. SaveIndex(h, i) \in 1..n BY <1>1, <2>1 DEF Innermost
  <2>3. QED BY <1>2, <2>1, <2>2 DEF Innermost
<1>5. \A i \in 2..g.level : SaveIndex(g, i) = SaveIndex(h, i) BY <1>4, SaveIndexFinds
<1>6. Nested(g) BY <1>3, <1>4, <1>5 DEF Nested
<1>7. QED BY <1>2, <1>4, <1>5, <1>6 DEF SameLevels

\* What the parts of an operation leave of a handle.
LEMMA ClosedIs ==
    ASSUME NEW h \in HandleType, NEW c \in SUBSET Writes
    PROVE  LET g == Closed(h, c) IN
           /\ g \in HandleType
           /\ g.inTx = FALSE /\ g.db = c /\ g.cur = c /\ g.saves = <<>>
           /\ g.level = h.level /\ g.err = h.err /\ g.cached = h.cached /\ g.faults = h.faults
<1> DEFINE g == Closed(h, c)
<1>1. <<>> \in Seq(SaveType) OBVIOUS
<1>2. /\ g.inTx = FALSE /\ g.db = c /\ g.cur = c /\ g.saves = <<>>
      /\ g.level = h.level /\ g.err = h.err /\ g.cached = h.cached /\ g.faults = h.faults
  BY DEF Closed, HandleType
<1>3. g \in HandleType
  <2> DEFINE e == <<>>
  <2>1. e \in Seq(SaveType) BY <1>1
  <2>2. g = [h EXCEPT !.inTx = FALSE, !.db = c, !.cur = c, !.saves = e] BY DEF Closed
  <2> HIDE DEF e, g
  <2>3. QED BY <2>1, <2>2, Zenon DEF HandleType
<1>4. QED BY <1>2, <1>3, Zenon

LEMMA NotifyErrorIs ==
    ASSUME NEW h \in HandleType
    PROVE  LET g == NotifyError(h) IN
           /\ g \in HandleType
           /\ g.err = IF h.err = "Allowed" THEN "Allowed" ELSE "Fatal"
           /\ g.inTx = h.inTx /\ g.db = h.db /\ g.cur = h.cur /\ g.saves = h.saves
           /\ g.level = h.level /\ g.cached = h.cached /\ g.faults = h.faults
BY DEF NotifyError, HandleType, TransactionErrors

LEMMA FaultIs ==
    ASSUME MaxFaults \in Nat, NEW h \in HandleType, h.faults > 0
    PROVE  LET g == [h EXCEPT !.faults = @ - 1] IN
           /\ g \in HandleType /\ g.faults = h.faults - 1 /\ g.faults # h.faults
           /\ g.inTx = h.inTx /\ g.db = h.db /\ g.cur = h.cur /\ g.saves = h.saves
           /\ g.level = h.level /\ g.err = h.err /\ g.cached = h.cached
BY DEF HandleType

LEMMA LevelIs ==
    ASSUME NEW h \in HandleType, NEW n \in Nat
    PROVE  LET g == [h EXCEPT !.level = n] IN
           /\ g \in HandleType /\ g.level = n
           /\ g.inTx = h.inTx /\ g.db = h.db /\ g.cur = h.cur /\ g.saves = h.saves
           /\ g.err = h.err /\ g.cached = h.cached /\ g.faults = h.faults
BY DEF HandleType

ResultType == [ok : BOOLEAN, h : HandleType]

\* g is what a statement on h leaves that failed.
Fails(h, g) ==
    /\ g \in HandleType
    /\ g.faults = h.faults - 1 /\ g.faults # h.faults
    /\ g.level = h.level /\ g.db = h.db
    /\ g.err = IF h.err = "Allowed" THEN "Allowed" ELSE "Fatal"
    /\ \/ g.inTx = h.inTx /\ g.cur = h.cur /\ g.saves = h.saves
       \/ h.inTx /\ ~g.inTx /\ g.cur = h.db /\ g.saves = <<>>

\* A statement did what it should, or it may fail and has.
LEMMA ExecuteResults ==
    ASSUME MaxFaults \in Nat, NEW h \in HandleType, NEW done \in HandleType, NEW kind,
           NEW r \in Execute(kind, h, done)
    PROVE  /\ r \in ResultType
           /\ r.ok => r.h = done
           /\ ~r.ok => kind \in Failing /\ Fails(h, r.h)
<1>1. CASE r = [ok |-> TRUE, h |-> done] BY <1>1 DEF ResultType
<1>2. ASSUME NEW g \in {h, Closed(h, h.db)}, kind \in Failing, h.faults > 0,
             g = h \/ h.inTx,
             r = [ok |-> FALSE, h |-> [NotifyError(g) EXCEPT !.faults = @ - 1]]
      PROVE  r \in ResultType /\ ~r.ok /\ Fails(h, r.h)
  <2> DEFINE e == NotifyError(g)
             f == [e EXCEPT !.faults = @ - 1]
  <2>1. /\ g \in HandleType /\ g.faults = h.faults /\ g.level = h.level /\ g.db = h.db
        /\ g.err = h.err
        /\ \/ g.inTx = h.inTx /\ g.cur = h.cur /\ g.saves = h.saves
           \/ h.inTx /\ ~g.inTx /\ g.cur = h.db /\ g.saves = <<>>
    <3>1. h.db \in SUBSET Writes BY DEF HandleType
    <3>2. CASE g = h BY <3>2
    <3>3. CASE g = Closed(h, h.db) /\ h.inTx BY <3>1, <3>3, ClosedIs, Zenon
    <3>4. QED BY <1>2, <3>2, <3>3
  <2>2. /\ e \in HandleType /\ e.faults = g.faults /\ e.level = g.level /\ e.db = g.db
        /\ e.err = (IF g.err = "Allowed" THEN "Allowed" ELSE "Fatal")
        /\ e.inTx = g.inTx /\ e.cur = g.cur /\ e.saves = g.saves
    BY <2>1, NotifyErrorIs, Zenon
  <2> HIDE DEF e
  <2>3. e.faults > 0 BY <1>2, <2>1, <2>2
  <2>4. /\ f \in HandleType /\ f.faults = e.faults - 1 /\ f.faults # e.faults
        /\ f.level = e.level /\ f.db = e.db /\ f.err = e.err
        /\ f.inTx = e.inTx /\ f.cur = e.cur /\ f.saves = e.saves
    BY <2>2, <2>3, FaultIs, Zenon
  <2> HIDE DEF f
  <2>5. r = [ok |-> FALSE, h |-> f] BY <1>2 DEF f, e
  <2>6. r \in ResultType /\ ~r.ok /\ r.h = f BY <2>4, <2>5 DEF ResultType
  <2>7. QED BY <2>1, <2>2, <2>4, <2>6 DEF Fails
<1>3. QED BY <1>1, <1>2 DEF Execute

\* g is h but for the level.
ButLevel(h, g) ==
    /\ g \in HandleType
    /\ g.inTx = h.inTx /\ g.db = h.db /\ g.cur = h.cur /\ g.saves = h.saves
    /\ g.err = h.err /\ g.cached = h.cached /\ g.faults = h.faults

LevelSet(q, n, r) == r = [q EXCEPT !.h.level = n]

\* The level in a result.
LEMMA ResultLevel ==
    ASSUME NEW q \in ResultType, NEW n \in Nat, NEW r, LevelSet(q, n, r)
    PROVE  r \in ResultType /\ r.ok = q.ok /\ r.h.level = n /\ ButLevel(q.h, r.h)
<1> DEFINE g == [q.h EXCEPT !.level = n]
<1>1. q.h \in HandleType BY DEF ResultType
<1>2. g \in HandleType /\ g.level = n /\ ButLevel(q.h, g) BY <1>1, LevelIs, Zenon DEF ButLevel
<1>3. r = [q EXCEPT !.h = g] BY DEF LevelSet
<1> HIDE DEF g
<1>4. r \in ResultType /\ r.ok = q.ok /\ r.h = g BY <1>2, <1>3 DEF ResultType
<1>5. QED BY <1>2, <1>4, Zenon

LEMMA SavedIs ==
    ASSUME NEW h \in HandleType, NEW name \in Nat
    PROVE  LET g == Saved(h, name) IN
           /\ g \in HandleType /\ g.saves = Append(h.saves, [name |-> name, at |-> h.cur])
           /\ g.inTx = h.inTx /\ g.db = h.db /\ g.cur = h.cur
           /\ g.level = h.level /\ g.err = h.err /\ g.cached = h.cached /\ g.faults = h.faults
<1> DEFINE saves == Append(h.saves, [name |-> name, at |-> h.cur])
           g == [h EXCEPT !.saves = saves]
<1>1. saves \in Seq(SaveType) BY DEF HandleType, SaveType
<1>2. Saved(h, name) = g BY DEF Saved
<1> HIDE DEF saves
<1>3. /\ g \in HandleType /\ g.saves = saves
      /\ g.inTx = h.inTx /\ g.db = h.db /\ g.cur = h.cur
      /\ g.level = h.level /\ g.err = h.err /\ g.cached = h.cached /\ g.faults = h.faults
  BY <1>1, Zenon DEF HandleType
<1>4. QED BY <1>2, <1>3, Zenon DEF saves

LEMMA OpenedIs ==
    ASSUME NEW h \in HandleType
    PROVE  LET g == Opened(h) IN
           /\ g \in HandleType /\ g.inTx = TRUE
           /\ g.db = h.db /\ g.cur = h.cur /\ g.saves = h.saves
           /\ g.level = h.level /\ g.err = h.err /\ g.cached = h.cached /\ g.faults = h.faults
BY Zenon DEF Opened, HandleType

----------------------------------------------------------------------------
(* The operations on the handle.                                            *)

\* g is h with a transaction or a savepoint begun.
Begun(h, g) ==
    /\ g.inTx /\ g.cur = h.cur /\ g.err = h.err /\ g.faults = h.faults
    /\ g.level = IF h.inTx THEN h.level + 1 ELSE 1
    /\ h.inTx /\ h.err = "Allowed" =>
          SameLevels(h, g, h.level) /\ g.saves[SaveIndex(g, g.level)].at = h.cur

\* g is h after a begin that failed.
NotBegun(h, g) ==
    /\ g.faults # h.faults
    /\ g.level <= h.level
    /\ g.inTx => h.inTx /\ g.level = h.level /\ g.cur = h.cur /\ g.saves = h.saves
    /\ h.err = "Allowed" => g.err = "Allowed"
    /\ g.err = "Fatal" => "begin" \in Failing

\* beginTransaction.
LEMMA BeginResults ==
    ASSUME TransactionConstants, NEW h, Firm(h), NEW r \in BeginTransaction(h)
    PROVE  /\ r \in ResultType /\ Sound(r.h) /\ r.h.db = h.db
           /\ r.ok => Begun(h, r.h)
           /\ ~r.ok => NotBegun(h, r.h)
<1>1. MaxFaults \in Nat /\ h \in HandleType BY DEF TransactionConstants, Firm, Sound
<1>2. h.level \in Nat /\ h.cur \in SUBSET Writes /\ h.db \in SUBSET Writes /\ h.inTx \in BOOLEAN
      /\ h.err \in TransactionErrors /\ h.faults \in Int
  BY <1>1 DEF HandleType
<1> DEFINE l == IF h.inTx THEN h.level ELSE 0
           g == [h EXCEPT !.level = l]
<1>3. l \in Nat BY <1>2
<1>4. /\ g \in HandleType /\ g.level = l
      /\ g.inTx = h.inTx /\ g.db = h.db /\ g.cur = h.cur /\ g.saves = h.saves
      /\ g.err = h.err /\ g.cached = h.cached /\ g.faults = h.faults
  BY <1>1, <1>3, LevelIs, Zenon
<1>5. g = [h EXCEPT !.level = IF ~h.inTx THEN 0 ELSE IF @ = 0 THEN 1 ELSE @]
  BY <1>2 DEF Firm, Sound
<1> HIDE DEF g
<1>6. CASE h.inTx /\ h.err = "Allowed"
  <2>1. h.level > 0 /\ l = h.level /\ Nested(h) BY <1>2, <1>6 DEF Firm, Sound
  <2>2. PICK q \in Execute("savepoint", g, Saved(g, g.level + 1)) :
           r = [q EXCEPT !.h.level = IF q.ok THEN @ + 1 ELSE @]
    BY <1>4, <1>5, <1>6, <2>1 DEF BeginTransaction
  <2> DEFINE d == Saved(g, g.level + 1)
             n == IF q.ok THEN q.h.level + 1 ELSE q.h.level
  <2>3. /\ d \in HandleType /\ d.saves = Append(h.saves, [name |-> h.level + 1, at |-> h.cur])
        /\ d.inTx = h.inTx /\ d.db = h.db /\ d.cur = h.cur
        /\ d.level = h.level /\ d.err = h.err /\ d.faults = h.faults
    <3>1. g.level + 1 \in Nat BY <1>3, <1>4
    <3>2. g.level = h.level BY <1>4, <2>1
    <3>3. /\ d \in HandleType /\ d.saves = Append(g.saves, [name |-> g.level + 1, at |-> g.cur])
          /\ d.inTx = g.inTx /\ d.db = g.db /\ d.cur = g.cur
          /\ d.level = g.level /\ d.err = g.err /\ d.faults = g.faults
      BY <1>4, <3>1, SavedIs, Zenon
    <3> HIDE DEF d
    <3>4. QED BY <1>4, <3>2, <3>3
  <2>4. /\ q \in ResultType
        /\ q.ok => q.h = d
        /\ ~q.ok => Fails(g, q.h)
    BY <1>1, <1>4, <2>2, <2>3, ExecuteResults, SMTT(30)
  <2> HIDE DEF d
  <2>5. q.h.level = h.level /\ n \in Nat BY <1>2, <1>4, <2>1, <2>3, <2>4 DEF Fails
  <2>6. LevelSet(q, n, r) BY <2>2, Zenon DEF LevelSet
  <2> HIDE DEF n
  <2>7. r \in ResultType /\ r.ok = q.ok /\ r.h.level = n /\ ButLevel(q.h, r.h)
    BY <2>4, <2>5, <2>6, ResultLevel, Zenon
  <2>8. CASE q.ok
    <3>1. /\ r.h \in HandleType /\ r.h.level = h.level + 1 /\ r.h.level >= 1
          /\ r.h.inTx = h.inTx /\ r.h.db = h.db /\ r.h.cur = h.cur
          /\ r.h.saves = Append(h.saves, [name |-> h.level + 1, at |-> h.cur])
          /\ r.h.err = h.err /\ r.h.faults = h.faults
      <4>1. n = h.level + 1 /\ n >= 1 BY <1>2, <2>5, <2>8 DEF n
      <4>2. QED BY <2>3, <2>4, <2>7, <2>8, <4>1, Zenon DEF ButLevel
    <3>2. h.level >= 1 BY <1>2, <2>1
    <3>3. /\ Nested(r.h) /\ SameLevels(h, r.h, h.level)
          /\ r.h.saves[SaveIndex(r.h, r.h.level)].at = h.cur
      <4> DEFINE e == r.h
      <4>1. Deepens(h, h.cur, e) BY <3>1, Zenon DEF Deepens
      <4> HIDE DEF e
      <4>2. /\ Nested(e) /\ SameLevels(h, e, h.level)
            /\ SaveIndex(e, e.level) = Len(e.saves) /\ e.saves[Len(e.saves)].at = h.cur
        BY <1>1, <1>2, <2>1, <3>2, <4>1, SavepointNests, ZenonT(30)
      <4>3. QED BY <4>2, Zenon DEF e
    <3>4. Sound(r.h) BY <1>6, <3>1, <3>3, Zenon DEF Sound
    <3>5. QED BY <1>6, <2>7, <2>8, <3>1, <3>3, <3>4, Zenon DEF Begun
  <2>9. CASE ~q.ok
    <3>1. /\ r.h \in HandleType /\ r.h.level = h.level /\ r.h.level >= 1 /\ r.h.level <= h.level
          /\ r.h.db = h.db /\ r.h.faults # h.faults /\ r.h.err = "Allowed"
          /\ \/ r.h.inTx /\ r.h.cur = h.cur /\ r.h.saves = h.saves
             \/ ~r.h.inTx /\ r.h.cur = h.db /\ r.h.saves = <<>>
      <4>1. n = h.level /\ n >= 1 /\ n <= h.level BY <1>2, <2>1, <2>5, <2>9 DEF n
      <4>2. QED BY <1>4, <1>6, <2>4, <2>7, <2>9, <4>1, Zenon DEF ButLevel, Fails
    <3>2. r.h.inTx => Nested(r.h) BY <2>1, <3>1, SameNesting, Zenon
    <3>3. Sound(r.h) BY <3>1, <3>2, Zenon DEF Sound
    <3>4. QED BY <1>6, <2>7, <2>9, <3>1, <3>3, Zenon DEF NotBegun
  <2>10. QED BY <2>4, <2>8, <2>9 DEF ResultType
<1>7. CASE h.inTx /\ h.err # "Allowed"
  <2>1. h.level > 0 /\ l = h.level BY <1>2, <1>7 DEF Firm, Sound
  <2>2. PICK s \in {[ok |-> TRUE, h |-> g]} : r = [s EXCEPT !.h.level = IF s.ok THEN @ + 1 ELSE @]
    BY <1>4, <1>5, <1>7, <2>1, ZenonT(30) DEF BeginTransaction
  <2>3. s \in ResultType /\ s.ok /\ s.h = g
    <3>1. s = [ok |-> TRUE, h |-> g] OBVIOUS
    <3>2. QED BY <1>4, <3>1 DEF ResultType
  <2> DEFINE n == s.h.level + 1
  <2>4. LevelSet(s, n, r) BY <2>2, <2>3, Zenon DEF LevelSet
  <2>5. n = h.level + 1 /\ n \in Nat /\ n >= 1 BY <1>2, <1>4, <2>1, <2>3
  <2> HIDE DEF n
  <2>6. /\ r \in ResultType /\ r.ok /\ r.h \in HandleType /\ r.h.level = h.level + 1
        /\ r.h.level >= 1
        /\ r.h.inTx = h.inTx /\ r.h.db = h.db /\ r.h.cur = h.cur /\ r.h.saves = h.saves
        /\ r.h.err = h.err /\ r.h.faults = h.faults
    <3>1. r \in ResultType /\ r.ok = s.ok /\ r.h.level = n /\ ButLevel(s.h, r.h)
      BY <2>3, <2>4, <2>5, ResultLevel, Zenon
    <3>2. QED BY <1>4, <2>3, <2>5, <3>1, Zenon DEF ButLevel
  <2>7. QED BY <1>7, <2>6, Zenon DEF Sound, Begun
<1>8. CASE ~h.inTx
  <2>1. l = 0 BY <1>8
  <2>2. PICK q \in Execute("begin", g, Opened(g)) :
           r = [q EXCEPT !.h.level = IF q.ok THEN 1 ELSE @]
    BY <1>4, <1>5, <1>8, <2>1 DEF BeginTransaction
  <2> DEFINE d == Opened(g)
             n == IF q.ok THEN 1 ELSE q.h.level
  <2>3. /\ d \in HandleType /\ d.inTx = TRUE /\ d.saves = h.saves /\ d.db = h.db
        /\ d.cur = h.cur /\ d.err = h.err /\ d.faults = h.faults
    <3>1. /\ d \in HandleType /\ d.inTx = TRUE /\ d.saves = g.saves /\ d.db = g.db
          /\ d.cur = g.cur /\ d.err = g.err /\ d.faults = g.faults
      BY <1>4, OpenedIs, Zenon
    <3>2. QED BY <1>4, <3>1, Zenon
  <2>4. /\ q \in ResultType
        /\ q.ok => q.h = d
        /\ ~q.ok => "begin" \in Failing /\ Fails(g, q.h)
    BY <1>1, <1>4, <2>2, <2>3, ExecuteResults, SMTT(30)
  <2> HIDE DEF d
  <2>5. n = (IF q.ok THEN 1 ELSE 0) /\ n \in Nat BY <1>4, <2>1, <2>4 DEF Fails
  <2>6. LevelSet(q, n, r) BY <2>2, Zenon DEF LevelSet
  <2> HIDE DEF n
  <2>7. r \in ResultType /\ r.ok = q.ok /\ r.h.level = n /\ ButLevel(q.h, r.h)
    BY <2>4, <2>5, <2>6, ResultLevel, ZenonT(30)
  <2>8. CASE q.ok
    <3>1. /\ r.h \in HandleType /\ r.h.level = 1 /\ r.h.inTx /\ r.h.db = h.db /\ r.h.cur = h.cur
          /\ r.h.err = h.err /\ r.h.faults = h.faults
      BY <2>3, <2>4, <2>5, <2>7, <2>8, Zenon DEF ButLevel
    <3>2. Nested(r.h) /\ r.h.level >= 1 BY <3>1 DEF Nested
    <3>3. QED BY <1>8, <2>7, <2>8, <3>1, <3>2, Zenon DEF Sound, Begun
  <2>9. CASE ~q.ok
    <3>1. /\ r.h \in HandleType /\ r.h.level = 0 /\ r.h.db = h.db /\ r.h.faults # h.faults
          /\ r.h.err = (IF h.err = "Allowed" THEN "Allowed" ELSE "Fatal")
          /\ ~r.h.inTx /\ r.h.cur = h.cur /\ r.h.saves = h.saves
      BY <1>4, <1>8, <2>4, <2>5, <2>7, <2>9, Zenon DEF ButLevel, Fails
    <3>2. r.h.level <= h.level BY <1>2, <3>1
    <3>3. Sound(r.h) BY <1>8, <3>1, Zenon DEF Firm, Sound
    <3>4. QED BY <2>4, <2>7, <2>9, <3>1, <3>2, <3>3, Zenon DEF NotBegun
  <2>10. QED BY <2>4, <2>8, <2>9 DEF ResultType
<1>9. QED BY <1>2, <1>6, <1>7, <1>8

\* It puts the level right first.
LEMMA PutRightIs ==
    ASSUME TransactionConstants, NEW h, Sound(h)
    PROVE  LET g == PutRight(h) IN
           /\ Firm(g) /\ BeginTransaction(g) = BeginTransaction(h)
           /\ g.inTx = h.inTx /\ g.db = h.db /\ g.cur = h.cur /\ g.saves = h.saves
           /\ g.err = h.err /\ g.faults = h.faults
           /\ g.level = h.level \/ (g.level = 1 /\ "rollback" \in Failing)
<1> DEFINE l == IF h.inTx /\ h.level = 0 THEN 1 ELSE h.level
           g == [h EXCEPT !.level = l]
<1>1. h \in HandleType /\ h.level \in Nat BY DEF Sound, HandleType
<1>2. /\ l \in Nat /\ (h.inTx => l >= 1)
      /\ l = h.level \/ (l = 1 /\ h.inTx /\ ~(h.level >= 1))
  BY <1>1
<1>3. PutRight(h) = g BY Zenon DEF PutRight
<1> HIDE DEF l
<1>4. /\ g \in HandleType /\ g.level = l
      /\ g.inTx = h.inTx /\ g.db = h.db /\ g.cur = h.cur /\ g.saves = h.saves
      /\ g.err = h.err /\ g.faults = h.faults
  BY <1>1, <1>2, LevelIs, Zenon
<1>5. [g EXCEPT !.level = IF ~g.inTx THEN 0 ELSE IF @ = 0 THEN 1 ELSE @]
        = [h EXCEPT !.level = IF ~h.inTx THEN 0 ELSE IF @ = 0 THEN 1 ELSE @]
  BY <1>1, <1>4, Zenon DEF l, HandleType
<1>6. BeginTransaction(g) = BeginTransaction(h)
  BY <1>4, <1>5, Zenon DEF BeginTransaction
<1> HIDE DEF g
<1>7. l = h.level \/ (l = 1 /\ "rollback" \in Failing) BY <1>2, Zenon DEF Sound
<1>8. h.inTx /\ h.err = "Allowed" => Nested(g)
  <2>1. CASE l = h.level BY <1>4, <2>1, SameNesting, Zenon DEF Sound
  <2>2. CASE l = 1 BY <1>4, <2>2 DEF Nested
  <2>3. QED BY <1>7, <2>1, <2>2, Zenon
<1>9. Firm(g) BY <1>2, <1>4, <1>8, Zenon DEF Firm, Sound
<1>10. QED BY <1>3, <1>4, <1>6, <1>7, <1>9, Zenon

\* The savepoint of the level is gone, or it is the last one.
LEMMA ReleasedIs ==
    ASSUME NEW h \in HandleType, Nested(h), h.level > 1
    PROVE  LET g == Released(h, h.level) IN
           /\ g \in HandleType /\ g.saves = SubSeq(h.saves, 1, SaveIndex(h, h.level) - 1)
           /\ SaveIndex(h, h.level) - 1 \in Nat
           /\ g.inTx = h.inTx /\ g.db = h.db /\ g.cur = h.cur
           /\ g.level = h.level /\ g.err = h.err /\ g.cached = h.cached /\ g.faults = h.faults
<1> DEFINE i == SaveIndex(h, h.level)
           saves == SubSeq(h.saves, 1, i - 1)
           g == [h EXCEPT !.saves = saves]
<1>1. h.level \in 2..h.level BY DEF HandleType
<1>2. i \in 1..Len(h.saves) BY <1>1, Zenon DEF Nested, Innermost
<1> HIDE DEF i
<1>3. saves \in Seq(SaveType) /\ i - 1 \in Nat BY <1>2 DEF HandleType
<1>4. Released(h, h.level) = g BY Zenon DEF Released, i
<1> HIDE DEF saves
<1>5. /\ g \in HandleType /\ g.saves = saves
      /\ g.inTx = h.inTx /\ g.db = h.db /\ g.cur = h.cur
      /\ g.level = h.level /\ g.err = h.err /\ g.cached = h.cached /\ g.faults = h.faults
  BY <1>3, Zenon DEF HandleType
<1>6. QED BY <1>3, <1>4, <1>5, Zenon DEF saves, i

LEMMA BackToIs ==
    ASSUME NEW h \in HandleType, Nested(h), h.level > 1
    PROVE  LET g == BackTo(h, h.level) IN
           /\ g \in HandleType /\ g.saves = SubSeq(h.saves, 1, SaveIndex(h, h.level))
           /\ SaveIndex(h, h.level) \in Nat
           /\ g.cur = h.saves[SaveIndex(h, h.level)].at
           /\ g.inTx = h.inTx /\ g.db = h.db
           /\ g.level = h.level /\ g.err = h.err /\ g.cached = h.cached /\ g.faults = h.faults
<1> DEFINE i == SaveIndex(h, h.level)
           saves == SubSeq(h.saves, 1, i)
           at == h.saves[i].at
           g == [h EXCEPT !.saves = saves, !.cur = at]
<1>1. h.level \in 2..h.level BY DEF HandleType
<1>2. i \in 1..Len(h.saves) BY <1>1, Zenon DEF Nested, Innermost
<1> HIDE DEF i
<1>3. saves \in Seq(SaveType) /\ i \in Nat /\ at \in SUBSET Writes
  <2>1. h.saves \in Seq(SaveType) BY DEF HandleType
  <2>2. h.saves[i] \in SaveType /\ saves \in Seq(SaveType) /\ i \in Nat BY <1>2, <2>1
  <2>3. QED BY <2>2 DEF SaveType
<1>4. BackTo(h, h.level) = g BY Zenon DEF BackTo, i
<1> HIDE DEF saves, at
<1>5. /\ g \in HandleType /\ g.saves = saves /\ g.cur = at
      /\ g.inTx = h.inTx /\ g.db = h.db
      /\ g.level = h.level /\ g.err = h.err /\ g.cached = h.cached /\ g.faults = h.faults
  BY <1>3, Zenon DEF HandleType
<1>6. QED BY <1>3, <1>4, <1>5, Zenon DEF saves, at, i

\* The level and the error of a result.
EndSet(q, r) == r = [q EXCEPT !.h.level = IF q.ok THEN 0 ELSE @,
                                 !.h.err = IF q.ok THEN "Allowed" ELSE @]

LEMMA ResultEnd ==
    ASSUME NEW q \in ResultType, NEW r, EndSet(q, r)
    PROVE  /\ r \in ResultType /\ r.ok = q.ok
           /\ r.h.level = IF q.ok THEN 0 ELSE q.h.level
           /\ r.h.err = IF q.ok THEN "Allowed" ELSE q.h.err
           /\ r.h.inTx = q.h.inTx /\ r.h.db = q.h.db /\ r.h.cur = q.h.cur
           /\ r.h.saves = q.h.saves /\ r.h.cached = q.h.cached /\ r.h.faults = q.h.faults
<1> DEFINE l == IF q.ok THEN 0 ELSE q.h.level
           x == IF q.ok THEN "Allowed" ELSE q.h.err
           g == [q.h EXCEPT !.level = l, !.err = x]
<1>1. q.h \in HandleType /\ l \in Nat /\ x \in TransactionErrors
  BY DEF ResultType, HandleType, TransactionErrors
<1>2. r = [q EXCEPT !.h = g] BY Zenon DEF EndSet
<1> HIDE DEF l, x
<1>3. /\ g \in HandleType /\ g.level = l /\ g.err = x
      /\ g.inTx = q.h.inTx /\ g.db = q.h.db /\ g.cur = q.h.cur
      /\ g.saves = q.h.saves /\ g.cached = q.h.cached /\ g.faults = q.h.faults
  BY <1>1, Zenon DEF HandleType
<1> HIDE DEF g
<1>4. r \in ResultType /\ r.ok = q.ok /\ r.h = g BY <1>2, <1>3, SMTT(30) DEF ResultType
<1>5. QED BY <1>3, <1>4, Zenon DEF l, x

\* g is h after commitTransaction.
Committed(h, g) ==
    /\ g.faults = h.faults
    /\ h.level > 1 =>
          /\ g.level = h.level - 1 /\ g.inTx = h.inTx /\ g.db = h.db
          /\ g.cur = h.cur /\ g.err = h.err
          /\ h.inTx /\ h.err = "Allowed" => SameLevels(h, g, h.level - 1)
    /\ h.level <= 1 =>
          g.level = 0 /\ ~g.inTx /\ g.db = h.cur /\ g.cur = h.cur /\ g.err = "Allowed"

\* g is h after a commitTransaction that failed.
NotCommitted(h, g) ==
    /\ g.faults # h.faults /\ {"commit", "release"} \cap Failing # {}
    /\ g.level = h.level /\ g.db = h.db /\ h.inTx
    /\ h.err = "Allowed" \/ h.level > 1 => g.err = h.err
    /\ g.inTx => g.cur = h.cur /\ g.saves = h.saves

\* commitTransaction.
LEMMA CommitResults ==
    ASSUME TransactionConstants, NEW h, Sound(h), NEW r \in CommitTransaction(h)
    PROVE  /\ r \in ResultType /\ Sound(r.h)
           /\ r.ok => Committed(h, r.h)
           /\ ~r.ok => NotCommitted(h, r.h)
<1>1. MaxFaults \in Nat /\ h \in HandleType BY DEF TransactionConstants, Sound
<1>2. /\ h.level \in Nat /\ h.cur \in SUBSET Writes /\ h.db \in SUBSET Writes
      /\ h.inTx \in BOOLEAN /\ h.err \in TransactionErrors
      /\ (h.level > 1) = ~(h.level <= 1)
  BY <1>1, SMTT(30) DEF HandleType
<1>3. CASE h.level > 1 /\ h.err = "Allowed" /\ h.inTx
  <2>1. PICK q \in Execute("release", h, Released(h, h.level)) :
           r = [q EXCEPT !.h.level = IF q.ok THEN @ - 1 ELSE @]
    BY <1>3, Zenon DEF CommitTransaction
  <2> DEFINE d == Released(h, h.level)
             n == IF q.ok THEN q.h.level - 1 ELSE q.h.level
             i == SaveIndex(h, h.level) - 1
  <2>2. Nested(h) BY <1>3 DEF Sound
  <2>3. /\ d \in HandleType /\ d.saves = SubSeq(h.saves, 1, i) /\ i \in Nat
        /\ d.inTx = h.inTx /\ d.db = h.db /\ d.cur = h.cur
        /\ d.level = h.level /\ d.err = h.err /\ d.faults = h.faults
    BY <1>1, <1>3, <2>2, ReleasedIs, Zenon
  <2>4. /\ q \in ResultType
        /\ q.ok => q.h = d
        /\ ~q.ok => "release" \in Failing /\ Fails(h, q.h)
    BY <1>1, <2>1, <2>3, ExecuteResults, Zenon
  <2> HIDE DEF d, i
  <2>5. q.h.level = h.level /\ n \in Nat /\ n = IF q.ok THEN h.level - 1 ELSE h.level
    <3>1. q.h.level = h.level BY <2>3, <2>4, Zenon DEF Fails
    <3>2. QED BY <1>2, <1>3, <3>1
  <2>6. LevelSet(q, n, r) BY <2>1, Zenon DEF LevelSet
  <2> HIDE DEF n
  <2>7. r \in ResultType /\ r.ok = q.ok /\ r.h.level = n /\ ButLevel(q.h, r.h)
    BY <2>4, <2>5, <2>6, ResultLevel, ZenonT(30)
  <2>8. CASE q.ok
    <3>1. /\ r.h \in HandleType /\ r.h.level = h.level - 1
          /\ r.h.inTx = h.inTx /\ r.h.db = h.db /\ r.h.cur = h.cur
          /\ r.h.saves = SubSeq(h.saves, 1, i) /\ r.h.err = h.err /\ r.h.faults = h.faults
      BY <2>3, <2>4, <2>5, <2>7, <2>8, Zenon DEF ButLevel
    <3>2. h.level >= 2 /\ r.h.level >= 1 BY <1>2, <1>3, <3>1
    <3> DEFINE e == r.h
    <3>3. Narrows(h, i, e) BY <2>3, <3>1, Zenon DEF Narrows, i
    <3> HIDE DEF e
    <3>4. Nested(e) /\ SameLevels(h, e, e.level)
      BY <1>1, <2>2, <2>3, <3>2, <3>3, SavepointEnds, Zenon
    <3>5. Sound(r.h) BY <1>3, <3>1, <3>2, <3>4, Zenon DEF Sound, e
    <3>6. QED BY <1>2, <1>3, <2>7, <2>8, <3>1, <3>4, <3>5, Zenon DEF Committed, e
  <2>9. CASE ~q.ok
    <3>1. /\ r.h \in HandleType /\ r.h.level = h.level /\ r.h.level >= 1
          /\ r.h.db = h.db /\ r.h.faults # h.faults /\ r.h.err = "Allowed"
          /\ \/ r.h.inTx /\ r.h.cur = h.cur /\ r.h.saves = h.saves
             \/ ~r.h.inTx /\ r.h.cur = h.db /\ r.h.saves = <<>>
      <4>1. n = h.level /\ n >= 1 BY <1>2, <1>3, <2>5, <2>9
      <4>2. QED BY <1>3, <2>4, <2>7, <2>9, <4>1, Zenon DEF ButLevel, Fails
    <3>2. r.h.inTx => Nested(r.h) BY <2>2, <3>1, SameNesting, Zenon
    <3>3. Sound(r.h) BY <3>1, <3>2, Zenon DEF Sound
    <3>4. {"commit", "release"} \cap Failing # {} BY <2>4, <2>9
    <3>5. QED BY <1>3, <2>7, <2>9, <3>1, <3>3, <3>4, Zenon DEF NotCommitted
  <2>10. QED BY <2>4, <2>8, <2>9 DEF ResultType
<1>4. CASE h.level > 1 /\ ~(h.err = "Allowed" /\ h.inTx)
  <2>1. PICK s \in {[ok |-> TRUE, h |-> h]} : r = [s EXCEPT !.h.level = IF s.ok THEN @ - 1 ELSE @]
    BY <1>4, Zenon DEF CommitTransaction
  <2>2. s \in ResultType /\ s.ok /\ s.h = h
    <3>1. s = [ok |-> TRUE, h |-> h] OBVIOUS
    <3>2. QED BY <1>1, <3>1 DEF ResultType
  <2> DEFINE n == s.h.level - 1
  <2>3. LevelSet(s, n, r) BY <2>1, <2>2, Zenon DEF LevelSet
  <2>4. n = h.level - 1 /\ n \in Nat /\ n >= 1 BY <1>2, <1>4, <2>2
  <2> HIDE DEF n
  <2>5. r \in ResultType /\ r.ok = s.ok /\ r.h.level = n /\ ButLevel(s.h, r.h)
    BY <2>2, <2>3, <2>4, ResultLevel, ZenonT(30)
  <2>6. /\ r.ok /\ r.h \in HandleType /\ r.h.level = h.level - 1 /\ r.h.level >= 1
        /\ r.h.inTx = h.inTx /\ r.h.db = h.db /\ r.h.cur = h.cur /\ r.h.saves = h.saves
        /\ r.h.err = h.err /\ r.h.faults = h.faults
    BY <2>2, <2>4, <2>5, Zenon DEF ButLevel
  <2>7. Sound(r.h) BY <1>4, <2>6, Zenon DEF Sound
  <2>8. QED BY <1>2, <1>4, <2>5, <2>6, <2>7, Zenon DEF Committed
<1>5. CASE h.level <= 1 /\ h.inTx
  <2>1. PICK q \in Execute("commit", h, Closed(h, h.cur)) : EndSet(q, r)
    BY <1>2, <1>5, Zenon DEF CommitTransaction, EndSet
  <2> DEFINE d == Closed(h, h.cur)
  <2>2. /\ d \in HandleType /\ d.inTx = FALSE /\ d.db = h.cur /\ d.cur = h.cur /\ d.saves = <<>>
        /\ d.level = h.level /\ d.err = h.err /\ d.faults = h.faults
    BY <1>1, <1>2, ClosedIs, Zenon
  <2>3. /\ q \in ResultType
        /\ q.ok => q.h = d
        /\ ~q.ok => "commit" \in Failing /\ Fails(h, q.h)
    BY <1>1, <2>1, <2>2, ExecuteResults, Zenon
  <2> HIDE DEF d
  <2>4. /\ r \in ResultType /\ r.ok = q.ok
        /\ r.h.level = IF q.ok THEN 0 ELSE q.h.level
        /\ r.h.err = IF q.ok THEN "Allowed" ELSE q.h.err
        /\ r.h.inTx = q.h.inTx /\ r.h.db = q.h.db /\ r.h.cur = q.h.cur
        /\ r.h.saves = q.h.saves /\ r.h.faults = q.h.faults
    BY <2>1, <2>3, ResultEnd, Zenon
  <2>5. r.h \in HandleType BY <2>4 DEF ResultType
  <2>6. CASE q.ok
    <3>1. /\ r.h.level = 0 /\ ~r.h.inTx /\ r.h.db = h.cur /\ r.h.cur = h.cur /\ r.h.saves = <<>>
          /\ r.h.err = "Allowed" /\ r.h.faults = h.faults
      BY <2>2, <2>3, <2>4, <2>6, Zenon
    <3>2. QED BY <1>2, <1>5, <2>4, <2>5, <2>6, <3>1, Zenon DEF Sound, Committed
  <2>7. CASE ~q.ok
    <3>1. /\ r.h.level = h.level /\ r.h.db = h.db /\ r.h.faults # h.faults
          /\ r.h.err = (IF h.err = "Allowed" THEN "Allowed" ELSE "Fatal")
          /\ \/ r.h.inTx /\ r.h.cur = h.cur /\ r.h.saves = h.saves
             \/ ~r.h.inTx /\ r.h.cur = h.db /\ r.h.saves = <<>>
      BY <1>5, <2>3, <2>4, <2>7, Zenon DEF Fails
    <3>2. r.h.inTx /\ r.h.err = "Allowed" => Nested(r.h) BY <1>2, <1>5, <3>1 DEF Nested
    <3>3. Sound(r.h) BY <1>5, <2>5, <3>1, <3>2, Zenon DEF Sound
    <3>4. {"commit", "release"} \cap Failing # {} BY <2>3, <2>7
    <3>5. QED BY <1>2, <1>5, <2>4, <2>7, <3>1, <3>3, <3>4, Zenon DEF NotCommitted
  <2>8. QED BY <2>3, <2>6, <2>7 DEF ResultType
<1>6. CASE h.level <= 1 /\ ~h.inTx
  <2>1. PICK s \in {[ok |-> TRUE, h |-> h]} : EndSet(s, r)
    BY <1>2, <1>6, Zenon DEF CommitTransaction, EndSet
  <2>2. s \in ResultType /\ s.ok /\ s.h = h
    <3>1. s = [ok |-> TRUE, h |-> h] OBVIOUS
    <3>2. QED BY <1>1, <3>1 DEF ResultType
  <2>3. /\ r \in ResultType /\ r.ok /\ r.h.level = 0 /\ r.h.err = "Allowed"
        /\ ~r.h.inTx /\ r.h.db = h.db /\ r.h.cur = h.cur
        /\ r.h.saves = h.saves /\ r.h.faults = h.faults
    <3>1. /\ r \in ResultType /\ r.ok = s.ok
          /\ r.h.level = IF s.ok THEN 0 ELSE s.h.level
          /\ r.h.err = IF s.ok THEN "Allowed" ELSE s.h.err
          /\ r.h.inTx = s.h.inTx /\ r.h.db = s.h.db /\ r.h.cur = s.h.cur
          /\ r.h.saves = s.h.saves /\ r.h.faults = s.h.faults
      BY <2>1, <2>2, ResultEnd, Zenon
    <3>2. r.ok /\ r.h.level = 0 /\ r.h.err = "Allowed" BY <2>2, <3>1, Zenon
    <3>3. QED BY <1>6, <2>2, <3>1, <3>2, Zenon
  <2>4. r.h \in HandleType BY <2>3 DEF ResultType
  <2>5. h.saves = <<>> /\ h.cur = h.db BY <1>6, Zenon DEF Sound
  <2>6. QED BY <1>2, <1>6, <2>3, <2>4, <2>5, Zenon DEF Sound, Committed
<1>7. QED BY <1>2, <1>3, <1>4, <1>5, <1>6

\* g is h after what was done at its level is undone.
Undone(h, g) ==
    /\ g.db = h.db
    /\ h.level > 1 =>
          /\ g.level = h.level - 1 /\ g.err = h.err
          /\ g.inTx => h.inTx
          /\ g.inTx /\ h.err = "Allowed" =>
                g.cur = h.saves[SaveIndex(h, h.level)].at /\ SameLevels(h, g, h.level - 1)
    /\ h.level <= 1 => g.level = 0 /\ ~g.inTx /\ g.err = "Allowed"

LevelAbove(h) == IF h.level > 1 THEN h.level - 1 ELSE 0

\* No rollback of an application with a journal fails.
Undoes == {"rollback", "rollbackTo"} \cap Failing = {}

\* rollbackTransaction with a journal.
LEMMA JournalRollback ==
    ASSUME TransactionConstants, ~Lite, NEW h, Sound(h), NEW g \in RollbackTransaction(h)
    PROVE  /\ Sound(g) /\ g.level = LevelAbove(h)
           /\ h.err = "Allowed" => g.err = "Allowed"
           /\ Undoes => /\ Undone(h, g) /\ g.faults = h.faults
                        /\ h.level > 1 => g.inTx = h.inTx
<1>1. MaxFaults \in Nat /\ h \in HandleType BY DEF TransactionConstants, Sound
<1>2. /\ h.level \in Nat /\ h.cur \in SUBSET Writes /\ h.db \in SUBSET Writes
      /\ h.inTx \in BOOLEAN /\ h.err \in TransactionErrors
      /\ (h.level > 1) = ~(h.level <= 1)
  BY <1>1 DEF HandleType
<1>3. CASE h.level > 1 /\ h.err = "Allowed" /\ h.inTx
  <2> DEFINE d == BackTo(h, h.level)
             i == SaveIndex(h, h.level)
  <2>1. PICK q \in Execute("rollbackTo", h, d) : g = [q.h EXCEPT !.level = @ - 1]
    BY <1>3, Zenon DEF RollbackTransaction
  <2>2. Nested(h) BY <1>3 DEF Sound
  <2>3. /\ d \in HandleType /\ d.saves = SubSeq(h.saves, 1, i) /\ i \in Nat
        /\ d.cur = h.saves[i].at /\ d.inTx = h.inTx /\ d.db = h.db
        /\ d.level = h.level /\ d.err = h.err /\ d.faults = h.faults
    BY <1>1, <1>3, <2>2, BackToIs, Zenon
  <2> HIDE DEF d, i
  <2>4. /\ q \in ResultType
        /\ q.ok => q.h = d
        /\ ~q.ok => "rollbackTo" \in Failing /\ Fails(h, q.h)
    BY <1>1, <2>1, <2>3, ExecuteResults, Zenon
  <2> DEFINE e == q.h
             n == e.level - 1
  <2>5. e \in HandleType /\ e.level = h.level /\ e.err = h.err
    <3>1. e \in HandleType BY <2>4 DEF ResultType
    <3>2. QED BY <1>3, <2>3, <2>4, <3>1, Zenon DEF Fails
  <2>6. g = [e EXCEPT !.level = n] BY <2>1, Zenon
  <2>7. n = h.level - 1 /\ n \in Nat /\ n >= 1 /\ h.level >= 2 BY <1>2, <1>3, <2>5
  <2> HIDE DEF n, e
  <2>8. /\ g \in HandleType /\ g.level = n
        /\ g.inTx = e.inTx /\ g.db = e.db /\ g.cur = e.cur /\ g.saves = e.saves
        /\ g.err = e.err /\ g.faults = e.faults
    BY <2>5, <2>6, <2>7, LevelIs, ZenonT(30)
  <2>9. g.level = LevelAbove(h) /\ g.err = "Allowed"
    BY <1>3, <2>5, <2>7, <2>8, Zenon DEF LevelAbove
  <2>10. CASE q.ok
    <3>1. e = d BY <2>4, <2>10, Zenon DEF e
    <3>2. Narrows(h, i, g) BY <2>3, <2>7, <2>8, <3>1, Zenon DEF Narrows, i
    <3>3. Nested(g) /\ SameLevels(h, g, g.level)
      BY <1>1, <2>2, <2>3, <2>7, <3>2, SavepointEnds, Zenon
    <3>4. Sound(g) BY <1>3, <2>3, <2>7, <2>8, <3>1, <3>3, Zenon DEF Sound
    <3>5. Undone(h, g) BY <1>2, <1>3, <2>3, <2>7, <2>8, <3>1, <3>3, Zenon DEF Undone, i
    <3>6. g.faults = h.faults /\ g.inTx = h.inTx BY <2>3, <2>8, <3>1, Zenon
    <3>7. QED BY <2>9, <3>4, <3>5, <3>6, Zenon
  <2>11. CASE ~q.ok
    <3>1. "rollbackTo" \in Failing /\ Fails(h, e) BY <2>4, <2>11, Zenon DEF e
    <3>2. ~Undoes BY <3>1 DEF Undoes
    <3>3. g.inTx => Nested(g)
      <4>1. SUFFICES ASSUME g.inTx PROVE Nested(g) BY Zenon
      <4>2. g.saves = h.saves BY <2>8, <3>1, <4>1, Zenon DEF Fails
      <4>3. \A k \in 2..g.level : k \in 2..h.level BY <1>2, <2>7, <2>8
      <4>4. /\ \A k \in 2..g.level : Innermost(h, k, SaveIndex(h, k))
            /\ \A k, m \in 2..g.level : k < m => SaveIndex(h, k) < SaveIndex(h, m)
        BY <2>2, <4>3, Zenon DEF Nested
      <4>5. QED BY <4>2, <4>4, SameSaves, ZenonT(30) DEF Nested
    <3>4. ~g.inTx => g.saves = <<>> /\ g.cur = g.db BY <1>3, <2>8, <3>1, Zenon DEF Fails
    <3>5. Sound(g) BY <2>7, <2>8, <3>3, <3>4, Zenon DEF Sound
    <3>6. QED BY <2>9, <3>2, <3>5, Zenon
  <2>12. QED BY <2>10, <2>11, Zenon
<1>4. CASE h.level > 1 /\ ~(h.err = "Allowed" /\ h.inTx)
  <2> DEFINE n == h.level - 1
  <2>1. PICK q \in {[ok |-> TRUE, h |-> h]} : g = [q.h EXCEPT !.level = @ - 1]
    BY <1>4, Zenon DEF RollbackTransaction
  <2>2. q.h = h OBVIOUS
  <2>3. g = [h EXCEPT !.level = n] BY <2>1, <2>2, Zenon
  <2>4. n \in Nat /\ n >= 1 BY <1>2, <1>4
  <2> HIDE DEF n
  <2>5. /\ g \in HandleType /\ g.level = n
        /\ g.inTx = h.inTx /\ g.db = h.db /\ g.cur = h.cur /\ g.saves = h.saves
        /\ g.err = h.err /\ g.faults = h.faults
    BY <1>1, <2>3, <2>4, LevelIs, Zenon
  <2>6. Sound(g) BY <1>4, <2>4, <2>5, Zenon DEF Sound
  <2>7. QED BY <1>2, <1>4, <2>5, <2>6, Zenon DEF Undone, LevelAbove, n
<1>5. ASSUME h.level <= 1, NEW d \in HandleType, g = [d EXCEPT !.level = 0, !.err = "Allowed"],
             d.db = h.db,
             /\ d.inTx => "rollback" \in Failing
             /\ ~d.inTx => d.cur = h.db /\ d.saves = <<>>,
             Undoes => ~d.inTx /\ d.faults = h.faults
      PROVE  /\ Sound(g) /\ g.level = LevelAbove(h) /\ g.err = "Allowed"
             /\ Undoes => Undone(h, g) /\ g.faults = h.faults
  <2>1. /\ g \in HandleType /\ g.level = 0 /\ g.err = "Allowed"
        /\ g.inTx = d.inTx /\ g.db = h.db /\ g.cur = d.cur /\ g.saves = d.saves
        /\ g.faults = d.faults
    <3>1. 0 \in Nat /\ "Allowed" \in TransactionErrors BY DEF TransactionErrors
    <3>2. QED BY <1>5, <3>1, Zenon DEF HandleType
  <2>2. Nested(g) BY <2>1 DEF Nested
  <2>3. Sound(g) BY <1>5, <2>1, <2>2, Zenon DEF Sound
  <2>4. g.level = LevelAbove(h) BY <1>2, <1>5, <2>1, Zenon DEF LevelAbove
  <2>5. Undoes => Undone(h, g) /\ g.faults = h.faults BY <1>2, <1>5, <2>1, Zenon DEF Undone
  <2>6. QED BY <2>1, <2>3, <2>4, <2>5, Zenon
<1>6. CASE h.level <= 1 /\ h.inTx
  <2> DEFINE d == Closed(h, h.db)
  <2>1. PICK q \in Execute("rollback", h, d) : g = [q.h EXCEPT !.level = 0, !.err = "Allowed"]
    BY <1>2, <1>6, Zenon DEF RollbackTransaction
  <2>2. /\ d \in HandleType /\ d.inTx = FALSE /\ d.db = h.db /\ d.cur = h.db /\ d.saves = <<>>
        /\ d.faults = h.faults
    BY <1>1, <1>2, ClosedIs, Zenon
  <2> HIDE DEF d
  <2>3. /\ q \in ResultType
        /\ q.ok => q.h = d
        /\ ~q.ok => "rollback" \in Failing /\ Fails(h, q.h)
    BY <1>1, <2>1, <2>2, ExecuteResults, Zenon
  <2> DEFINE e == q.h
  <2>4. e \in HandleType BY <2>3 DEF ResultType
  <2>5. CASE q.ok
    <3>1. e = d BY <2>3, <2>5, Zenon
    <3> HIDE DEF e
    <3>2. QED BY <1>2, <1>5, <1>6, <2>1, <2>2, <3>1, Zenon DEF e
  <2>6. CASE ~q.ok
    <3>1. "rollback" \in Failing /\ Fails(h, e) BY <2>3, <2>6, Zenon
    <3>2. ~Undoes BY <3>1 DEF Undoes
    <3>3. g = [e EXCEPT !.level = 0, !.err = "Allowed"] BY <2>1, Zenon
    <3> HIDE DEF e
    <3>4. e.db = h.db /\ (~e.inTx => e.cur = h.db /\ e.saves = <<>>)
      BY <1>6, <3>1, Zenon DEF Fails
    <3>5. QED BY <1>2, <1>5, <1>6, <2>4, <3>1, <3>2, <3>3, <3>4, Zenon
  <2>7. QED BY <2>5, <2>6, Zenon
<1>7. CASE h.level <= 1 /\ ~h.inTx
  <2>1. PICK q \in {[ok |-> TRUE, h |-> h]} : g = [q.h EXCEPT !.level = 0, !.err = "Allowed"]
    BY <1>2, <1>7, Zenon DEF RollbackTransaction
  <2>2. q.h = h OBVIOUS
  <2>3. g = [h EXCEPT !.level = 0, !.err = "Allowed"] BY <2>1, <2>2, Zenon
  <2>4. h.cur = h.db /\ h.saves = <<>> BY <1>7, Zenon DEF Sound
  <2>5. QED BY <1>1, <1>2, <1>5, <1>7, <2>3, <2>4, Zenon
<1>8. QED BY <1>2, <1>3, <1>4, <1>6, <1>7, Zenon

\* What notifyError does to a handle between two operations.
LEMMA NotifiedIsSound ==
    ASSUME NEW h, Sound(h)
    PROVE  /\ Sound(NotifyError(h)) /\ NotifyError(h).level = h.level
           /\ h.err = "Allowed" => NotifyError(h).err = "Allowed"
<1> DEFINE g == NotifyError(h)
<1>1. h \in HandleType BY DEF Sound
<1>2. /\ g \in HandleType
      /\ g.err = (IF h.err = "Allowed" THEN "Allowed" ELSE "Fatal")
      /\ g.inTx = h.inTx /\ g.db = h.db /\ g.cur = h.cur /\ g.saves = h.saves
      /\ g.level = h.level
  BY <1>1, NotifyErrorIs, Zenon
<1> HIDE DEF g
<1>3. Nested(h) => Nested(g) BY <1>2, SameNesting, Zenon
<1>4. g.err = "Allowed" => h.err = "Allowed" BY <1>2
<1>5. Sound(g) BY <1>2, <1>3, <1>4, Zenon DEF Sound
<1>6. QED BY <1>2, <1>5, Zenon DEF g

\* No rollback of an application in lite mode fails.
RollsBack == Lite => {"commit", "release"} \cap Failing = {}

\* rollbackTransaction.
LEMMA RollbackResults ==
    ASSUME TransactionConstants, NEW h, Sound(h), NEW g \in RollbackTransaction(h)
    PROVE  /\ Sound(g)
           /\ h.err = "Allowed" => g.err = "Allowed"
           /\ RollsBack => g.level = LevelAbove(h)
           /\ ~Lite /\ Undoes => /\ Undone(h, g) /\ g.faults = h.faults
                                 /\ h.level > 1 => g.inTx = h.inTx
<1>1. h.level \in Nat BY DEF Sound, HandleType
<1>2. CASE Lite
  <2>1. PICK r \in CommitTransaction(NotifyError(h)) : g = r.h BY <1>2, Zenon DEF RollbackTransaction
  <2> DEFINE e == NotifyError(h)
  <2>2. /\ Sound(e) /\ e.level = h.level
        /\ h.err = "Allowed" => e.err = "Allowed"
    BY NotifiedIsSound, Zenon
  <2>3. /\ r \in ResultType /\ Sound(r.h)
        /\ r.ok => Committed(e, r.h)
        /\ ~r.ok => NotCommitted(e, r.h)
    BY <2>2, CommitResults, Zenon
  <2> HIDE DEF e
  <2>4. h.err = "Allowed" => g.err = "Allowed" BY <1>1, <2>1, <2>2, <2>3 DEF Committed, NotCommitted
  <2>5. RollsBack => r.ok BY <1>2, <2>3, Zenon DEF RollsBack, NotCommitted
  <2>6. RollsBack => g.level = LevelAbove(h)
    BY <1>1, <2>1, <2>2, <2>3, <2>5 DEF Committed, LevelAbove
  <2>7. QED BY <1>2, <2>1, <2>3, <2>4, <2>6, Zenon
<1>3. CASE ~Lite
  BY <1>3, JournalRollback, Zenon
<1>4. QED BY <1>2, <1>3, Zenon

\* What is undone after a commit that failed is what the commit should have kept.
LEMMA UndoneAfterFailure ==
    ASSUME NEW h, h.level \in Nat, NEW q, NotCommitted(h, q), NEW u, Undone(q, u)
    PROVE  Undone(h, u)
<1>1. /\ q.level = h.level /\ q.db = h.db /\ h.inTx
      /\ h.level > 1 => q.err = h.err
      /\ q.inTx => q.saves = h.saves
  BY Zenon DEF NotCommitted
<1>2. ASSUME h.level > 1, u.inTx, h.err = "Allowed"
      PROVE  u.cur = h.saves[SaveIndex(h, h.level)].at /\ SameLevels(h, u, h.level - 1)
  <2>1. /\ q.saves = h.saves /\ u.cur = q.saves[SaveIndex(q, q.level)].at
        /\ SameLevels(q, u, q.level - 1)
    BY <1>1, <1>2, Zenon DEF Undone
  <2>2. \A name : SaveIndex(q, name) = SaveIndex(h, name) BY <2>1, SameSaves, Zenon
  <2>3. QED BY <1>1, <2>1, <2>2, Zenon DEF SameLevels
<1>3. QED BY <1>1, <1>2, Zenon DEF Undone

\* commitOrRollbackTransaction.
LEMMA CommitOrRollbackResults ==
    ASSUME TransactionConstants, NEW h, Sound(h), NEW r \in CommitOrRollback(h)
    PROVE  /\ r \in ResultType /\ Sound(r.h)
           /\ h.err = "Allowed" => r.h.err = "Allowed"
           /\ RollsBack => r.h.level = LevelAbove(h)
           /\ r.ok => h.err # "Fatal" /\ Committed(h, r.h)
           /\ ~Lite /\ Undoes /\ ~r.ok =>
                 /\ Undone(h, r.h)
                 /\ r.h.faults = h.faults => h.err = "Fatal"
<1>1. h \in HandleType /\ h.level \in Nat BY DEF Sound, HandleType
<1>2. ASSUME NEW u, Sound(u), r = [ok |-> FALSE, h |-> u]
      PROVE  r \in ResultType /\ ~r.ok /\ r.h = u
  BY <1>2 DEF Sound, ResultType
<1>3. CASE h.err = "Fatal"
  <2>1. PICK u \in RollbackTransaction(h) : r = [ok |-> FALSE, h |-> u]
    BY <1>3, Zenon DEF CommitOrRollback
  <2>2. /\ Sound(u)
        /\ RollsBack => u.level = LevelAbove(h)
        /\ ~Lite /\ Undoes => Undone(h, u)
    BY RollbackResults, Zenon
  <2>3. r \in ResultType /\ ~r.ok /\ r.h = u BY <1>2, <2>1, <2>2, Zenon
  <2>4. h.err # "Allowed" BY <1>3
  <2>5. QED BY <1>3, <2>2, <2>3, <2>4, Zenon
<1>4. CASE h.err # "Fatal"
  <2>1. PICK q \in CommitTransaction(h) :
           r \in IF q.ok THEN {q} ELSE {[ok |-> FALSE, h |-> u] : u \in RollbackTransaction(q.h)}
    BY <1>4, Zenon DEF CommitOrRollback
  <2>2. /\ q \in ResultType /\ Sound(q.h)
        /\ q.ok => Committed(h, q.h)
        /\ ~q.ok => NotCommitted(h, q.h)
    BY CommitResults, Zenon
  <2>3. CASE q.ok
    <3>1. r = q BY <2>1, <2>3, SMTT(30)
    <3>2. /\ h.err = "Allowed" => q.h.err = "Allowed"
          /\ q.h.level = LevelAbove(h)
      BY <1>1, <2>2, <2>3 DEF Committed, LevelAbove
    <3>3. QED BY <1>4, <2>2, <2>3, <3>1, <3>2, ZenonT(30)
  <2>4. CASE ~q.ok
    <3>1. PICK u \in RollbackTransaction(q.h) : r = [ok |-> FALSE, h |-> u] BY <2>1, <2>4, Zenon
    <3>2. /\ Sound(u)
          /\ q.h.err = "Allowed" => u.err = "Allowed"
          /\ RollsBack => u.level = LevelAbove(q.h)
          /\ ~Lite /\ Undoes => Undone(q.h, u) /\ u.faults = q.h.faults
      BY <2>2, RollbackResults, Zenon
    <3>3. r \in ResultType /\ ~r.ok /\ r.h = u BY <1>2, <3>1, <3>2, Zenon
    <3>4. /\ h.err = "Allowed" => q.h.err = "Allowed"
          /\ q.h.level = h.level /\ q.h.faults # h.faults
      BY <2>2, <2>4, Zenon DEF NotCommitted
    <3>5. LevelAbove(q.h) = LevelAbove(h) BY <3>4, Zenon DEF LevelAbove
    <3>6. ~Lite /\ Undoes => Undone(h, u)
      <4> DEFINE e == q.h
      <4>1. NotCommitted(h, e) /\ (~Lite /\ Undoes => Undone(e, u)) BY <2>2, <2>4, <3>2, Zenon
      <4> HIDE DEF e
      <4>2. QED BY <1>1, <4>1, UndoneAfterFailure, Zenon
    <3>7. QED BY <3>2, <3>3, <3>4, <3>5, <3>6, Zenon
  <2>5. QED BY <2>2, <2>3, <2>4 DEF ResultType
<1>5. QED BY <1>3, <1>4, Zenon

\* g is h but for its errors.
ButErrors(h, g) ==
    /\ g.inTx = h.inTx /\ g.db = h.db /\ g.cur = h.cur /\ g.saves = h.saves
    /\ g.level = h.level /\ g.faults = h.faults

\* markErrorNotAllowed.
LEMMA MarkedIs ==
    ASSUME NEW h, Sound(h)
    PROVE  LET g == MarkErrorNotAllowed(h) IN
           /\ Sound(g) /\ ButErrors(h, g) /\ g.err # "Allowed"
           /\ g.err = "Fatal" => h.err = "Fatal"
<1> DEFINE x == IF h.err = "Allowed" THEN "NotAllowed" ELSE h.err
           g == [h EXCEPT !.err = x]
<1>1. h \in HandleType /\ x \in TransactionErrors /\ x # "Allowed"
      /\ (x = "Fatal" => h.err = "Fatal")
  BY DEF Sound, HandleType, TransactionErrors
<1>2. MarkErrorNotAllowed(h) = g BY Zenon DEF MarkErrorNotAllowed
<1> HIDE DEF x
<1>3. g \in HandleType /\ g.err = x /\ ButErrors(h, g) BY <1>1, Zenon DEF HandleType, ButErrors
<1> HIDE DEF g
<1>4. Sound(g) BY <1>1, <1>3, Zenon DEF Sound, ButErrors
<1>5. QED BY <1>1, <1>2, <1>3, <1>4, Zenon

\* The column that was added on the way leaves no error behind.
LEMMA RecoveredIs ==
    ASSUME NEW h, Sound(h)
    PROVE  LET g == PrepareRecovering(h) IN
           Sound(g) /\ ButErrors(h, g) /\ g.err = h.err
<1> DEFINE a == CacheError(h)
           b == NotifyError(a)
           c == AddColumnDuplicate(b)
           g == ResumeError(c)
<1>1. h \in HandleType /\ h.err \in TransactionErrors BY DEF Sound, HandleType
<1>2. \A e \in HandleType :
         LET f == CacheError(e) IN f \in HandleType /\ ButErrors(e, f) /\ f.err = e.err /\ f.cached = e.err
  BY Zenon DEF CacheError, HandleType, ButErrors
<1>3. \A e \in HandleType :
         LET f == ResumeError(e) IN f \in HandleType /\ ButErrors(e, f) /\ f.err = e.cached
  BY Zenon DEF ResumeError, HandleType, ButErrors
<1>4. \A e \in HandleType :
         LET f == NotifyError(e) IN
         /\ f \in HandleType /\ ButErrors(e, f) /\ f.cached = e.cached
         /\ f.err = IF e.err = "Allowed" THEN "Allowed" ELSE "Fatal"
  BY NotifyErrorIs, Zenon DEF ButErrors
<1>5. a \in HandleType /\ ButErrors(h, a) /\ a.err = h.err /\ a.cached = h.err BY <1>1, <1>2, Zenon
<1> HIDE DEF a
<1>6. /\ b \in HandleType /\ ButErrors(h, b) /\ b.cached = h.err
      /\ b.err = IF h.err = "Allowed" THEN "Allowed" ELSE "Fatal"
  BY <1>4, <1>5, ZenonT(30) DEF ButErrors
<1> HIDE DEF b
<1>7. c \in HandleType /\ ButErrors(h, c) /\ c.cached = h.err
  <2>1. CASE b.err = "Fatal"
    <3> DEFINE e == NotifyError(b)
    <3>1. c = e BY <2>1, Zenon DEF AddColumnDuplicate
    <3>2. e \in HandleType /\ ButErrors(h, e) /\ e.cached = h.err BY <1>4, <1>6, Zenon DEF ButErrors
    <3> HIDE DEF e, c
    <3>3. QED BY <3>1, <3>2, Zenon
  <2>2. CASE b.err # "Fatal"
    <3> DEFINE d == CacheError(b)
               e == NotifyError(d)
    <3>1. b.err = h.err BY <1>6, <2>2
    <3>2. d \in HandleType /\ ButErrors(h, d) /\ d.cached = h.err BY <1>2, <1>6, <3>1, Zenon DEF ButErrors
    <3>3. c = ResumeError(e) BY <2>2, Zenon DEF AddColumnDuplicate
    <3> HIDE DEF d
    <3>4. e \in HandleType /\ ButErrors(h, e) /\ e.cached = h.err BY <1>4, <3>2, Zenon DEF ButErrors
    <3> HIDE DEF e
    <3>5. QED BY <1>3, <3>3, <3>4, Zenon DEF ButErrors, ResumeError, HandleType
  <2>3. QED BY <2>1, <2>2, Zenon
<1> HIDE DEF c
<1>8. g \in HandleType /\ ButErrors(h, g) /\ g.err = h.err BY <1>3, <1>7, Zenon DEF ButErrors
<1>9. PrepareRecovering(h) = g BY Zenon DEF PrepareRecovering, g, c, b, a
<1> HIDE DEF g
<1>10. Nested(h) => Nested(g) BY <1>8, SameNesting, Zenon DEF ButErrors
<1>11. Sound(g) BY <1>8, <1>10, Zenon DEF Sound, ButErrors
<1>12. QED BY <1>8, <1>9, <1>11, Zenon

LEMMA FailsIsSound ==
    ASSUME NEW h, Sound(h), NEW g, Fails(h, g)
    PROVE  Sound(g)
<1>1. Nested(h) /\ g.saves = h.saves => Nested(g) BY SameNesting, Zenon DEF Fails
<1>2. g.err = "Allowed" => h.err = "Allowed" BY DEF Fails
<1>3. QED BY <1>1, <1>2, Zenon DEF Sound, Fails

\* g is h after a statement that wrote w.
Written(h, w, g) ==
    /\ g.inTx = h.inTx /\ g.level = h.level /\ g.err = h.err /\ g.faults = h.faults
    /\ g.saves = h.saves
    /\ h.inTx => g.db = h.db /\ g.cur = h.cur \cup {w}

\* A statement of the application.
LEMMA StatementResults ==
    ASSUME TransactionConstants, NEW h, Sound(h), NEW w \in Writes,
           NEW r \in Execute("statement", h, Wrote(h, w))
    PROVE  /\ r \in ResultType /\ Sound(r.h)
           /\ r.ok => Written(h, w, r.h)
           /\ ~r.ok => Fails(h, r.h)
<1> DEFINE d == Wrote(h, w)
<1>1. MaxFaults \in Nat /\ h \in HandleType BY DEF TransactionConstants, Sound
<1>2. h.cur \cup {w} \in SUBSET Writes /\ h.db \cup {w} \in SUBSET Writes BY <1>1 DEF HandleType
<1>3. Sound(d) /\ Written(h, w, d)
  <2>1. CASE h.inTx
    <3> DEFINE c == h.cur \cup {w}
               e == [h EXCEPT !.cur = c]
    <3>1. d = e BY <2>1, Zenon DEF Wrote
    <3>2. c \in SUBSET Writes BY <1>2
    <3> HIDE DEF c
    <3>3. /\ e \in HandleType /\ e.cur = c /\ e.inTx = h.inTx /\ e.db = h.db /\ e.saves = h.saves
          /\ e.level = h.level /\ e.err = h.err /\ e.faults = h.faults
      BY <1>1, <3>2, Zenon DEF HandleType
    <3> HIDE DEF e
    <3>4. Nested(h) => Nested(e) BY <3>3, SameNesting, Zenon
    <3>5. QED BY <2>1, <3>1, <3>3, <3>4, Zenon DEF Sound, Written, c
  <2>2. CASE ~h.inTx
    <3> DEFINE c == h.db \cup {w}
               e == Closed(h, c)
    <3>1. d = e BY <2>2, Zenon DEF Wrote
    <3>2. c \in SUBSET Writes BY <1>2, Zenon
    <3> HIDE DEF c, d
    <3>3. /\ e \in HandleType /\ e.inTx = FALSE /\ e.db = c /\ e.cur = c /\ e.saves = <<>>
          /\ e.level = h.level /\ e.err = h.err /\ e.faults = h.faults
      BY <1>1, <3>2, ClosedIs, Zenon
    <3> HIDE DEF e
    <3>4. h.inTx = FALSE /\ h.saves = <<>> BY <1>1, <2>2 DEF Sound, HandleType
    <3>5. Sound(e) BY <3>3, Zenon DEF Sound
    <3>6. QED BY <2>2, <3>1, <3>3, <3>4, <3>5, Zenon DEF Written
  <2>3. QED BY <2>1, <2>2, Zenon
<1> HIDE DEF d
<1>4. /\ r \in ResultType
      /\ r.ok => r.h = d
      /\ ~r.ok => Fails(h, r.h)
  <2>1. d \in HandleType /\ r \in Execute("statement", h, d) BY <1>3, Zenon DEF Sound, d
  <2>2. QED BY <1>1, <2>1, ExecuteResults
<1>5. CASE r.ok
  <2>1. r.h = d BY <1>4, <1>5, Zenon
  <2>2. QED BY <1>3, <1>4, <1>5, <2>1
<1>6. CASE ~r.ok
  <2>1. Fails(h, r.h) BY <1>4, <1>6, Zenon
  <2>2. Sound(r.h) BY <2>1, FailsIsSound, Zenon
  <2>3. QED BY <1>4, <1>6, <2>1, <2>2, Zenon
<1>7. QED BY <1>5, <1>6, Zenon
----------------------------------------------------------------------------
(* The inductive invariant.                                                 *)

\* The calls that are inside a transaction: all but a paused one.
Inside(fs) == IF fs # <<>> /\ fs[Len(fs)].paused THEN Len(fs) - 1 ELSE Len(fs)

\* A ROLLBACK that failed may leave the level one above the calls.
Slack == IF "rollback" \in Failing THEN 1 ELSE 0

LEMMA SlackIs == /\ Slack \in {0, 1} /\ (Careful => Slack = 0)
                 /\ Slack = IF "rollback" \in Failing THEN 1 ELSE 0
BY DEF Slack, Careful

\* What holds whatever the application ignores.
Balanced(h, fs) ==
    /\ Sound(h) /\ fs \in Seq(FrameType) /\ Len(fs) <= MaxDepth
    /\ \A i \in 1..Len(fs) : fs[i].paused => i = Len(fs)
    /\ RollsBack => h.level <= Inside(fs) + Slack
    /\ ~Marks => h.err = "Allowed"

\* The innermost call has seen no failure, if there is a call.
Unharmed(fs) == fs # <<>> => ~fs[Len(fs)].failed

\* What a careful application adds: the level counts the calls, only the
\* innermost one has seen a failure, and nothing was made durable since the
\* outermost one began.
Orderly(h, fs) ==
    /\ \A i \in 1..Len(fs) : fs[i].failed => i = Len(fs) /\ ~fs[i].paused
    /\ Unharmed(fs) => (h.inTx <=> Inside(fs) >= 1)
    /\ h.inTx => h.level = Inside(fs)
    /\ fs # <<>> => h.db = fs[1].base

\* A transaction is fatal only while its innermost call knows of the failure.
FatalIsKnown(h, fs) == h.err = "Fatal" => fs # <<>> /\ fs[Len(fs)].failed

\* What the connection sees is what the calls wrote, and the savepoint of a
\* call has the contents the call began with.
Contents(h, fs) ==
    /\ \A i, j \in 1..Len(fs) : i < j =>
          fs[i].base \subseteq fs[j].base /\ fs[i].work \subseteq fs[j].base
    /\ \A i, j \in 1..Len(fs) : j = i + 1 =>
          fs[j].base \subseteq fs[i].base \cup fs[i].work \cup fs[j].work
    /\ \A i \in 1..Len(fs) : fs[i].paused => fs[i].work \subseteq fs[i].base
    /\ fs # <<>> /\ Unharmed(fs) => h.cur = fs[Len(fs)].base \cup fs[Len(fs)].work
    /\ h.inTx => \A i \in 2..Inside(fs) : h.saves[SaveIndex(h, i)].at = fs[i].base

\* What the call that just ended reported.
Reported ==
    /\ Ended => last.ok \in BOOLEAN /\ last.depth \in 1..MaxDepth
    /\ CommittedIsDurable /\ FailedLeavesNothing /\ CleanCallCommits

Inv(h, fs) ==
    /\ Balanced(h, fs)
    /\ Careful => Orderly(h, fs)
    /\ Careful /\ (Marks => "begin" \notin Failing) => FatalIsKnown(h, fs)
    /\ Careful /\ ~Marks => Contents(h, fs)

IInv == application \in Applications /\ Inv(handle, frames) /\ Reported

----------------------------------------------------------------------------
(* What the steps do to the calls.                                          *)

\* gs is fs with f as its innermost call.
TopIs(fs, f, gs) ==
    /\ gs \in Seq(FrameType) /\ Len(fs) \in Nat /\ Len(fs) >= 1 /\ Len(gs) = Len(fs)
    /\ gs # <<>> /\ fs # <<>>
    /\ gs[Len(fs)] = f
    /\ \A i \in 1..Len(fs) : i # Len(fs) => gs[i] = fs[i]

LEMMA TopSet ==
    ASSUME NEW fs \in Seq(FrameType), fs # <<>>, NEW f \in FrameType
    PROVE  TopIs(fs, f, [fs EXCEPT ![Len(fs)] = f])
BY DEF TopIs

\* gs is fs with a call f in it.
PushIs(fs, f, gs) ==
    /\ gs \in Seq(FrameType) /\ Len(fs) \in Nat /\ Len(gs) = Len(fs) + 1
    /\ gs # <<>> /\ gs[Len(fs) + 1] = f
    /\ \A i \in 1..Len(fs) : gs[i] = fs[i]

LEMMA TopPushed ==
    ASSUME NEW fs \in Seq(FrameType), NEW f \in FrameType
    PROVE  PushIs(fs, f, Append(fs, f))
BY DEF PushIs

\* gs is fs without its innermost call, whose caller took over failed and work.
PopIs(fs, failed, work, gs) ==
    /\ gs \in Seq(FrameType) /\ Len(fs) \in Nat /\ Len(fs) >= 1 /\ Len(gs) = Len(fs) - 1
    /\ gs # <<>> <=> Len(fs) >= 2
    /\ \A i \in 1..(Len(fs) - 1) :
          /\ gs[i].base = fs[i].base /\ gs[i].paused = fs[i].paused
          /\ i # Len(fs) - 1 => gs[i] = fs[i]
          /\ i = Len(fs) - 1 => /\ gs[i].failed = (fs[i].failed \/ failed)
                                /\ gs[i].work = fs[i].work \cup work

Pops(fs, failed, work, gs) ==
    LET n == Len(fs)
        rest == SubSeq(fs, 1, n - 1)
    IN  gs = IF rest = <<>> THEN rest
             ELSE [rest EXCEPT ![n - 1].failed = @ \/ failed, ![n - 1].work = @ \cup work]

LEMMA TopPopped ==
    ASSUME NEW fs \in Seq(FrameType), fs # <<>>, NEW failed \in BOOLEAN,
           NEW work \in SUBSET Writes, NEW gs, Pops(fs, failed, work, gs)
    PROVE  PopIs(fs, failed, work, gs)
<1> DEFINE n == Len(fs)
           rest == SubSeq(fs, 1, n - 1)
<1>1. /\ n \in Nat /\ n >= 1 /\ rest \in Seq(FrameType) /\ Len(rest) = n - 1
      /\ \A i \in 1..(n - 1) : rest[i] = fs[i] /\ fs[i] \in FrameType
      /\ rest # <<>> <=> n >= 2
  <2>1. n \in Nat /\ n >= 1 OBVIOUS
  <2>2. /\ rest \in Seq(FrameType) /\ Len(rest) = n - 1
        /\ \A i \in 1..(n - 1) : rest[i] = fs[i] /\ fs[i] \in FrameType
    <3>1. \A i \in 1..(n - 1) : fs[i] \in FrameType BY <2>1
    <3>2. rest \in Seq(FrameType) BY <2>1
    <3>3. Len(rest) = n - 1 BY <2>1
    <3>4. \A i \in 1..(n - 1) : rest[i] = fs[i] BY <2>1
    <3>5. QED BY <3>1, <3>2, <3>3, <3>4, Zenon
  <2> HIDE DEF rest, n
  <2>3. rest # <<>> <=> n >= 2 BY <2>1, <2>2
  <2>4. QED BY <2>1, <2>2, <2>3, Zenon
<1> HIDE DEF rest
<1>2. CASE rest = <<>>
  <2>1. gs = rest BY <1>2, Zenon DEF Pops, rest
  <2>2. QED BY <1>1, <1>2, <2>1 DEF PopIs
<1>3. CASE rest # <<>>
  <2> DEFINE t == fs[n - 1]
             f == [t EXCEPT !.failed = @ \/ failed, !.work = @ \cup work]
  <2>1. n >= 2 /\ n - 1 \in 1..(n - 1) /\ t \in FrameType /\ rest[n - 1] = t BY <1>1, <1>3
  <2>2. gs = [rest EXCEPT ![n - 1] = f]
    <3>1. gs = [rest EXCEPT ![n - 1].failed = @ \/ failed, ![n - 1].work = @ \cup work]
      BY <1>3, Zenon DEF Pops, rest
    <3>2. QED BY <1>1, <2>1, <3>1, Zenon DEF FrameType
  <2>3. /\ f \in FrameType /\ f.base = t.base /\ f.paused = t.paused
        /\ f.failed = (t.failed \/ failed) /\ f.work = t.work \cup work
    BY <2>1, Zenon DEF FrameType
  <2> HIDE DEF f, t
  <2>4. /\ gs \in Seq(FrameType) /\ Len(gs) = n - 1 /\ gs[n - 1] = f
        /\ \A i \in 1..(n - 1) : i # n - 1 => gs[i] = rest[i]
    BY <1>1, <2>1, <2>2, <2>3
  <2>5. ASSUME NEW i \in 1..(n - 1)
        PROVE  /\ gs[i].base = fs[i].base /\ gs[i].paused = fs[i].paused
               /\ i # n - 1 => gs[i] = fs[i]
               /\ i = n - 1 => /\ gs[i].failed = (fs[i].failed \/ failed)
                               /\ gs[i].work = fs[i].work \cup work
    <3>1. CASE i = n - 1 BY <2>3, <2>4, <3>1, Zenon DEF t
    <3>2. CASE i # n - 1 BY <1>1, <2>4, <3>2, Zenon
    <3>3. QED BY <3>1, <3>2, Zenon
  <2>6. gs # <<>> BY <2>1, <2>4
  <2>7. QED BY <1>1, <2>1, <2>4, <2>5, <2>6, Zenon DEF PopIs
<1>4. QED BY <1>2, <1>3, Zenon

----------------------------------------------------------------------------
(* Every step keeps the invariant.                                          *)

\* The calls a handle has around it.
LEMMA Calls ==
    ASSUME NEW h, NEW fs, Balanced(h, fs)
    PROVE  /\ Sound(h) /\ h \in HandleType /\ h.level \in Nat /\ fs \in Seq(FrameType)
           /\ Len(fs) \in Nat /\ (fs # <<>> <=> Len(fs) >= 1)
           /\ h.cur \in SUBSET Writes /\ h.db \in SUBSET Writes
           /\ \A i \in 1..Len(fs) : fs[i] \in FrameType
           /\ Inside(fs) = IF fs # <<>> /\ fs[Len(fs)].paused THEN Len(fs) - 1 ELSE Len(fs)
<1>1. Sound(h) /\ h \in HandleType /\ fs \in Seq(FrameType) BY Zenon DEF Balanced, Sound
<1>2. Len(fs) \in Nat /\ (fs # <<>> <=> Len(fs) >= 1) BY <1>1
<1>3. \A i \in 1..Len(fs) : fs[i] \in FrameType BY <1>1
<1>4. h.level \in Nat /\ h.cur \in SUBSET Writes /\ h.db \in SUBSET Writes BY <1>1, Zenon DEF HandleType
<1>5. QED BY <1>1, <1>2, <1>3, <1>4, Zenon DEF Inside

\* The errors of the handle alone change.
LEMMA ErrorsChange ==
    ASSUME NEW h, NEW fs, Inv(h, fs), NEW g, Sound(g), ButErrors(h, g),
           ~Marks => g.err = h.err, g.err = "Fatal" => h.err = "Fatal"
    PROVE  Inv(g, fs)
<1>1. Balanced(h, fs) BY Zenon DEF Inv
<1>2. Balanced(g, fs) BY <1>1, Zenon DEF Balanced, ButErrors
<1>3. Careful => Orderly(g, fs) BY Zenon DEF Inv, Orderly, ButErrors
<1>4. Careful /\ (Marks => "begin" \notin Failing) => FatalIsKnown(g, fs)
  BY Zenon DEF Inv, FatalIsKnown
<1>5. Careful /\ ~Marks => Contents(g, fs)
  <2>1. \A name : SaveIndex(g, name) = SaveIndex(h, name) BY SameSaves, Zenon DEF ButErrors
  <2>2. QED BY <2>1, ZenonT(30) DEF Inv, Contents, ButErrors
<1>6. QED BY <1>2, <1>3, <1>4, <1>5, Zenon DEF Inv

\* The level is put right.
LEMMA PutRightCalls ==
    ASSUME TransactionConstants, NEW h, NEW fs, Inv(h, fs)
    PROVE  /\ Inv(PutRight(h), fs) /\ Firm(PutRight(h))
           /\ BeginTransaction(PutRight(h)) = BeginTransaction(h)
           /\ PutRight(h).db = h.db /\ PutRight(h).faults = h.faults
<1> DEFINE g == PutRight(h)
<1>1. Balanced(h, fs) /\ Sound(h) BY Zenon DEF Inv, Balanced
<1>2. /\ Firm(g) /\ BeginTransaction(g) = BeginTransaction(h)
      /\ g.inTx = h.inTx /\ g.db = h.db /\ g.cur = h.cur /\ g.saves = h.saves
      /\ g.err = h.err /\ g.faults = h.faults
      /\ g.level = h.level \/ (g.level = 1 /\ "rollback" \in Failing)
  BY <1>1, PutRightIs, Zenon
<1> HIDE DEF g
<1>3. Sound(g) BY <1>2, Zenon DEF Firm
<1>4. Careful => g.level = h.level BY <1>2 DEF Careful
<1>5. RollsBack => g.level <= Inside(fs) + Slack
  <2>1. CASE g.level = h.level BY <1>1, <2>1, Zenon DEF Balanced
  <2>2. CASE g.level = 1 /\ "rollback" \in Failing
    <3>1. Inside(fs) \in Nat BY <1>1, Calls
    <3>2. QED BY <2>2, <3>1, SlackIs
  <2>3. QED BY <1>2, <2>1, <2>2, Zenon
<1>6. Balanced(g, fs) BY <1>1, <1>2, <1>3, <1>5, Zenon DEF Balanced
<1>7. Careful => Orderly(g, fs) BY <1>2, <1>4, Zenon DEF Inv, Orderly
<1>8. Careful /\ (Marks => "begin" \notin Failing) => FatalIsKnown(g, fs)
  BY <1>2, Zenon DEF Inv, FatalIsKnown
<1>9. Careful /\ ~Marks => Contents(g, fs)
  <2>1. \A name : SaveIndex(g, name) = SaveIndex(h, name) BY <1>2, SameSaves, Zenon
  <2>2. QED BY <1>2, <2>1, ZenonT(30) DEF Inv, Contents
<1>10. Inv(g, fs) BY <1>6, <1>7, <1>8, <1>9, Zenon DEF Inv
<1>11. QED BY <1>2, <1>10, Zenon DEF g

\* The innermost call may go on.
Ready(fs) == fs # <<>> => ~fs[Len(fs)].paused /\ (IgnoresErrors \/ ~fs[Len(fs)].failed)

\* g is h after a failure that lost at most the transaction.
Harmed(h, g) ==
    /\ Sound(g) /\ g.db = h.db /\ g.level <= h.level
    /\ g.inTx => h.inTx /\ g.level = h.level /\ g.saves = h.saves
    /\ h.err = "Allowed" => g.err = "Allowed"

\* Something failed in the innermost call.
LEMMA CallFails ==
    ASSUME TransactionConstants, NEW h, NEW fs, Inv(h, fs), Ready(fs), NEW g, Harmed(h, g), NEW gs,
           fs # <<>>, TopIs(fs, [fs[Len(fs)] EXCEPT !.failed = TRUE], gs)
    PROVE  Inv(g, gs)
<1> DEFINE n == Len(fs)
           f == [fs[n] EXCEPT !.failed = TRUE]
<1>1. Balanced(h, fs) BY Zenon DEF Inv
<1>2. /\ Sound(g) /\ g \in HandleType /\ g.level \in Nat
      /\ h.level \in Nat /\ n \in Nat /\ n >= 1 /\ fs[n] \in FrameType /\ Inside(fs) = n
  BY <1>1, Calls, SMTT(30) DEF Harmed, Sound, HandleType, Ready
<1>3. /\ gs \in Seq(FrameType) /\ Len(gs) = n /\ gs # <<>> /\ gs[n] = f
      /\ \A i \in 1..n : i # n => gs[i] = fs[i]
  BY Zenon DEF TopIs
<1>4. f.failed /\ f.paused = fs[n].paused /\ f.base = fs[n].base /\ f.work = fs[n].work
  BY <1>2 DEF FrameType
<1> HIDE DEF f, n
<1>5. /\ \A i \in 1..n : /\ gs[i].base = fs[i].base /\ gs[i].work = fs[i].work
                         /\ gs[i].paused = fs[i].paused
      /\ ~gs[n].paused /\ gs[n].failed /\ Inside(gs) = n
  <2>1. ~fs[n].paused BY <1>2, <1>3, Zenon DEF Ready, n
  <2>2. QED BY <1>2, <1>3, <1>4, <2>1, Zenon DEF Inside
<1>6. Balanced(g, gs)
  <2>1. RollsBack => g.level <= n + Slack BY <1>1, <1>2, SlackIs DEF Balanced, Harmed
  <2>2. QED BY <1>1, <1>2, <1>3, <1>5, <2>1, Zenon DEF Balanced, Harmed, n
<1>7. Careful => Orderly(g, gs)
  <2> SUFFICES ASSUME Careful PROVE Orderly(g, gs) BY Zenon
  <2>1. Orderly(h, fs) BY Zenon DEF Inv
  <2>2. \A i \in 1..n : gs[i].failed => i = n /\ ~gs[i].paused BY <1>3, <1>5, <2>1, Zenon DEF Orderly, n
  <2>3. ~Unharmed(gs) BY <1>3, <1>5, Zenon DEF Unharmed
  <2>4. g.inTx => g.level = n BY <1>2, <2>1, Zenon DEF Orderly, Harmed
  <2>5. g.db = gs[1].base BY <1>2, <1>5, <2>1 DEF Orderly, Harmed, n
  <2>6. QED BY <1>3, <1>5, <2>2, <2>3, <2>4, <2>5, Zenon DEF Orderly
<1>8. FatalIsKnown(g, gs) BY <1>3, <1>5, Zenon DEF FatalIsKnown
<1>9. Careful /\ ~Marks => Contents(g, gs)
  <2> SUFFICES ASSUME Careful, ~Marks PROVE Contents(g, gs) BY Zenon
  <2>1. Contents(h, fs) BY Zenon DEF Inv
  <2>2. ~Unharmed(gs) BY <1>3, <1>5, Zenon DEF Unharmed
  <2>3. ASSUME g.inTx, NEW i \in 2..n PROVE g.saves[SaveIndex(g, i)].at = gs[i].base
    <3>1. h.inTx /\ g.saves = h.saves BY <2>3, Zenon DEF Harmed
    <3>2. SaveIndex(g, i) = SaveIndex(h, i) BY <3>1, SameSaves, Zenon
    <3>3. h.saves[SaveIndex(h, i)].at = fs[i].base BY <1>2, <2>1, <2>3, <3>1, Zenon DEF Contents
    <3>4. i \in 1..n BY <1>2
    <3>5. QED BY <1>5, <3>1, <3>2, <3>3, <3>4, Zenon
  <2>4. /\ \A i, j \in 1..n : i < j =>
             gs[i].base \subseteq gs[j].base /\ gs[i].work \subseteq gs[j].base
        /\ \A i, j \in 1..n : j = i + 1 =>
             gs[j].base \subseteq gs[i].base \cup gs[i].work \cup gs[j].work
        /\ \A i \in 1..n : gs[i].paused => gs[i].work \subseteq gs[i].base
    BY <1>5, <2>1, Zenon DEF Contents, n
  <2>5. QED BY <1>3, <1>5, <2>2, <2>3, <2>4, Zenon DEF Contents
<1>10. QED BY <1>6, <1>7, <1>8, <1>9, Zenon DEF Inv

\* No transaction began, and there is no call to tell.
LEMMA NothingBegan ==
    ASSUME TransactionConstants, NEW h, Inv(h, <<>>), NEW g, Harmed(h, g),
           g.err = "Fatal" => "begin" \in Failing
    PROVE  Inv(g, <<>>)
<1> DEFINE e == <<>>
<1>1. Balanced(h, e) /\ Inv(h, e) BY Zenon DEF Inv
<1>2. e \in Seq(FrameType) /\ Len(e) = 0 OBVIOUS
<1>3. 1..Len(e) = {} /\ e = <<>> BY <1>2
<1> HIDE DEF e
<1>4. Inside(e) = 0 BY <1>2, <1>3, SMTT(30) DEF Inside
<1>5. Sound(g) /\ g.level \in Nat /\ h.level \in Nat /\ g.level <= h.level
  BY <1>1, Calls DEF Harmed, Sound, HandleType
<1>6. Balanced(g, e)
  <2>1. RollsBack => g.level <= Inside(e) + Slack BY <1>1, <1>4, <1>5, SlackIs DEF Balanced
  <2>2. QED BY <1>1, <1>5, <2>1, Zenon DEF Balanced, Harmed
<1>7. ASSUME Careful PROVE ~g.inTx /\ Orderly(g, e)
  <2>1. ~(Inside(e) >= 1) BY <1>4
  <2>2. ~h.inTx BY <1>1, <1>3, <1>7, <2>1, Zenon DEF Inv, Orderly, Unharmed
  <2>3. ~g.inTx BY <2>2, Zenon DEF Harmed
  <2>4. QED BY <1>3, <2>1, <2>3, Zenon DEF Orderly
<1>8. (Marks => "begin" \notin Failing) => FatalIsKnown(g, e)
  <2>1. "Allowed" # "Fatal" OBVIOUS
  <2>2. ~Marks => h.err = "Allowed" BY <1>1, Zenon DEF Balanced
  <2>3. QED BY <2>1, <2>2, Zenon DEF FatalIsKnown, Harmed
<1>9. Careful => Contents(g, e) BY <1>3, <1>7, Zenon DEF Contents
<1>10. QED BY <1>6, <1>7, <1>8, <1>9, Zenon DEF Inv, e

\* A call began its transaction.
LEMMA CallBegins ==
    ASSUME TransactionConstants, NEW h, NEW fs, Inv(h, fs), Ready(fs), Len(fs) < MaxDepth,
           NEW g, Sound(g), g.db = h.db, Begun(h, g), NEW kind, NEW gs,
           PushIs(fs, Frame(kind, g), gs)
    PROVE  Inv(g, gs)
<1> DEFINE n == Len(fs)
           f == Frame(kind, g)
<1>1. Balanced(h, fs) /\ MaxDepth \in Nat BY ZenonT(30) DEF Inv, TransactionConstants
<1>2. /\ Sound(h) /\ h.level \in Nat /\ n \in Nat /\ (fs # <<>> <=> n >= 1) /\ Inside(fs) = n
      /\ fs \in Seq(FrameType)
  BY <1>1, Calls, Zenon DEF Ready
<1>3. /\ gs \in Seq(FrameType) /\ Len(gs) = n + 1 /\ gs # <<>> /\ gs[n + 1] = f
      /\ \A i \in 1..n : gs[i] = fs[i]
  BY ZenonT(30) DEF PushIs
<1>4. /\ f.base = g.cur /\ f.work = {} /\ f.failed = FALSE /\ f.paused = FALSE
  BY DEF Frame
<1>5. /\ g.inTx /\ g.cur = h.cur /\ g.err = h.err
      /\ g.level = IF h.inTx THEN h.level + 1 ELSE 1
      /\ h.inTx /\ h.err = "Allowed" =>
            SameLevels(h, g, h.level) /\ g.saves[SaveIndex(g, g.level)].at = h.cur
  BY Zenon DEF Begun
<1> HIDE DEF f
<1>6. /\ Inside(gs) = n + 1 /\ n + 1 \in Nat /\ n + 1 >= 1
      /\ \A i \in 1..(n + 1) : i \in 1..n \/ i = n + 1
      /\ \A i \in 1..n : i # n + 1
  <2>1. Inside(gs) = n + 1 BY <1>3, <1>4, Zenon DEF Inside
  <2>2. QED BY <1>2, <2>1
<1>7. ~gs[n + 1].paused /\ ~gs[n + 1].failed BY <1>3, <1>4, Zenon
<1>8. Balanced(g, gs)
  <2>1. \A i \in 1..n : ~fs[i].paused
    <3>1. \A i \in 1..n : fs[i].paused => i = n /\ fs # <<>> BY <1>1, <1>2, SMTT(30) DEF Balanced
    <3>2. QED BY <3>1, Zenon DEF Ready
  <2>2. RollsBack => g.level <= n + 1 + Slack BY <1>1, <1>2, <1>5, SlackIs DEF Balanced
  <2>3. n + 1 <= MaxDepth BY <1>1, <1>2
  <2>4. \A i \in 1..(n + 1) : gs[i].paused => i = n + 1 BY <1>3, <1>6, <1>7, <2>1, Zenon
  <2>5. QED BY <1>1, <1>3, <1>5, <1>6, <2>2, <2>3, <2>4, Zenon DEF Balanced
<1>9. ASSUME Careful PROVE /\ Orderly(h, fs) /\ Unharmed(fs) /\ (h.inTx <=> n >= 1)
                           /\ h.inTx => h.level = n
  <2>1. Orderly(h, fs) /\ Unharmed(fs) BY <1>9, Zenon DEF Inv, Ready, Careful, Unharmed
  <2>2. QED BY <1>2, <2>1, Zenon DEF Orderly
<1>10. ASSUME Careful PROVE Orderly(g, gs)
  <2>1. \A i \in 1..n : ~fs[i].failed
    <3>1. \A i \in 1..n : fs[i].failed => i = n /\ fs # <<>> BY <1>2, <1>9, <1>10 DEF Orderly
    <3>2. QED BY <1>9, <1>10, <3>1, ZenonT(30) DEF Unharmed
  <2>2. \A i \in 1..(n + 1) : ~gs[i].failed BY <1>3, <1>6, <1>7, <2>1, ZenonT(30)
  <2>3. g.level = n + 1 BY <1>2, <1>5, <1>9, <1>10
  <2>4. g.db = gs[1].base
    <3>1. CASE n >= 1
      <4>1. 1 \in 1..n BY <1>2, <3>1
      <4>2. QED BY <1>2, <1>3, <1>9, <1>10, <3>1, <4>1, Zenon DEF Orderly
    <3>2. CASE ~(n >= 1)
      <4>1. n + 1 = 1 BY <1>2, <3>2
      <4>2. h.cur = h.db BY <1>2, <1>9, <1>10, <3>2, Zenon DEF Sound
      <4>3. QED BY <1>3, <1>4, <1>5, <4>1, <4>2, Zenon
    <3>3. QED BY <3>1, <3>2, Zenon
  <2>5. QED BY <1>3, <1>5, <1>6, <2>2, <2>3, <2>4, Zenon DEF Orderly
<1>11. ASSUME Careful, Marks => "begin" \notin Failing PROVE FatalIsKnown(g, gs)
  <2>1. FatalIsKnown(h, fs) BY <1>11, Zenon DEF Inv
  <2>2. h.err # "Fatal" BY <1>9, <1>11, <2>1, Zenon DEF FatalIsKnown, Unharmed
  <2>3. QED BY <1>5, <2>2, Zenon DEF FatalIsKnown
<1>12. ASSUME Careful, ~Marks PROVE Contents(g, gs)
  <2>1. Contents(h, fs) /\ h.err = "Allowed" BY <1>1, <1>12, Zenon DEF Inv, Balanced
  <2>2. ASSUME n >= 1
        PROVE  /\ n \in 1..n /\ g.cur = fs[n].base \cup fs[n].work
               /\ \A i \in 1..n : fs[i].base \subseteq g.cur /\ fs[i].work \subseteq g.cur
    <3>1. n \in 1..n /\ \A i \in 1..n : i = n \/ i < n BY <1>2, <2>2
    <3>2. g.cur = fs[n].base \cup fs[n].work
      BY <1>2, <1>5, <1>9, <1>12, <2>1, <2>2, Zenon DEF Contents
    <3>3. ASSUME NEW i \in 1..n PROVE fs[i].base \subseteq g.cur /\ fs[i].work \subseteq g.cur
      <4>1. CASE i = n BY <3>2, <4>1, SMTT(30)
      <4>2. CASE i < n
        <5>1. fs[i].base \subseteq fs[n].base /\ fs[i].work \subseteq fs[n].base
          BY <2>1, <3>1, <4>2, Zenon DEF Contents
        <5>2. QED BY <3>2, <5>1
      <4>3. QED BY <3>1, <4>1, <4>2, Zenon
    <3>4. QED BY <3>1, <3>2, <3>3, Zenon
  <2>3. ASSUME NEW i \in 1..(n + 1), NEW j \in 1..(n + 1), i < j
        PROVE  gs[i].base \subseteq gs[j].base /\ gs[i].work \subseteq gs[j].base
    <3>1. i \in 1..n /\ n >= 1 BY <1>2, <2>3
    <3>2. CASE j \in 1..n BY <1>3, <2>1, <2>3, <3>1, <3>2, Zenon DEF Contents
    <3>3. CASE j = n + 1 BY <1>3, <1>4, <2>2, <3>1, <3>3, Zenon
    <3>4. QED BY <1>6, <3>2, <3>3, Zenon
  <2>4. ASSUME NEW i \in 1..(n + 1), NEW j \in 1..(n + 1), j = i + 1
        PROVE  gs[j].base \subseteq gs[i].base \cup gs[i].work \cup gs[j].work
    <3>1. i \in 1..n /\ n >= 1 BY <1>2, <2>4
    <3>2. CASE j \in 1..n BY <1>3, <2>1, <2>4, <3>1, <3>2, ZenonT(30) DEF Contents
    <3>3. CASE j = n + 1
      <4>1. i = n BY <1>2, <2>4, <3>3
      <4>2. gs[j].base = gs[i].base \cup gs[i].work BY <1>3, <1>4, <2>2, <3>1, <3>3, <4>1, Zenon
      <4>3. QED BY <4>2
    <3>4. QED BY <1>6, <3>2, <3>3, Zenon
  <2>5. ASSUME NEW i \in 1..(n + 1), gs[i].paused PROVE gs[i].work \subseteq gs[i].base
    <3>1. i \in 1..n BY <1>6, <1>7, <2>5, Zenon
    <3>2. QED BY <1>3, <2>1, <2>5, <3>1, Zenon DEF Contents
  <2>6. g.cur = gs[n + 1].base \cup gs[n + 1].work BY <1>3, <1>4
  <2>7. ASSUME NEW i \in 2..(n + 1) PROVE g.saves[SaveIndex(g, i)].at = gs[i].base
    <3>1. h.inTx /\ h.level = n /\ g.level = n + 1 BY <1>2, <1>5, <1>9, <1>12, <2>7
    <3>2. CASE i = n + 1 BY <1>3, <1>4, <1>5, <2>1, <3>1, <3>2, Zenon
    <3>3. CASE i \in 2..n
      <4>1. i \in 1..n BY <1>2, <3>3
      <4>2. g.saves[SaveIndex(g, i)] = h.saves[SaveIndex(h, i)]
        BY <1>5, <2>1, <3>1, <3>3, Zenon DEF SameLevels
      <4>3. h.saves[SaveIndex(h, i)].at = fs[i].base BY <1>2, <2>1, <3>1, <3>3, Zenon DEF Contents
      <4>4. QED BY <1>3, <4>1, <4>2, <4>3, Zenon
    <3>4. i = n + 1 \/ i \in 2..n BY <1>2
    <3>5. QED BY <3>2, <3>3, <3>4, ZenonT(30)
  <2>8. QED BY <1>3, <1>6, <2>3, <2>4, <2>5, <2>6, <2>7, Zenon DEF Contents
<1>13. QED BY <1>8, <1>10, <1>11, <1>12, Zenon DEF Inv

\* The calls of a careful application that may go on.
LEMMA CarefulCalls ==
    ASSUME NEW h, NEW fs, Inv(h, fs), Ready(fs), fs # <<>>, Careful
    PROVE  /\ Orderly(h, fs) /\ Unharmed(fs) /\ h.inTx /\ h.level = Len(fs)
           /\ \A i \in 1..Len(fs) : ~fs[i].failed
           /\ (Marks => "begin" \notin Failing) => h.err # "Fatal"
           /\ ~Marks => Contents(h, fs) /\ h.err = "Allowed"
                        /\ h.cur = fs[Len(fs)].base \cup fs[Len(fs)].work
<1>1. Balanced(h, fs) BY Zenon DEF Inv
<1>2. Len(fs) \in Nat /\ Len(fs) >= 1 /\ Inside(fs) = Len(fs) BY <1>1, Calls DEF Ready
<1>3. Orderly(h, fs) /\ Unharmed(fs) BY Zenon DEF Inv, Ready, Careful, Unharmed
<1>4. h.inTx /\ h.level = Len(fs) BY <1>2, <1>3, Zenon DEF Orderly
<1>5. \A i \in 1..Len(fs) : ~fs[i].failed BY <1>3, Zenon DEF Orderly, Unharmed
<1>6. (Marks => "begin" \notin Failing) => h.err # "Fatal" BY <1>3, Zenon DEF Inv, FatalIsKnown, Unharmed
<1>7. ~Marks => Contents(h, fs) /\ h.err = "Allowed" BY <1>1, Zenon DEF Inv, Balanced
<1>8. ~Marks => h.cur = fs[Len(fs)].base \cup fs[Len(fs)].work BY <1>3, <1>7, Zenon DEF Contents
<1>9. QED BY <1>3, <1>4, <1>5, <1>6, <1>7, <1>8, Zenon

\* A statement wrote in the innermost call.
LEMMA CallWrites ==
    ASSUME TransactionConstants, NEW h, NEW fs, Inv(h, fs), Ready(fs), fs # <<>>,
           NEW w \in Writes, NEW g, Sound(g), Written(h, w, g), NEW gs,
           TopIs(fs, [fs[Len(fs)] EXCEPT !.work = @ \cup {w}], gs)
    PROVE  Inv(g, gs)
<1> DEFINE n == Len(fs)
           f == [fs[n] EXCEPT !.work = @ \cup {w}]
<1>1. Balanced(h, fs) BY Zenon DEF Inv
<1>2. n \in Nat /\ n >= 1 /\ fs[n] \in FrameType /\ Inside(fs) = n /\ n \in 1..n
  BY <1>1, Calls DEF Ready
<1>3. /\ gs \in Seq(FrameType) /\ Len(gs) = n /\ gs # <<>> /\ gs[n] = f
      /\ \A i \in 1..n : i # n => gs[i] = fs[i]
  BY Zenon DEF TopIs
<1>4. /\ f.failed = fs[n].failed /\ f.paused = fs[n].paused /\ f.base = fs[n].base
      /\ f.work = fs[n].work \cup {w}
  BY <1>2, Zenon DEF FrameType
<1>5. ~fs[n].paused BY Zenon DEF Ready
<1> HIDE DEF f, n
<1>6. /\ \A i \in 1..n : /\ gs[i].base = fs[i].base /\ gs[i].failed = fs[i].failed
                         /\ gs[i].paused = fs[i].paused
                         /\ i # n => gs[i].work = fs[i].work
      /\ ~gs[n].paused /\ Inside(gs) = n
  BY <1>2, <1>3, <1>4, <1>5, Zenon DEF Inside
<1>7. Balanced(g, gs) BY <1>1, <1>2, <1>3, <1>6, Zenon DEF Balanced, Written, n
<1>8. ASSUME Careful PROVE Orderly(g, gs)
  <2>1. /\ h.inTx /\ h.level = n /\ h.db = fs[1].base
        /\ \A i \in 1..n : ~fs[i].failed
    BY <1>8, CarefulCalls, Zenon DEF Orderly, n
  <2>2. 1 \in 1..n BY <1>2
  <2>3. g.inTx /\ g.level = n /\ g.db = gs[1].base BY <1>6, <2>1, <2>2, Zenon DEF Written
  <2>4. \A i \in 1..n : ~gs[i].failed BY <1>6, <2>1, Zenon
  <2>5. QED BY <1>2, <1>3, <1>6, <2>3, <2>4, Zenon DEF Orderly
<1>9. ASSUME Careful, Marks => "begin" \notin Failing PROVE FatalIsKnown(g, gs)
  <2>1. h.err # "Fatal" BY <1>9, CarefulCalls, Zenon
  <2>2. QED BY <2>1, Zenon DEF FatalIsKnown, Written
<1>10. ASSUME Careful, ~Marks PROVE Contents(g, gs)
  <2>1. Contents(h, fs) /\ h.inTx /\ h.cur = fs[n].base \cup fs[n].work
    BY <1>10, CarefulCalls, Zenon DEF n
  <2>2. ASSUME NEW i \in 1..n, NEW j \in 1..n, i < j
        PROVE  gs[i].base \subseteq gs[j].base /\ gs[i].work \subseteq gs[j].base
    <3>1. i # n BY <1>2, <2>2
    <3>2. gs[i].base = fs[i].base /\ gs[j].base = fs[j].base /\ gs[i].work = fs[i].work
      BY <1>6, <2>2, <3>1, Zenon
    <3>3. fs[i].base \subseteq fs[j].base /\ fs[i].work \subseteq fs[j].base
      BY <2>1, <2>2, Zenon DEF Contents, n
    <3>4. QED BY <3>2, <3>3
  <2>3. ASSUME NEW i \in 1..n, NEW j \in 1..n, j = i + 1
        PROVE  gs[j].base \subseteq gs[i].base \cup gs[i].work \cup gs[j].work
    <3>1. i # n BY <1>2, <2>3
    <3>2. fs[j].base \subseteq fs[i].base \cup fs[i].work \cup fs[j].work
      BY <2>1, <2>3, Zenon DEF Contents, n
    <3>3. fs[j].work \subseteq gs[j].work
      <4>1. CASE j = n BY <1>3, <1>4, <4>1
      <4>2. CASE j # n BY <1>6, <2>3, <4>2
      <4>3. QED BY <4>1, <4>2, Zenon
    <3>4. gs[i].base = fs[i].base /\ gs[j].base = fs[j].base /\ gs[i].work = fs[i].work
      BY <1>6, <2>3, <3>1, Zenon
    <3>5. QED BY <3>2, <3>3, <3>4
  <2>4. ASSUME NEW i \in 1..n, gs[i].paused PROVE gs[i].work \subseteq gs[i].base
    <3>1. i # n BY <1>6, <2>4, Zenon
    <3>2. gs[i].base = fs[i].base /\ gs[i].work = fs[i].work /\ fs[i].paused
      BY <1>6, <2>4, <3>1, Zenon
    <3>3. fs[i].work \subseteq fs[i].base BY <2>1, <3>2, Zenon DEF Contents, n
    <3>4. QED BY <3>2, <3>3
  <2>5. g.cur = gs[n].base \cup gs[n].work BY <1>3, <1>4, <2>1 DEF Written
  <2>6. ASSUME NEW i \in 2..n PROVE g.saves[SaveIndex(g, i)].at = gs[i].base
    <3>1. i \in 1..n /\ g.saves = h.saves BY <1>2 DEF Written
    <3>2. SaveIndex(g, i) = SaveIndex(h, i) BY <3>1, SameSaves, Zenon
    <3>3. h.saves[SaveIndex(h, i)].at = fs[i].base BY <1>2, <2>1, Zenon DEF Contents
    <3>4. gs[i].base = fs[i].base BY <1>6, <3>1, Zenon
    <3>5. QED BY <3>1, <3>2, <3>3, <3>4, Zenon
  <2>7. QED BY <1>3, <1>6, <2>2, <2>3, <2>4, <2>5, <2>6, Zenon DEF Contents
<1>11. QED BY <1>7, <1>8, <1>9, <1>10, Zenon DEF Inv

\* A pausable call committed to let the main thread in.
LEMMA CallPauses ==
    ASSUME TransactionConstants, NEW h, NEW fs, Inv(h, fs), Ready(fs), fs # <<>>,
           NEW g, Sound(g), Committed(h, g), NEW gs,
           TopIs(fs, [fs[Len(fs)] EXCEPT !.paused = TRUE, !.base = g.cur], gs)
    PROVE  Inv(g, gs)
<1> DEFINE n == Len(fs)
           f == [fs[n] EXCEPT !.paused = TRUE, !.base = g.cur]
<1>1. Balanced(h, fs) BY Zenon DEF Inv
<1>2. /\ Sound(h) /\ h.level \in Nat /\ g.level \in Nat
      /\ n \in Nat /\ n >= 1 /\ fs[n] \in FrameType /\ Inside(fs) = n /\ n \in 1..n
  BY <1>1, Calls DEF Ready, Sound, HandleType
<1>3. /\ gs \in Seq(FrameType) /\ Len(gs) = n /\ gs # <<>> /\ gs[n] = f
      /\ \A i \in 1..n : i # n => gs[i] = fs[i]
  BY Zenon DEF TopIs
<1>4. f.failed = fs[n].failed /\ f.paused /\ f.base = g.cur /\ f.work = fs[n].work
  BY <1>2, Zenon DEF FrameType
<1> HIDE DEF f, n
<1>5. /\ \A i \in 1..n : gs[i].work = fs[i].work /\ gs[i].failed = fs[i].failed
      /\ gs[n].paused /\ gs[n].base = g.cur /\ Inside(gs) = n - 1
  BY <1>2, <1>3, <1>4, Zenon DEF Inside
<1>6. /\ h.level > 1 => /\ g.level = h.level - 1 /\ g.inTx = h.inTx /\ g.db = h.db
                        /\ g.cur = h.cur /\ g.err = h.err
                        /\ h.inTx /\ h.err = "Allowed" => SameLevels(h, g, h.level - 1)
      /\ ~(h.level > 1) => g.level = 0 /\ ~g.inTx /\ g.db = h.cur /\ g.cur = h.cur /\ g.err = "Allowed"
      /\ g.cur = h.cur
  <2>1. h.level > 1 \/ h.level <= 1 BY <1>2
  <2>2. QED BY <2>1, Zenon DEF Committed
<1>7. Balanced(g, gs)
  <2>1. RollsBack => g.level <= n - 1 + Slack BY <1>1, <1>2, <1>6, SlackIs DEF Balanced
  <2>2. \A i \in 1..n : gs[i].paused => i = n BY <1>1, <1>3, Zenon DEF Balanced, n
  <2>3. ~Marks => g.err = "Allowed" BY <1>1, <1>6, Zenon DEF Balanced
  <2>4. QED BY <1>1, <1>3, <1>5, <2>1, <2>2, <2>3, Zenon DEF Balanced, n
<1>8. ASSUME Careful PROVE Orderly(g, gs)
  <2>1. /\ Orderly(h, fs) /\ h.inTx /\ h.level = n
        /\ \A i \in 1..n : ~fs[i].failed
    BY <1>8, CarefulCalls, Zenon DEF n
  <2>2. \A i \in 1..n : ~gs[i].failed BY <1>5, <2>1, Zenon
  <2>3. (g.inTx <=> n - 1 >= 1) /\ g.level = n - 1
    <3>1. (n > 1 <=> n - 1 >= 1) /\ (~(n > 1) => n - 1 = 0) BY <1>2
    <3>2. QED BY <1>6, <2>1, <3>1, Zenon
  <2>4. g.db = gs[1].base
    <3>1. CASE n > 1
      <4>1. 1 \in 1..n /\ 1 # n BY <1>2, <3>1
      <4>2. QED BY <1>3, <1>6, <2>1, <3>1, <4>1, Zenon DEF Orderly
    <3>2. CASE ~(n > 1)
      <4>1. n = 1 BY <1>2, <3>2
      <4>2. QED BY <1>5, <1>6, <2>1, <3>2, <4>1, Zenon
    <3>3. QED BY <3>1, <3>2, Zenon
  <2>5. QED BY <1>3, <1>5, <2>2, <2>3, <2>4, Zenon DEF Orderly
<1>9. ASSUME Careful, Marks => "begin" \notin Failing PROVE FatalIsKnown(g, gs)
  <2>1. h.err # "Fatal" BY <1>9, CarefulCalls, Zenon
  <2>2. "Allowed" # "Fatal" OBVIOUS
  <2>3. QED BY <1>6, <2>1, <2>2, Zenon DEF FatalIsKnown
<1>10. ASSUME Careful, ~Marks PROVE Contents(g, gs)
  <2>1. /\ Contents(h, fs) /\ h.inTx /\ h.level = n /\ h.err = "Allowed"
        /\ g.cur = fs[n].base \cup fs[n].work
    BY <1>6, <1>10, CarefulCalls, Zenon DEF n
  <2>2. \A i \in 1..n : fs[i].base \subseteq gs[i].base
    <3>1. fs[n].base \subseteq g.cur BY <2>1
    <3>2. QED BY <1>3, <1>5, <3>1
  <2>3. ASSUME NEW i \in 1..n, NEW j \in 1..n, i < j
        PROVE  gs[i].base \subseteq gs[j].base /\ gs[i].work \subseteq gs[j].base
    <3>1. i # n BY <1>2, <2>3
    <3>2. gs[i] = fs[i] BY <1>3, <3>1, Zenon
    <3>3. fs[i].base \subseteq fs[j].base /\ fs[i].work \subseteq fs[j].base
      BY <2>1, <2>3, Zenon DEF Contents, n
    <3>4. fs[j].base \subseteq gs[j].base BY <2>2, Zenon
    <3>5. QED BY <3>2, <3>3, <3>4
  <2>4. ASSUME NEW i \in 1..n, NEW j \in 1..n, j = i + 1
        PROVE  gs[j].base \subseteq gs[i].base \cup gs[i].work \cup gs[j].work
    <3>1. i # n BY <1>2, <2>4
    <3>2. gs[i] = fs[i] BY <1>3, <3>1, Zenon
    <3>3. fs[j].base \subseteq fs[i].base \cup fs[i].work \cup fs[j].work
      BY <2>1, <2>4, ZenonT(30) DEF Contents, n
    <3>4. gs[j].base \subseteq fs[j].base \cup fs[j].work
      <4>1. CASE j = n BY <1>5, <2>1, <4>1
      <4>2. CASE j # n BY <1>3, <4>2
      <4>3. QED BY <4>1, <4>2, Zenon
    <3>5. gs[j].work = fs[j].work BY <1>5, Zenon
    <3>6. QED BY <3>2, <3>3, <3>4, <3>5
  <2>5. gs[n].work \subseteq gs[n].base /\ g.cur = gs[n].base \cup gs[n].work
    <3>1. gs[n].work = fs[n].work BY <1>2, <1>5, Zenon
    <3>2. QED BY <1>5, <2>1, <3>1
  <2>6. ASSUME NEW i \in 1..n, gs[i].paused PROVE gs[i].work \subseteq gs[i].base
    <3>1. CASE i = n BY <2>5, <3>1, Zenon
    <3>2. CASE i # n
      <4>1. gs[i] = fs[i] BY <1>3, <3>2, Zenon
      <4>2. QED BY <2>1, <2>6, <4>1, Zenon DEF Contents, n
    <3>3. QED BY <3>1, <3>2, Zenon
  <2>7. ASSUME NEW i \in 2..(n - 1) PROVE g.saves[SaveIndex(g, i)].at = gs[i].base
    <3>1. i \in 1..n /\ i # n /\ i \in 2..n /\ n > 1 BY <1>2
    <3>2. g.saves[SaveIndex(g, i)] = h.saves[SaveIndex(h, i)]
      BY <1>6, <2>1, <3>1, Zenon DEF SameLevels
    <3>3. h.saves[SaveIndex(h, i)].at = fs[i].base BY <1>2, <2>1, <3>1, Zenon DEF Contents
    <3>4. gs[i] = fs[i] BY <1>3, <3>1, Zenon
    <3>5. QED BY <3>2, <3>3, <3>4, Zenon
  <2>8. QED BY <1>3, <1>5, <2>3, <2>4, <2>5, <2>6, <2>7, Zenon DEF Contents
<1>11. QED BY <1>7, <1>8, <1>9, <1>10, Zenon DEF Inv

\* A paused call began its next transaction.
LEMMA CallResumes ==
    ASSUME TransactionConstants, NEW h, NEW fs, Inv(h, fs), fs # <<>>, fs[Len(fs)].paused,
           NEW g, Sound(g), g.db = h.db, Begun(h, g), NEW gs,
           TopIs(fs, [fs[Len(fs)] EXCEPT !.paused = FALSE, !.base = g.cur], gs)
    PROVE  Inv(g, gs)
<1> DEFINE n == Len(fs)
           f == [fs[n] EXCEPT !.paused = FALSE, !.base = g.cur]
<1>1. Balanced(h, fs) BY Zenon DEF Inv
<1>2. /\ Sound(h) /\ h.level \in Nat
      /\ n \in Nat /\ n >= 1 /\ fs[n] \in FrameType /\ Inside(fs) = n - 1 /\ n \in 1..n
  BY <1>1, Calls
<1>3. /\ gs \in Seq(FrameType) /\ Len(gs) = n /\ gs # <<>> /\ gs[n] = f
      /\ \A i \in 1..n : i # n => gs[i] = fs[i]
  BY Zenon DEF TopIs
<1>4. f.failed = fs[n].failed /\ ~f.paused /\ f.base = g.cur /\ f.work = fs[n].work
  BY <1>2, Zenon DEF FrameType
<1>5. fs[n].paused OBVIOUS
<1> HIDE DEF f, n
<1>6. /\ \A i \in 1..n : gs[i].work = fs[i].work /\ gs[i].failed = fs[i].failed
      /\ ~gs[n].paused /\ gs[n].base = g.cur /\ Inside(gs) = n
  BY <1>2, <1>3, <1>4, Zenon DEF Inside
<1>7. /\ g.inTx /\ g.cur = h.cur /\ g.err = h.err
      /\ g.level = IF h.inTx THEN h.level + 1 ELSE 1
      /\ h.inTx /\ h.err = "Allowed" =>
            SameLevels(h, g, h.level) /\ g.saves[SaveIndex(g, g.level)].at = h.cur
  BY Zenon DEF Begun
<1>8. Balanced(g, gs)
  <2>1. RollsBack => g.level <= n + Slack BY <1>1, <1>2, <1>7, SlackIs DEF Balanced
  <2>2. \A i \in 1..n : gs[i].paused => i = n BY <1>1, <1>3, Zenon DEF Balanced, n
  <2>3. QED BY <1>1, <1>3, <1>6, <1>7, <2>1, <2>2, Zenon DEF Balanced, n
<1>9. ASSUME Careful
      PROVE  /\ Orderly(h, fs) /\ Unharmed(fs) /\ (h.inTx <=> n - 1 >= 1)
             /\ g.level = n
             /\ \A i \in 1..n : ~fs[i].failed
  <2>1. Orderly(h, fs) BY <1>9, Zenon DEF Inv
  <2>2. \A i \in 1..n : ~fs[i].failed BY <1>5, <2>1, Zenon DEF Orderly, n
  <2>3. Unharmed(fs) BY <1>2, <2>2, Zenon DEF Unharmed, n
  <2>4. (h.inTx <=> n - 1 >= 1) /\ (h.inTx => h.level = n - 1) BY <1>2, <2>1, <2>3, Zenon DEF Orderly
  <2>5. g.level = n BY <1>2, <1>7, <2>4
  <2>6. QED BY <2>1, <2>2, <2>3, <2>4, <2>5, Zenon
<1>10. ASSUME Careful PROVE Orderly(g, gs)
  <2>1. \A i \in 1..n : ~gs[i].failed BY <1>6, <1>9, <1>10, Zenon
  <2>2. g.db = gs[1].base
    <3>1. CASE n > 1
      <4>1. 1 \in 1..n /\ 1 # n BY <1>2, <3>1
      <4>2. QED BY <1>3, <1>9, <1>10, <4>1, Zenon DEF Orderly
    <3>2. CASE ~(n > 1)
      <4>1. n = 1 /\ ~(n - 1 >= 1) BY <1>2, <3>2
      <4>2. h.cur = h.db BY <1>2, <1>9, <1>10, <4>1, Zenon DEF Sound
      <4>3. QED BY <1>6, <1>7, <4>1, <4>2, Zenon
    <3>3. QED BY <3>1, <3>2, Zenon
  <2>3. QED BY <1>2, <1>3, <1>6, <1>7, <1>9, <1>10, <2>1, <2>2, Zenon DEF Orderly
<1>11. ASSUME Careful, Marks => "begin" \notin Failing PROVE FatalIsKnown(g, gs)
  <2>1. FatalIsKnown(h, fs) BY <1>11, Zenon DEF Inv
  <2>2. h.err # "Fatal" BY <1>9, <1>11, <2>1, Zenon DEF FatalIsKnown, Unharmed
  <2>3. QED BY <1>7, <2>2, Zenon DEF FatalIsKnown
<1>12. ASSUME Careful, ~Marks PROVE Contents(g, gs)
  <2>1. Contents(h, fs) /\ h.err = "Allowed" BY <1>1, <1>12, Zenon DEF Inv, Balanced
  <2>2. g.cur = fs[n].base /\ g.cur = gs[n].base \cup gs[n].work
    <3>1. h.cur = fs[n].base \cup fs[n].work BY <1>9, <1>12, <2>1, Zenon DEF Contents, n
    <3>2. fs[n].work \subseteq fs[n].base BY <1>2, <1>5, <2>1, Zenon DEF Contents, n
    <3>3. gs[n].work = fs[n].work BY <1>2, <1>6, Zenon
    <3>4. QED BY <1>6, <1>7, <3>1, <3>2, <3>3
  <2>3. \A i \in 1..n : gs[i].base = fs[i].base BY <1>3, <1>6, <2>2, Zenon
  <2>4. /\ \A i, j \in 1..n : i < j =>
             gs[i].base \subseteq gs[j].base /\ gs[i].work \subseteq gs[j].base
        /\ \A i, j \in 1..n : j = i + 1 =>
             gs[j].base \subseteq gs[i].base \cup gs[i].work \cup gs[j].work
    <3>1. ASSUME NEW i \in 1..n, NEW j \in 1..n, i < j
          PROVE  gs[i].base \subseteq gs[j].base /\ gs[i].work \subseteq gs[j].base
      <4>1. fs[i].base \subseteq fs[j].base /\ fs[i].work \subseteq fs[j].base
        BY <2>1, <3>1, Zenon DEF Contents, n
      <4>2. gs[j].base = fs[j].base /\ gs[i].base = fs[i].base /\ gs[i].work = fs[i].work
        BY <1>6, <2>3, Zenon
      <4>3. QED BY <4>1, <4>2, Zenon
    <3>2. ASSUME NEW i \in 1..n, NEW j \in 1..n, j = i + 1
          PROVE  gs[j].base \subseteq gs[i].base \cup gs[i].work \cup gs[j].work
      <4>1. fs[j].base \subseteq fs[i].base \cup fs[i].work \cup fs[j].work
        BY <2>1, <3>2, Zenon DEF Contents, n
      <4>2. /\ gs[j].base = fs[j].base /\ gs[i].base = fs[i].base
            /\ gs[i].work = fs[i].work /\ gs[j].work = fs[j].work
        BY <1>6, <2>3, Zenon
      <4>3. QED BY <4>1, <4>2, Zenon
    <3>3. QED BY <3>1, <3>2, Zenon
  <2>5. ASSUME NEW i \in 1..n, gs[i].paused PROVE gs[i].work \subseteq gs[i].base
    <3>1. i # n BY <1>6, <2>5, Zenon
    <3>2. gs[i] = fs[i] BY <1>3, <3>1, Zenon
    <3>3. QED BY <2>1, <2>5, <3>2, Zenon DEF Contents, n
  <2>6. ASSUME NEW i \in 2..n PROVE g.saves[SaveIndex(g, i)].at = gs[i].base
    <3>1. h.inTx /\ h.level = n - 1 /\ g.level = n
      <4>1. n - 1 >= 1 BY <1>2
      <4>2. QED BY <1>2, <1>9, <1>12, <4>1, Zenon DEF Orderly
    <3>2. CASE i = n BY <1>6, <1>7, <2>1, <3>1, <3>2, Zenon
    <3>3. CASE i \in 2..(n - 1)
      <4>1. i \in 1..n /\ i # n BY <1>2, <3>3
      <4>2. g.saves[SaveIndex(g, i)] = h.saves[SaveIndex(h, i)]
        BY <1>7, <2>1, <3>1, <3>3, Zenon DEF SameLevels
      <4>3. h.saves[SaveIndex(h, i)].at = fs[i].base BY <1>2, <2>1, <3>1, <3>3, Zenon DEF Contents
      <4>4. QED BY <2>3, <4>1, <4>2, <4>3, Zenon
    <3>4. i = n \/ i \in 2..(n - 1) BY <1>2
    <3>5. QED BY <3>2, <3>3, <3>4, Zenon
  <2>7. QED BY <1>3, <1>6, <2>2, <2>4, <2>5, <2>6, Zenon DEF Contents
<1>13. QED BY <1>8, <1>10, <1>11, <1>12, Zenon DEF Inv

\* What the innermost call leaves of the handle h when it returns ok or not,
\* and its caller is told of a failure or not: whatever the application does,
\* for a careful one, and for a careful one that creates no tables.
Ends(h, fs, g) ==
    /\ Sound(g)
    /\ RollsBack => g.level <= Len(fs) - 1 + Slack
    /\ ~Marks => g.err = "Allowed"

EndsOrderly(h, fs, failed, g) ==
    /\ g.inTx => h.inTx /\ g.level = Len(fs) - 1 /\ Len(fs) >= 2
    /\ ~failed /\ Len(fs) >= 2 => g.inTx
    /\ Len(fs) >= 2 => g.db = h.db

EndsKnown(fs, failed, g) == g.err = "Fatal" => Len(fs) >= 2 /\ failed

EndsContents(h, fs, ok, failed, g) ==
    Len(fs) >= 2 =>
        /\ ok => g.cur = h.cur /\ ~fs[Len(fs)].failed
        /\ ~ok /\ ~failed => g.cur = fs[Len(fs)].base
        /\ g.inTx => SameLevels(h, g, Len(fs) - 1)

\* The writes the caller takes over.
Kept(f, ok) == IF ok THEN f.work ELSE f.work \cap f.base

\* The innermost call returned.
LEMMA CallReturns ==
    ASSUME TransactionConstants, NEW h, NEW fs, Inv(h, fs), fs # <<>>,
           NEW ok \in BOOLEAN, NEW failed \in BOOLEAN, NEW g, Ends(h, fs, g),
           Careful => EndsOrderly(h, fs, failed, g),
           Careful /\ (Marks => "begin" \notin Failing) => EndsKnown(fs, failed, g),
           Careful /\ ~Marks => EndsContents(h, fs, ok, failed, g),
           NEW gs, PopIs(fs, failed, Kept(fs[Len(fs)], ok), gs)
    PROVE  Inv(g, gs)
<1> DEFINE n == Len(fs)
           w == Kept(fs[n], ok)
<1>1. Balanced(h, fs) BY ZenonT(30) DEF Inv
<1>2. /\ Sound(h) /\ h.level \in Nat
      /\ n \in Nat /\ n >= 1 /\ fs[n] \in FrameType /\ n \in 1..n
  BY <1>1, Calls
<1>3. /\ gs \in Seq(FrameType) /\ Len(gs) = n - 1 /\ (gs # <<>> <=> n >= 2)
      /\ \A i \in 1..(n - 1) : gs[i].base = fs[i].base /\ gs[i].paused = fs[i].paused
      /\ \A i \in 1..(n - 1) : i # n - 1 => gs[i] = fs[i]
      /\ \A i \in 1..(n - 1) : i = n - 1 => /\ gs[i].failed = (fs[i].failed \/ failed)
                                          /\ gs[i].work = fs[i].work \cup w
  BY Zenon DEF PopIs
<1> HIDE DEF w, n
<1>4. \A i \in 1..(n - 1) : i \in 1..n /\ i # n BY <1>2
<1>5. n >= 2 => n - 1 \in 1..(n - 1) BY <1>2
<1>6. \A i \in 1..(n - 1) : ~gs[i].paused BY <1>1, <1>3, <1>4, Zenon DEF Balanced, n
<1>7. Inside(gs) = n - 1 BY <1>3, <1>5, <1>6, Zenon DEF Inside
<1>8. Balanced(g, gs)
  <2>1. n <= MaxDepth /\ MaxDepth \in Nat BY <1>1, Zenon DEF Balanced, TransactionConstants, n
  <2>2. n - 1 <= MaxDepth BY <1>2, <2>1
  <2>3. QED BY <1>3, <1>6, <1>7, <2>2, Zenon DEF Balanced, Ends, n
<1>9. ASSUME Careful PROVE Orderly(g, gs)
  <2>1. Orderly(h, fs) /\ EndsOrderly(h, fs, failed, g) BY <1>9, Zenon DEF Inv
  <2>2. ASSUME NEW i \in 1..(n - 1), gs[i].failed PROVE i = n - 1
    <3>1. SUFFICES ASSUME i # n - 1 PROVE FALSE BY Zenon
    <3>2. fs[i].failed BY <1>3, <2>2, <3>1, Zenon
    <3>3. QED BY <1>4, <2>1, <3>2, Zenon DEF Orderly, n
  <2>3. ASSUME Unharmed(gs) PROVE g.inTx <=> n - 1 >= 1
    <3>1. n >= 2 <=> n - 1 >= 1 BY <1>2
    <3>2. n >= 2 => ~failed BY <1>3, <1>5, <2>3, Zenon DEF Unharmed
    <3>3. QED BY <2>1, <3>1, <3>2, Zenon DEF EndsOrderly, n
  <2>4. n >= 2 => g.db = gs[1].base
    <3>1. n >= 2 => 1 \in 1..(n - 1) BY <1>2
    <3>2. QED BY <1>3, <2>1, <3>1, Zenon DEF Orderly, EndsOrderly, n
  <2>5. g.inTx => g.level = n - 1 BY <2>1, Zenon DEF EndsOrderly, n
  <2>6. QED BY <1>3, <1>6, <1>7, <2>2, <2>3, <2>4, <2>5, Zenon DEF Orderly
<1>10. ASSUME Careful, Marks => "begin" \notin Failing PROVE FatalIsKnown(g, gs)
  <2>1. EndsKnown(fs, failed, g) BY <1>10, Zenon
  <2>2. QED BY <1>3, <1>5, <2>1, Zenon DEF EndsKnown, FatalIsKnown, n
<1>11. ASSUME Careful, ~Marks PROVE Contents(g, gs)
  <2>1. Contents(h, fs) /\ Orderly(h, fs) /\ EndsOrderly(h, fs, failed, g)
    BY <1>11, Zenon DEF Inv
  <2>2. EndsContents(h, fs, ok, failed, g) BY <1>11, Zenon
  <2>3. ASSUME NEW i \in 1..(n - 1), NEW j \in 1..(n - 1), i < j
        PROVE  gs[i].base \subseteq gs[j].base /\ gs[i].work \subseteq gs[j].base
    <3>1. i # n - 1 BY <1>2, <2>3
    <3>2. gs[i] = fs[i] /\ gs[j].base = fs[j].base BY <1>3, <3>1, Zenon
    <3>3. fs[i].base \subseteq fs[j].base /\ fs[i].work \subseteq fs[j].base
      BY <1>4, <2>1, <2>3, Zenon DEF Contents, n
    <3>4. QED BY <3>2, <3>3, Zenon
  <2>4. ASSUME NEW i \in 1..(n - 1), NEW j \in 1..(n - 1), j = i + 1
        PROVE  gs[j].base \subseteq gs[i].base \cup gs[i].work \cup gs[j].work
    <3>1. i # n - 1 BY <1>2, <2>4
    <3>2. gs[i] = fs[i] /\ gs[j].base = fs[j].base BY <1>3, <3>1, Zenon
    <3>3. fs[j].base \subseteq fs[i].base \cup fs[i].work \cup fs[j].work
      BY <1>4, <2>1, <2>4, Zenon DEF Contents, n
    <3>4. fs[j].work \subseteq gs[j].work BY <1>3, Zenon
    <3>5. QED BY <3>2, <3>3, <3>4, Zenon
  <2>5. ASSUME n >= 2, Unharmed(gs) PROVE g.cur = gs[n - 1].base \cup gs[n - 1].work
    <3> DEFINE a == fs[n - 1]
               f == fs[n]
    <3>1. ~failed BY <1>3, <1>5, <2>5, Zenon DEF Unharmed
    <3>2. gs[n - 1].base = a.base /\ gs[n - 1].work = a.work \cup w BY <1>3, <1>5, <2>5, Zenon
    <3>3. n - 1 \in 1..n /\ n - 1 < n /\ n = (n - 1) + 1 BY <1>2, <2>5
    <3>4. a.base \subseteq f.base /\ a.work \subseteq f.base
      BY <1>2, <2>1, <3>3, Zenon DEF Contents, n
    <3>5. f.base \subseteq a.base \cup a.work \cup f.work
      BY <1>2, <2>1, <3>3, ZenonT(30) DEF Contents, n
    <3>6. CASE ok
      <4>1. g.cur = h.cur /\ ~f.failed BY <2>2, <2>5, <3>6, Zenon DEF EndsContents, n
      <4>2. h.cur = f.base \cup f.work BY <2>1, <4>1, Zenon DEF Contents, Unharmed, n
      <4>3. w = f.work BY <3>6, ZenonT(30) DEF w, Kept
      <4> HIDE DEF a, f
      <4>4. QED BY <3>2, <3>4, <3>5, <4>1, <4>2, <4>3, SMTT(30)
    <3>7. CASE ~ok
      <4>1. g.cur = f.base BY <2>2, <2>5, <3>1, <3>7, Zenon DEF EndsContents, n
      <4>2. w = f.work \cap f.base BY <3>7, Zenon DEF w, Kept
      <4> HIDE DEF a, f
      <4>3. QED BY <3>2, <3>4, <3>5, <4>1, <4>2
    <3>8. QED BY <3>6, <3>7, Zenon
  <2>6. ASSUME g.inTx, NEW i \in 2..(n - 1) PROVE g.saves[SaveIndex(g, i)].at = gs[i].base
    <3>1. n >= 2 /\ h.inTx BY <2>1, <2>6, Zenon DEF EndsOrderly, n
    <3>2. g.saves[SaveIndex(g, i)] = h.saves[SaveIndex(h, i)]
      BY <2>2, <2>6, <3>1, Zenon DEF EndsContents, SameLevels, n
    <3>3. i \in 2..(n - 1) /\ i \in 2..n /\ i \in 1..(n - 1) BY <1>2
    <3>4. i \in 2..Inside(fs) BY <3>3, Zenon DEF Inside, n
    <3>5. h.saves[SaveIndex(h, i)].at = fs[i].base BY <2>1, <3>1, <3>4, Zenon DEF Contents
    <3>6. QED BY <1>3, <3>2, <3>3, <3>5, Zenon
  <2>7. QED BY <1>3, <1>6, <1>7, <2>3, <2>4, <2>5, <2>6, Zenon DEF Contents
<1>12. QED BY <1>8, <1>9, <1>10, <1>11, Zenon DEF Inv

\* The level after a commit or a rollback of the innermost call.
LEMMA LevelEnds ==
    ASSUME TransactionConstants, NEW h, NEW fs, Inv(h, fs), fs # <<>>, ~fs[Len(fs)].paused,
           NEW g, Sound(g), h.err = "Allowed" => g.err = "Allowed",
           RollsBack => g.level = LevelAbove(h)
    PROVE  Ends(h, fs, g)
<1>1. Balanced(h, fs) BY Zenon DEF Inv
<1>2. Len(fs) \in Nat /\ Len(fs) >= 1 /\ h.level \in Nat BY <1>1, Calls
<1>3. RollsBack => h.level <= Len(fs) + Slack BY <1>1, Zenon DEF Balanced, Inside
<1>4. RollsBack => g.level <= Len(fs) - 1 + Slack BY <1>2, <1>3, SlackIs DEF LevelAbove
<1>5. ~Marks => g.err = "Allowed" BY <1>1, Zenon DEF Balanced
<1>6. QED BY <1>4, <1>5, Zenon DEF Ends

\* What a rollback leaves of the call of a careful application.
LEMMA UndoneEnds ==
    ASSUME TransactionConstants, NEW h, NEW fs, Inv(h, fs), fs # <<>>, ~fs[Len(fs)].paused,
           Careful, NEW g, Sound(g), Undone(h, g),
           NEW failed \in BOOLEAN, fs[Len(fs)].failed => failed,
           ~failed /\ h.level > 1 => g.inTx = h.inTx
    PROVE  /\ EndsOrderly(h, fs, failed, g)
           /\ (Marks => "begin" \notin Failing) => EndsKnown(fs, failed, g)
           /\ ~Marks => EndsContents(h, fs, FALSE, failed, g)
           /\ (Marks => Len(fs) = 1) => g.cur \subseteq fs[Len(fs)].base
<1> DEFINE n == Len(fs)
<1>1. Balanced(h, fs) /\ Orderly(h, fs) BY Zenon DEF Inv
<1>2. n \in Nat /\ n >= 1 /\ n \in 1..n /\ h.level \in Nat BY <1>1, Calls
<1>3. Inside(fs) = n BY Zenon DEF Inside
<1>4. RollsBack BY Zenon DEF Careful, RollsBack
<1>5. h.level <= n /\ (h.inTx => h.level = n)
  <2>1. h.level <= n + Slack /\ (h.inTx => h.level = n)
    BY <1>1, <1>3, <1>4, Zenon DEF Balanced, Orderly
  <2>2. QED BY <1>2, <2>1, SlackIs
<1>6. ~failed => h.inTx BY <1>1, <1>2, <1>3, Zenon DEF Orderly, Unharmed
<1>7. /\ g.db = h.db
      /\ h.level > 1 => /\ g.level = h.level - 1 /\ g.err = h.err
                        /\ g.inTx => h.inTx
      /\ g.inTx /\ h.level > 1 /\ h.err = "Allowed" =>
            g.cur = h.saves[SaveIndex(h, h.level)].at /\ SameLevels(h, g, h.level - 1)
      /\ h.level <= 1 => ~g.inTx /\ g.err = "Allowed"
  BY Zenon DEF Undone
<1>8. (h.level > 1 \/ h.level <= 1) /\ (h.level > 1 => n >= 2) /\ (h.level = n /\ n >= 2 => h.level > 1)
  BY <1>2, <1>5
<1> HIDE DEF n
<1>9. g.inTx => h.inTx /\ h.level > 1 /\ h.level = n /\ n >= 2 /\ g.level = n - 1
  BY <1>5, <1>7, <1>8, Zenon
<1>10. EndsOrderly(h, fs, failed, g)
  <2>1. ~failed /\ n >= 2 => g.inTx BY <1>5, <1>6, <1>8, Zenon
  <2>2. QED BY <1>7, <1>9, <2>1, Zenon DEF EndsOrderly, n
<1>11. ASSUME Marks => "begin" \notin Failing PROVE EndsKnown(fs, failed, g)
  <2>1. FatalIsKnown(h, fs) BY <1>11, Zenon DEF Inv
  <2>2. SUFFICES ASSUME g.err = "Fatal" PROVE n >= 2 /\ failed BY Zenon DEF EndsKnown, n
  <2>3. "Allowed" # "Fatal" OBVIOUS
  <2>4. h.level > 1 BY <1>7, <1>8, <2>2, <2>3, Zenon
  <2>5. h.err = "Fatal" BY <1>7, <2>2, <2>4, Zenon
  <2>6. QED BY <1>8, <2>1, <2>4, <2>5, Zenon DEF FatalIsKnown
<1>12. ASSUME ~Marks, g.inTx PROVE g.cur = fs[n].base /\ SameLevels(h, g, n - 1)
  <2>1. Contents(h, fs) /\ h.err = "Allowed" BY <1>1, <1>12, Zenon DEF Inv, Balanced
  <2>2. n \in 2..n BY <1>2, <1>9, <1>12
  <2>3. h.saves[SaveIndex(h, n)].at = fs[n].base BY <1>3, <1>9, <1>12, <2>1, <2>2, Zenon DEF Contents
  <2>4. QED BY <1>7, <1>9, <1>12, <2>1, <2>3, Zenon
<1>13. ASSUME ~Marks PROVE EndsContents(h, fs, FALSE, failed, g)
  BY <1>10, <1>12, <1>13, Zenon DEF EndsContents, EndsOrderly, n
<1>14. ASSUME Marks => n = 1 PROVE g.cur \subseteq fs[n].base
  <2>1. CASE g.inTx
    <3>1. ~Marks
      <4>1. n # 1 BY <1>2, <1>9, <2>1
      <4>2. QED BY <1>14, <4>1, Zenon
    <3>2. QED BY <1>12, <2>1, <3>1, Zenon
  <2>2. CASE ~g.inTx
    <3>1. g.cur = fs[1].base BY <1>1, <1>7, <2>2, Zenon DEF Sound, Orderly
    <3>2. CASE n = 1 BY <3>1, <3>2, Zenon
    <3>3. CASE n # 1
      <4>1. Contents(h, fs) BY <1>14, <3>3, Zenon DEF Inv
      <4>2. 1 \in 1..n /\ 1 < n BY <1>2, <3>3
      <4>3. fs[1].base \subseteq fs[n].base BY <1>2, <4>1, <4>2, Zenon DEF Contents, n
      <4>4. QED BY <3>1, <4>3, Zenon
    <3>4. QED BY <3>2, <3>3, Zenon
  <2>3. QED BY <2>1, <2>2, Zenon
<1>15. QED BY <1>10, <1>11, <1>13, <1>14, Zenon DEF n

\* What a commit leaves of it.
LEMMA CommittedEnds ==
    ASSUME TransactionConstants, NEW h, NEW fs, Inv(h, fs), fs # <<>>, Ready(fs),
           Careful, NEW g, Sound(g), Committed(h, g), NEW failed \in BOOLEAN
    PROVE  /\ EndsOrderly(h, fs, failed, g)
           /\ (Marks => "begin" \notin Failing) => EndsKnown(fs, failed, g)
           /\ ~Marks => EndsContents(h, fs, TRUE, failed, g)
           /\ ~Marks /\ Len(fs) = 1 => g.db = fs[1].base \cup fs[1].work
<1> DEFINE n == Len(fs)
<1>1. Balanced(h, fs) BY Zenon DEF Inv
<1>2. n \in Nat /\ n >= 1 /\ n \in 1..n BY <1>1, Calls
<1>3. /\ h.inTx /\ h.level = n /\ ~fs[n].failed
      /\ (Marks => "begin" \notin Failing) => h.err # "Fatal"
      /\ ~Marks => h.err = "Allowed" /\ h.cur = fs[n].base \cup fs[n].work
  BY <1>2, CarefulCalls, Zenon
<1> HIDE DEF n
<1>4. (n > 1 <=> n >= 2) /\ (n <= 1 <=> n = 1) /\ (n >= 2 \/ n = 1) /\ ~(1 >= 2) BY <1>2
<1>5. /\ n >= 2 => /\ g.level = n - 1 /\ g.inTx = h.inTx /\ g.db = h.db
                   /\ g.cur = h.cur /\ g.err = h.err
      /\ n >= 2 /\ h.err = "Allowed" => SameLevels(h, g, n - 1)
      /\ n = 1 => ~g.inTx /\ g.db = h.cur /\ g.err = "Allowed"
  BY <1>3, <1>4, Zenon DEF Committed
<1>6. EndsOrderly(h, fs, failed, g) BY <1>3, <1>4, <1>5, Zenon DEF EndsOrderly, n
<1>7. ASSUME Marks => "begin" \notin Failing PROVE EndsKnown(fs, failed, g)
  <2>1. "Allowed" # "Fatal" OBVIOUS
  <2>2. QED BY <1>3, <1>4, <1>5, <1>7, <2>1, Zenon DEF EndsKnown
<1>8. ASSUME ~Marks PROVE EndsContents(h, fs, TRUE, failed, g)
  BY <1>3, <1>5, <1>8, Zenon DEF EndsContents, n
<1>9. ASSUME ~Marks, n = 1 PROVE g.db = fs[1].base \cup fs[1].work
  BY <1>3, <1>5, <1>9, Zenon
<1>10. QED BY <1>6, <1>7, <1>8, <1>9, Zenon DEF n

\* What a paused call leaves whose next transaction could not be begun.
LEMMA NotBegunEnds ==
    ASSUME TransactionConstants, NEW h, NEW fs, Inv(h, fs), fs # <<>>, fs[Len(fs)].paused,
           NEW g, Sound(g), g.db = h.db, NotBegun(h, g)
    PROVE  /\ Ends(h, fs, g)
           /\ Careful => EndsOrderly(h, fs, TRUE, g)
           /\ Careful /\ (Marks => "begin" \notin Failing) => EndsKnown(fs, TRUE, g)
           /\ Careful /\ ~Marks => EndsContents(h, fs, FALSE, TRUE, g)
           /\ Careful /\ (Marks => Len(fs) = 1) => g.cur \subseteq fs[Len(fs)].base
<1> DEFINE n == Len(fs)
<1>1. Balanced(h, fs) BY Zenon DEF Inv
<1>2. n \in Nat /\ n >= 1 /\ n \in 1..n /\ h.level \in Nat BY <1>1, Calls
<1>3. Inside(fs) = n - 1 BY Zenon DEF Inside
<1>4. g \in HandleType /\ g.level \in Nat BY DEF Sound, HandleType
<1> HIDE DEF n
<1>5. /\ g.level <= h.level
      /\ g.inTx => h.inTx /\ g.level = h.level /\ g.cur = h.cur /\ g.saves = h.saves
      /\ h.err = "Allowed" => g.err = "Allowed"
      /\ g.err = "Fatal" => "begin" \in Failing
  BY Zenon DEF NotBegun
<1>6. Ends(h, fs, g)
  <2>1. RollsBack => h.level <= n - 1 + Slack BY <1>1, <1>3, Zenon DEF Balanced
  <2>2. RollsBack => g.level <= n - 1 + Slack BY <1>2, <1>4, <1>5, <2>1, SlackIs
  <2>3. QED BY <1>1, <1>5, <2>2, Zenon DEF Ends, Balanced, n
<1>7. ASSUME Careful
      PROVE  /\ Orderly(h, fs) /\ (g.inTx => h.inTx /\ g.level = n - 1 /\ n >= 2)
             /\ ~fs[n].failed
  <2>1. Orderly(h, fs) BY <1>7, Zenon DEF Inv
  <2>2. ~fs[n].failed BY <1>2, <2>1, Zenon DEF Orderly, n
  <2>3. h.inTx => n - 1 >= 1 /\ h.level = n - 1 BY <1>3, <2>1, <2>2, Zenon DEF Orderly, Unharmed, n
  <2>4. n - 1 >= 1 => n >= 2 BY <1>2
  <2>5. QED BY <1>5, <2>1, <2>2, <2>3, <2>4, Zenon
<1>8. ASSUME Careful PROVE EndsOrderly(h, fs, TRUE, g)
  BY <1>7, <1>8, Zenon DEF EndsOrderly, n
<1>9. ASSUME Careful, Marks => "begin" \notin Failing PROVE EndsKnown(fs, TRUE, g)
  <2>1. ~Marks => g.err = "Allowed" BY <1>6, Zenon DEF Ends
  <2>2. "Allowed" # "Fatal" OBVIOUS
  <2>3. QED BY <1>5, <1>9, <2>1, <2>2, Zenon DEF EndsKnown
<1>10. ASSUME Careful, ~Marks PROVE EndsContents(h, fs, FALSE, TRUE, g)
  <2>1. ASSUME g.inTx PROVE SameLevels(h, g, n - 1)
    <3>1. g.saves = h.saves BY <1>5, <2>1, Zenon
    <3>2. \A name : SaveIndex(g, name) = SaveIndex(h, name) BY <3>1, SameSaves, Zenon
    <3>3. QED BY <3>1, <3>2, Zenon DEF SameLevels
  <2>2. QED BY <2>1, Zenon DEF EndsContents, n
<1>11. ASSUME Careful, Marks => n = 1 PROVE g.cur \subseteq fs[n].base
  <2>1. CASE g.inTx
    <3>1. Contents(h, fs)
      <4>1. n # 1 BY <1>2, <1>7, <1>11, <2>1
      <4>2. QED BY <1>11, <4>1, Zenon DEF Inv
    <3>2. h.cur = fs[n].base \cup fs[n].work BY <1>7, <1>11, <3>1, Zenon DEF Contents, Unharmed, n
    <3>3. fs[n].work \subseteq fs[n].base BY <1>2, <3>1, Zenon DEF Contents, n
    <3>4. g.cur = h.cur BY <1>5, <2>1, Zenon
    <3>5. QED BY <3>2, <3>3, <3>4, Zenon
  <2>2. CASE ~g.inTx
    <3>1. g.cur = fs[1].base BY <1>7, <1>11, <2>2, Zenon DEF Sound, Orderly
    <3>2. CASE n = 1 BY <3>1, <3>2, Zenon
    <3>3. CASE n # 1
      <4>1. Contents(h, fs) BY <1>11, <3>3, Zenon DEF Inv
      <4>2. 1 \in 1..n /\ 1 < n BY <1>2, <3>3
      <4>3. fs[1].base \subseteq fs[n].base BY <1>2, <4>1, <4>2, Zenon DEF Contents, n
      <4>4. QED BY <3>1, <4>3, Zenon
    <3>4. QED BY <3>2, <3>3, Zenon
  <2>3. QED BY <2>1, <2>2, Zenon
<1>12. QED BY <1>6, <1>8, <1>9, <1>10, <1>11, Zenon DEF n

----------------------------------------------------------------------------
(* The steps.                                                               *)

\* The setup is a record of the four choices.
LEMMA SetupKept ==
    ASSUME UNCHANGED application
    PROVE  /\ Failing' = Failing /\ Marks' = Marks /\ Lite' = Lite
           /\ IgnoresErrors' = IgnoresErrors /\ Careful' = Careful /\ RollsBack' = RollsBack
           /\ Slack' = Slack
BY DEF Failing, Marks, Lite, IgnoresErrors, Careful, RollsBack, Slack

\* A step establishes the invariant of its new state.
LEMMA NextState ==
    ASSUME application \in Applications, UNCHANGED application, NEW h, NEW fs, Inv(h, fs),
           handle' = h, frames' = fs, Reported'
    PROVE  IInv'
<1>1. Balanced(handle, frames)'
  <2>1. Sound(handle)' BY SetupKept, Zenon DEF Inv, Balanced, Sound
  <2>2. (frames \in Seq(FrameType) /\ Len(frames) <= MaxDepth)' BY Zenon DEF Inv, Balanced
  <2>3. (\A i \in 1..Len(frames) : frames[i].paused => i = Len(frames))' BY Zenon DEF Inv, Balanced
  <2>4. (RollsBack => handle.level <= Inside(frames) + Slack)' BY SetupKept, Zenon DEF Inv, Balanced
  <2>5. (~Marks => handle.err = "Allowed")' BY SetupKept, Zenon DEF Inv, Balanced
  <2>6. QED BY <2>1, <2>2, <2>3, <2>4, <2>5, Zenon DEF Balanced
<1>2. Careful' => Orderly(handle, frames)' BY SetupKept, Zenon DEF Inv, Orderly
<1>3. Careful' /\ (Marks' => "begin" \notin Failing') => FatalIsKnown(handle, frames)'
  BY SetupKept, Zenon DEF Inv, FatalIsKnown
<1>4. Careful' /\ ~Marks' => Contents(handle, frames)' BY SetupKept, ZenonT(30) DEF Inv, Contents
<1>5. application' \in Applications OBVIOUS
<1>6. QED BY <1>1, <1>2, <1>3, <1>4, <1>5, Zenon DEF IInv, Inv

\* A step at which no call ends reports nothing.
LEMMA NothingReported == ASSUME last' = <<>> PROVE Reported'
BY Zenon DEF Reported, Ended, CommittedIsDurable, FailedLeavesNothing, CleanCallCommits

\* What the innermost call leaves that returns ok, asked to commit or not.
Leaves(h, fs, ok, asked, g) ==
    LET f == fs[Len(fs)]
        failed == f.failed \/ (asked /\ ~ok)
    IN  /\ Ends(h, fs, g)
        /\ Careful => EndsOrderly(h, fs, failed, g)
        /\ Careful /\ (Marks => "begin" \notin Failing) => EndsKnown(fs, failed, g)
        /\ Careful /\ ~Marks => EndsContents(h, fs, ok, failed, g)
        /\ Careful /\ ~ok /\ (Marks => Len(fs) = 1) => g.cur \subseteq f.base
        /\ Careful /\ ~Marks /\ ok /\ Len(fs) = 1 => g.db = f.base \cup f.work
        /\ /\ Careful /\ (Marks => "begin" \notin Failing)
           /\ asked /\ ~f.failed /\ g.faults = h.faults
           => ok

LEMMA ReturnStep ==
    ASSUME TransactionConstants, IInv, frames # <<>>, NEW ok \in BOOLEAN,
           NEW asked \in BOOLEAN, NEW h, Inv(h, frames), h.faults = handle.faults,
           NEW g, Leaves(h, frames, ok, asked, g), Return(ok, asked, g)
    PROVE  IInv'
<1> DEFINE n == Len(frames)
           f == frames[n]
           failed == f.failed \/ (asked /\ ~ok)
<1>1. application \in Applications /\ Balanced(h, frames)
  BY Zenon DEF IInv, Inv
<1>2. n \in Nat /\ n >= 1 /\ f \in FrameType /\ frames \in Seq(FrameType)
  BY <1>1, Calls
<1>3. n \in 1..MaxDepth BY <1>1, <1>2 DEF Balanced, TransactionConstants
<1>4. handle' = g /\ UNCHANGED application BY Zenon DEF Return
<1>5. /\ last'.ok = ok /\ last'.asked = asked /\ last'.failed = f.failed /\ last'.depth = n
      /\ last'.base = f.base /\ last'.work = f.work
      /\ last'.fault = (g.faults # handle.faults)
  BY DEF Return, Top
<1>6. Kept(f, ok) \in SUBSET Writes
  <2>1. f.work \in SUBSET Writes BY <1>2, Zenon DEF FrameType
  <2>2. QED BY <2>1 DEF Kept
<1>7. failed \in BOOLEAN BY Zenon
<1>8. Pops(frames, failed, Kept(f, ok), frames') BY Zenon DEF Return, Pops, Top, Kept
<1> HIDE DEF failed
<1>9. PopIs(frames, failed, Kept(f, ok), frames') BY <1>2, <1>6, <1>7, <1>8, TopPopped, Zenon
<1>10. Inv(g, frames')
  <2>1. /\ Ends(h, frames, g)
        /\ Careful => EndsOrderly(h, frames, failed, g)
        /\ Careful /\ (Marks => "begin" \notin Failing) => EndsKnown(frames, failed, g)
        /\ Careful /\ ~Marks => EndsContents(h, frames, ok, failed, g)
    BY Zenon DEF Leaves, failed
  <2>2. QED BY <1>1, <1>7, <1>9, <2>1, CallReturns, Zenon
<1>11. Reported'
  <2>1. last'.ok \in BOOLEAN /\ last'.depth \in 1..MaxDepth BY <1>3, <1>5, Zenon
  <2>2. CommittedIsDurable'
    <3>1. Careful /\ ~Marks /\ ok /\ n = 1 => g.db = f.base \cup f.work BY Zenon DEF Leaves
    <3>2. QED BY <1>4, <1>5, <3>1, SetupKept, Zenon DEF CommittedIsDurable
  <2>3. FailedLeavesNothing'
    <3>1. Careful /\ ~ok /\ (Marks => n = 1) => g.cur \subseteq f.base BY Zenon DEF Leaves
    <3>2. QED BY <1>4, <1>5, <3>1, SetupKept, Zenon DEF FailedLeavesNothing
  <2>4. CleanCallCommits'
    <3>1. /\ Careful /\ (Marks => "begin" \notin Failing)
          /\ asked /\ ~f.failed /\ g.faults = handle.faults
          => ok
      BY Zenon DEF Leaves
    <3>2. QED BY <1>4, <1>5, <3>1, SetupKept, Zenon DEF CleanCallCommits
  <2>5. QED BY <2>1, <2>2, <2>3, <2>4, Zenon DEF Reported
<1>12. QED BY <1>1, <1>4, <1>10, <1>11, NextState, Zenon

LEMMA ReturnFalseStep ==
    ASSUME TransactionConstants, IInv, ReturnFalse
    PROVE  IInv'
<1>1. PICK g \in RollbackTransaction(handle) : Return(FALSE, FALSE, g) BY Zenon DEF ReturnFalse
<1>2. Inv(handle, frames) /\ Sound(handle) BY Zenon DEF IInv, Inv, Balanced
<1> DEFINE f == frames[Len(frames)]
<1>3. frames # <<>> /\ ~f.paused BY Zenon DEF ReturnFalse, Running, Top
<1>4. f.failed \in BOOLEAN
  <2>1. Balanced(handle, frames) BY <1>2, Zenon DEF Inv
  <2>2. f \in FrameType BY <1>3, <2>1, Calls
  <2>3. QED BY <2>2, Zenon DEF FrameType
<1>5. /\ Sound(g) /\ (handle.err = "Allowed" => g.err = "Allowed")
      /\ RollsBack => g.level = LevelAbove(handle)
      /\ ~Lite /\ Undoes => /\ Undone(handle, g) /\ g.faults = handle.faults
                            /\ handle.level > 1 => g.inTx = handle.inTx
  BY <1>2, RollbackResults, Zenon
<1>6. Ends(handle, frames, g) BY <1>2, <1>3, <1>5, LevelEnds, Zenon
<1>7. ASSUME Careful
      PROVE  /\ EndsOrderly(handle, frames, f.failed, g)
             /\ (Marks => "begin" \notin Failing) => EndsKnown(frames, f.failed, g)
             /\ ~Marks => EndsContents(handle, frames, FALSE, f.failed, g)
             /\ (Marks => Len(frames) = 1) => g.cur \subseteq f.base
  <2>1. ~Lite /\ Undoes BY <1>7, Zenon DEF Careful, Undoes
  <2>2. QED BY <1>2, <1>3, <1>4, <1>5, <1>7, <2>1, UndoneEnds, Zenon
<1> HIDE DEF f
<1>8. (f.failed \/ (FALSE /\ ~FALSE)) = f.failed BY <1>4, Zenon
<1>9. Leaves(handle, frames, FALSE, FALSE, g) BY <1>6, <1>7, <1>8, Zenon DEF Leaves, f
<1>10. QED BY <1>1, <1>2, <1>3, <1>9, ReturnStep, Zenon

\* commitOrRollbackTransaction ends the innermost call, or lets it pause.
LEMMA CommitOrRollbackLeaves ==
    ASSUME TransactionConstants, NEW h, NEW fs, Inv(h, fs), fs # <<>>, Ready(fs),
           NEW r \in CommitOrRollback(h)
    PROVE  Leaves(h, fs, r.ok, TRUE, r.h)
<1> DEFINE f == fs[Len(fs)]
           g == r.h
           failed == f.failed \/ (TRUE /\ ~r.ok)
<1>1. Sound(h) /\ Balanced(h, fs) BY Zenon DEF Inv, Balanced
<1>2. ~f.paused BY Zenon DEF Ready
<1>3. f.failed \in BOOLEAN /\ Len(fs) \in Nat
  <2>1. f \in FrameType /\ Len(fs) \in Nat BY <1>1, Calls
  <2>2. QED BY <2>1, Zenon DEF FrameType
<1>4. /\ r \in ResultType /\ Sound(g)
      /\ h.err = "Allowed" => g.err = "Allowed"
      /\ RollsBack => g.level = LevelAbove(h)
      /\ r.ok => h.err # "Fatal" /\ Committed(h, g)
      /\ ~Lite /\ Undoes /\ ~r.ok =>
            /\ Undone(h, g)
            /\ g.faults = h.faults => h.err = "Fatal"
  BY <1>1, CommitOrRollbackResults, Zenon
<1>5. failed \in BOOLEAN /\ (f.failed => failed) BY Zenon
<1> HIDE DEF g
<1>6. Ends(h, fs, g) BY <1>2, <1>4, LevelEnds, Zenon
<1>7. ASSUME Careful, r.ok PROVE Leaves(h, fs, r.ok, TRUE, g)
  <2> HIDE DEF failed
  <2>1. /\ EndsOrderly(h, fs, failed, g)
        /\ (Marks => "begin" \notin Failing) => EndsKnown(fs, failed, g)
        /\ ~Marks => EndsContents(h, fs, TRUE, failed, g)
        /\ ~Marks /\ Len(fs) = 1 => g.db = fs[1].base \cup fs[1].work
    BY <1>4, <1>5, <1>7, CommittedEnds, ZenonT(30)
  <2>2. r.ok = TRUE BY <1>4, <1>7, Zenon DEF ResultType
  <2>3. ~Marks => EndsContents(h, fs, r.ok, failed, g) BY <2>1, <2>2, Zenon
  <2>4. QED BY <1>6, <1>7, <2>1, <2>3, Zenon DEF Leaves, failed
<1>8. ASSUME Careful, ~r.ok PROVE Leaves(h, fs, r.ok, TRUE, g)
  <2>1. failed BY <1>8, Zenon
  <2> HIDE DEF failed
  <2>2. Undone(h, g) /\ (g.faults = h.faults => h.err = "Fatal")
    BY <1>4, <1>8, Zenon DEF Careful, Undoes
  <2>3. /\ EndsOrderly(h, fs, failed, g)
        /\ (Marks => "begin" \notin Failing) => EndsKnown(fs, failed, g)
        /\ ~Marks => EndsContents(h, fs, FALSE, failed, g)
        /\ (Marks => Len(fs) = 1) => g.cur \subseteq f.base
    BY <1>2, <1>4, <1>5, <1>8, <2>1, <2>2, UndoneEnds, Zenon
  <2>4. r.ok = FALSE BY <1>4, <1>8, Zenon DEF ResultType
  <2>5. ~Marks => EndsContents(h, fs, r.ok, failed, g) BY <2>3, <2>4, Zenon
  <2>6. (Marks => "begin" \notin Failing) => g.faults # h.faults
    <3>1. (Marks => "begin" \notin Failing) => h.err # "Fatal" BY <1>8, CarefulCalls, Zenon
    <3>2. QED BY <2>2, <3>1, Zenon
  <2>7. QED BY <1>6, <1>8, <2>3, <2>5, <2>6, Zenon DEF Leaves, failed
<1>9. ASSUME ~Careful PROVE Leaves(h, fs, r.ok, TRUE, g) BY <1>6, <1>9, Zenon DEF Leaves
<1>10. QED BY <1>7, <1>8, <1>9, Zenon DEF g

LEMMA ReturnTrueStep ==
    ASSUME TransactionConstants, IInv, ReturnTrue
    PROVE  IInv'
<1>1. PICK r \in CommitOrRollback(handle) : Return(r.ok, TRUE, r.h) BY Zenon DEF ReturnTrue
<1>2. Inv(handle, frames) /\ Sound(handle) BY Zenon DEF IInv, Inv, Balanced
<1>3. frames # <<>> /\ Ready(frames) BY Zenon DEF ReturnTrue, GoesOn, Running, Ready, Top
<1>4. r \in ResultType BY <1>2, CommitOrRollbackResults, Zenon
<1>5. r.ok \in BOOLEAN BY <1>4, Zenon DEF ResultType
<1>6. Leaves(handle, frames, r.ok, TRUE, r.h) BY <1>2, <1>3, CommitOrRollbackLeaves, Zenon
<1>7. QED BY <1>1, <1>2, <1>3, <1>5, <1>6, ReturnStep, Zenon

\* The calls and the handle after a step at which no call ends.
LEMMA QuietStep ==
    ASSUME IInv, NEW g, NEW fs, Inv(g, fs), handle' = g, frames' = fs,
           UNCHANGED application, last' = <<>>
    PROVE  IInv'
<1>1. application \in Applications BY Zenon DEF IInv
<1>2. Reported' BY NothingReported, Zenon
<1>3. QED BY <1>1, <1>2, NextState, Zenon

\* The innermost call, changed, is a call.
LEMMA ChangedCalls ==
    ASSUME NEW f \in FrameType
    PROVE  /\ [f EXCEPT !.failed = TRUE] \in FrameType
           /\ \A b \in SUBSET Writes : \A p \in BOOLEAN :
                [f EXCEPT !.paused = p, !.base = b] \in FrameType
           /\ \A w \in Writes : [f EXCEPT !.work = @ \cup {w}] \in FrameType
<1>1. [f EXCEPT !.failed = TRUE] \in FrameType BY Zenon DEF FrameType
<1>2. ASSUME NEW b \in SUBSET Writes, NEW p \in BOOLEAN
      PROVE  [f EXCEPT !.paused = p, !.base = b] \in FrameType
  BY Zenon DEF FrameType
<1>3. ASSUME NEW w \in Writes PROVE [f EXCEPT !.work = @ \cup {w}] \in FrameType
  BY DEF FrameType
<1>4. QED BY <1>1, <1>2, <1>3, Zenon

LEMMA PauseStep ==
    ASSUME TransactionConstants, IInv, Pause
    PROVE  IInv'
<1>1. PICK r \in CommitOrRollback(handle) :
         IF r.ok
         THEN /\ handle' = r.h /\ UNCHANGED application
              /\ last' = <<>>
              /\ frames' = SetTop([Top EXCEPT !.paused = TRUE, !.base = r.h.cur])
         ELSE Return(FALSE, TRUE, r.h)
  BY Zenon DEF Pause
<1>2. Inv(handle, frames) /\ Sound(handle) /\ Balanced(handle, frames) BY Zenon DEF IInv, Inv, Balanced
<1>3. frames # <<>> /\ Ready(frames) BY Zenon DEF Pause, GoesOn, Running, Ready, Top
<1>4. r \in ResultType /\ Sound(r.h) /\ (r.ok => Committed(handle, r.h))
  BY <1>2, CommitOrRollbackResults, Zenon
<1>5. r.ok \in BOOLEAN /\ r.h.cur \in SUBSET Writes BY <1>4, Zenon DEF ResultType, HandleType
<1>6. CASE r.ok
  <2> DEFINE f == [frames[Len(frames)] EXCEPT !.paused = TRUE, !.base = r.h.cur]
  <2>1. frames \in Seq(FrameType) /\ frames[Len(frames)] \in FrameType BY <1>2, <1>3, Calls
  <2>2. f \in FrameType BY <1>5, <2>1, ChangedCalls, Zenon
  <2>3. handle' = r.h /\ UNCHANGED application /\ last' = <<>> BY <1>1, <1>6, Zenon
  <2>4. frames' = [frames EXCEPT ![Len(frames)] = f] BY <1>1, <1>6, Zenon DEF SetTop, Top
  <2> HIDE DEF f
  <2>5. TopIs(frames, f, [frames EXCEPT ![Len(frames)] = f]) BY <1>3, <2>1, <2>2, TopSet, Zenon
  <2>6. TopIs(frames, f, frames') BY <2>4, <2>5, Zenon
  <2>7. Inv(r.h, frames') BY <1>2, <1>3, <1>4, <1>6, <2>6, CallPauses, Zenon DEF f
  <2>8. QED BY <2>3, <2>7, QuietStep, Zenon
<1>7. CASE ~r.ok
  <2>1. r.ok = FALSE BY <1>5, <1>7, Zenon
  <2>2. Leaves(handle, frames, FALSE, TRUE, r.h)
    BY <1>2, <1>3, <2>1, CommitOrRollbackLeaves, Zenon
  <2>3. Return(FALSE, TRUE, r.h) BY <1>1, <1>7, Zenon
  <2>4. QED BY <1>2, <1>3, <2>2, <2>3, ReturnStep, Zenon
<1>8. QED BY <1>6, <1>7, Zenon

LEMMA ResumeStep ==
    ASSUME TransactionConstants, IInv, Resume
    PROVE  IInv'
<1>1. PICK r \in BeginTransaction(handle) :
         IF r.ok
         THEN /\ handle' = r.h /\ UNCHANGED application
              /\ last' = <<>>
              /\ frames' = SetTop([Top EXCEPT !.paused = FALSE, !.base = r.h.cur])
         ELSE Return(FALSE, TRUE, r.h)
  BY Zenon DEF Resume
<1> DEFINE h == PutRight(handle)
<1>2. /\ Inv(h, frames) /\ Balanced(h, frames) /\ Firm(h)
      /\ h.db = handle.db /\ h.faults = handle.faults /\ r \in BeginTransaction(h)
  BY PutRightCalls, Zenon DEF IInv, Inv
<1> HIDE DEF h
<1>3. frames # <<>> /\ frames[Len(frames)].paused BY Zenon DEF Resume, Top
<1>4. /\ r \in ResultType /\ Sound(r.h) /\ r.h.db = h.db
      /\ (r.ok => Begun(h, r.h)) /\ (~r.ok => NotBegun(h, r.h))
  BY <1>2, BeginResults, Zenon
<1>5. r.ok \in BOOLEAN /\ r.h.cur \in SUBSET Writes BY <1>4, Zenon DEF ResultType, HandleType
<1>6. frames \in Seq(FrameType) /\ frames[Len(frames)] \in FrameType BY <1>2, <1>3, Calls, SMTT(30)
<1>7. CASE r.ok
  <2> DEFINE f == [frames[Len(frames)] EXCEPT !.paused = FALSE, !.base = r.h.cur]
  <2>1. f \in FrameType BY <1>5, <1>6, ChangedCalls, Zenon
  <2>2. handle' = r.h /\ UNCHANGED application /\ last' = <<>> BY <1>1, <1>7, Zenon
  <2>3. frames' = [frames EXCEPT ![Len(frames)] = f] BY <1>1, <1>7, Zenon DEF SetTop, Top
  <2> HIDE DEF f
  <2>4. TopIs(frames, f, [frames EXCEPT ![Len(frames)] = f]) BY <1>3, <1>6, <2>1, TopSet, Zenon
  <2>5. TopIs(frames, f, frames') BY <2>3, <2>4, Zenon
  <2>6. Inv(r.h, frames') BY <1>2, <1>3, <1>4, <1>7, <2>5, CallResumes, Zenon DEF f
  <2>7. QED BY <2>2, <2>6, QuietStep, Zenon
<1>8. CASE ~r.ok
  <2> DEFINE f == frames[Len(frames)]
  <2>1. /\ Ends(h, frames, r.h)
        /\ Careful => EndsOrderly(h, frames, TRUE, r.h)
        /\ Careful /\ (Marks => "begin" \notin Failing) => EndsKnown(frames, TRUE, r.h)
        /\ Careful /\ ~Marks => EndsContents(h, frames, FALSE, TRUE, r.h)
        /\ Careful /\ (Marks => Len(frames) = 1) => r.h.cur \subseteq f.base
    BY <1>2, <1>3, <1>4, <1>8, NotBegunEnds, Zenon
  <2>2. (f.failed \/ (TRUE /\ ~FALSE)) = TRUE BY Zenon
  <2>3. r.h.faults # h.faults BY <1>4, <1>8, Zenon DEF NotBegun
  <2> HIDE DEF f
  <2>4. Leaves(h, frames, FALSE, TRUE, r.h) BY <2>1, <2>2, <2>3, Zenon DEF Leaves, f
  <2>5. Return(FALSE, TRUE, r.h) BY <1>1, <1>8, Zenon
  <2>6. QED BY <1>2, <1>3, <2>4, <2>5, ReturnStep, Zenon
<1>9. QED BY <1>7, <1>8, Zenon

\* A failed BEGIN or statement harms the innermost call.
LEMMA FailedCallStep ==
    ASSUME TransactionConstants, IInv, NEW h, Inv(h, frames), frames # <<>>, Ready(frames),
           NEW g, Harmed(h, g), handle' = g, UNCHANGED application, last' = <<>>,
           frames' = SetTop([Top EXCEPT !.failed = TRUE])
    PROVE  IInv'
<1> DEFINE f == [frames[Len(frames)] EXCEPT !.failed = TRUE]
<1>1. Balanced(h, frames) BY Zenon DEF Inv
<1>2. frames \in Seq(FrameType) /\ frames[Len(frames)] \in FrameType BY <1>1, Calls
<1>3. f \in FrameType BY <1>2, ChangedCalls, Zenon
<1>4. frames' = [frames EXCEPT ![Len(frames)] = f] BY Zenon DEF SetTop, Top
<1> HIDE DEF f
<1>5. TopIs(frames, f, [frames EXCEPT ![Len(frames)] = f]) BY <1>2, <1>3, TopSet, Zenon
<1>6. TopIs(frames, f, frames') BY <1>4, <1>5, Zenon
<1>7. Inv(g, frames') BY <1>6, CallFails, Zenon DEF f
<1>8. QED BY <1>7, QuietStep, Zenon

LEMMA BeginStep ==
    ASSUME TransactionConstants, IInv, NEW kind \in {"run", "pausable", "create"},
           NEW before, Inv(before, frames), Begin(kind, before)
    PROVE  IInv'
<1>1. PICK r \in BeginTransaction(before) :
          /\ handle' = r.h /\ UNCHANGED application
          /\ last' = <<>>
          /\ frames' = IF r.ok THEN Append(frames, Frame(kind, r.h))
                       ELSE IF frames = <<>> THEN frames
                       ELSE SetTop([Top EXCEPT !.failed = TRUE])
  BY Zenon DEF Begin
<1> DEFINE h == PutRight(before)
<1>2. Inv(h, frames) /\ Balanced(h, frames) /\ Firm(h) /\ r \in BeginTransaction(h)
  BY PutRightCalls, Zenon DEF Inv
<1> HIDE DEF h
<1>3. Len(frames) < MaxDepth /\ Ready(frames) BY Zenon DEF Begin, GoesOn, Running, Ready, Top
<1>4. /\ r \in ResultType /\ Sound(r.h) /\ r.h.db = h.db
      /\ (r.ok => Begun(h, r.h)) /\ (~r.ok => NotBegun(h, r.h))
  BY <1>2, BeginResults, Zenon
<1>5. frames \in Seq(FrameType) BY <1>2, Zenon DEF Balanced
<1>6. CASE r.ok
  <2>1. r.h.cur \in SUBSET Writes BY <1>4, Zenon DEF ResultType, HandleType
  <2>2. Frame(kind, r.h) \in FrameType BY <2>1 DEF Frame, FrameType
  <2>3. PushIs(frames, Frame(kind, r.h), Append(frames, Frame(kind, r.h)))
    BY <1>5, <2>2, TopPushed, Zenon
  <2>4. Inv(r.h, Append(frames, Frame(kind, r.h)))
    BY <1>2, <1>3, <1>4, <1>6, <2>3, CallBegins, Zenon
  <2>5. frames' = Append(frames, Frame(kind, r.h)) BY <1>1, <1>6, Zenon
  <2>6. QED BY <1>1, <2>4, <2>5, QuietStep, Zenon
<1>7. CASE ~r.ok
  <2>1. Harmed(h, r.h) /\ (r.h.err = "Fatal" => "begin" \in Failing)
    BY <1>4, <1>7, Zenon DEF Harmed, NotBegun
  <2>2. CASE frames = <<>>
    <3>1. Inv(h, <<>>) BY <1>2, <2>2, Zenon
    <3>2. Inv(r.h, <<>>) BY <2>1, <3>1, NothingBegan, Zenon
    <3>3. frames' = <<>> BY <1>1, <1>7, <2>2, Zenon
    <3>4. QED BY <1>1, <3>2, <3>3, QuietStep, Zenon
  <2>3. CASE frames # <<>>
    <3>1. frames' = SetTop([Top EXCEPT !.failed = TRUE]) BY <1>1, <1>7, <2>3, Zenon
    <3>2. QED BY <1>1, <1>2, <1>3, <2>1, <2>3, <3>1, FailedCallStep, Zenon
  <2>4. QED BY <2>2, <2>3, Zenon
<1>8. QED BY <1>6, <1>7, Zenon

\* markErrorNotAllowed, in an application that creates tables.
LEMMA MarkedCalls ==
    ASSUME NEW h, NEW fs, Inv(h, fs), Marks
    PROVE  Inv(MarkErrorNotAllowed(h), fs)
<1>1. Sound(h) BY Zenon DEF Inv, Balanced
<1>2. /\ Sound(MarkErrorNotAllowed(h)) /\ ButErrors(h, MarkErrorNotAllowed(h))
      /\ MarkErrorNotAllowed(h).err = "Fatal" => h.err = "Fatal"
  BY <1>1, MarkedIs, Zenon
<1>3. QED BY <1>2, ErrorsChange, Zenon

LEMMA BeginningSteps ==
    ASSUME TransactionConstants, IInv, RunTransaction \/ CreateTable
    PROVE  IInv'
<1>1. Inv(handle, frames) BY Zenon DEF IInv
<1>2. CASE RunTransaction
  <2>1. PICK kind \in {"run", "pausable"} : Begin(kind, handle) BY <1>2, Zenon DEF RunTransaction
  <2>2. kind \in {"run", "pausable", "create"} BY Zenon
  <2>3. QED BY <1>1, <2>1, <2>2, BeginStep, Zenon
<1>3. CASE CreateTable
  <2>1. Marks /\ Begin("create", MarkErrorNotAllowed(handle)) BY <1>3, Zenon DEF CreateTable
  <2>2. Inv(MarkErrorNotAllowed(handle), frames) BY <1>1, <2>1, MarkedCalls, Zenon
  <2>3. "create" \in {"run", "pausable", "create"} BY Zenon
  <2>4. QED BY <2>1, <2>2, <2>3, BeginStep, Zenon
<1>4. QED BY <1>2, <1>3, Zenon

LEMMA StatementStep ==
    ASSUME TransactionConstants, IInv, Statement
    PROVE  IInv'
<1>1. PICK w \in Writes \ handle.cur, mark \in {FALSE, Marks} :
          LET h == IF mark THEN MarkErrorNotAllowed(handle) ELSE handle
          IN  \E r \in Execute("statement", h, Wrote(h, w)) :
                 /\ handle' = r.h /\ UNCHANGED application
                 /\ last' = <<>>
                 /\ frames' = SetTop(IF r.ok THEN [Top EXCEPT !.work = @ \cup {w}]
                                     ELSE [Top EXCEPT !.failed = TRUE])
  BY Zenon DEF Statement
<1> DEFINE h == IF mark THEN MarkErrorNotAllowed(handle) ELSE handle
<1>2. PICK r \in Execute("statement", h, Wrote(h, w)) :
          /\ handle' = r.h /\ UNCHANGED application
          /\ last' = <<>>
          /\ frames' = SetTop(IF r.ok THEN [Top EXCEPT !.work = @ \cup {w}]
                              ELSE [Top EXCEPT !.failed = TRUE])
  BY <1>1, Zenon
<1>3. frames # <<>> /\ Ready(frames) BY Zenon DEF Statement, GoesOn, Running, Ready, Top
<1>4. Inv(h, frames)
  <2>1. Inv(handle, frames) BY Zenon DEF IInv
  <2>2. CASE mark
    <3>1. Marks BY <2>2, Zenon
    <3>2. QED BY <2>1, <2>2, <3>1, MarkedCalls, Zenon
  <2>3. CASE ~mark BY <2>1, <2>3, Zenon
  <2>4. QED BY <2>2, <2>3, Zenon
<1> HIDE DEF h
<1>5. Sound(h) /\ Balanced(h, frames) BY <1>4, Zenon DEF Inv, Balanced
<1>6. /\ Sound(r.h) /\ (r.ok => Written(h, w, r.h)) /\ (~r.ok => Fails(h, r.h))
      /\ w \in Writes
  BY <1>5, StatementResults, Zenon
<1>7. CASE r.ok
  <2> DEFINE f == [frames[Len(frames)] EXCEPT !.work = @ \cup {w}]
  <2>1. frames \in Seq(FrameType) /\ frames[Len(frames)] \in FrameType BY <1>3, <1>5, Calls
  <2>2. f \in FrameType BY <1>6, <2>1, ChangedCalls, Zenon
  <2>3. frames' = [frames EXCEPT ![Len(frames)] = f] BY <1>2, <1>7, Zenon DEF SetTop, Top
  <2> HIDE DEF f
  <2>4. TopIs(frames, f, [frames EXCEPT ![Len(frames)] = f]) BY <1>3, <2>1, <2>2, TopSet, Zenon
  <2>5. TopIs(frames, f, frames') BY <2>3, <2>4, Zenon
  <2>6. Inv(r.h, frames') BY <1>3, <1>4, <1>6, <1>7, <2>5, CallWrites, Zenon DEF f
  <2>7. QED BY <1>2, <2>6, QuietStep, Zenon
<1>8. CASE ~r.ok
  <2>1. h.level \in Nat /\ r.h.level = h.level BY <1>5, <1>6, <1>8, Calls, Zenon DEF Fails
  <2>2. r.h.level <= h.level BY <2>1
  <2>3. Harmed(h, r.h) BY <1>6, <1>8, <2>2, Zenon DEF Harmed, Fails
  <2>4. frames' = SetTop([Top EXCEPT !.failed = TRUE]) BY <1>2, <1>8, Zenon
  <2>5. QED BY <1>2, <1>3, <1>4, <2>3, <2>4, FailedCallStep, Zenon
<1>9. QED BY <1>7, <1>8, Zenon

LEMMA RecoveringStatementStep ==
    ASSUME TransactionConstants, IInv, RecoveringStatement
    PROVE  IInv'
<1> DEFINE g == PrepareRecovering(handle)
<1>1. Inv(handle, frames) /\ Sound(handle) BY Zenon DEF IInv, Inv, Balanced
<1>2. Sound(g) /\ ButErrors(handle, g) /\ g.err = handle.err BY <1>1, RecoveredIs, Zenon
<1>3. handle' = g /\ frames' = frames /\ UNCHANGED application /\ last' = <<>>
  BY Zenon DEF RecoveringStatement
<1> HIDE DEF g
<1>4. Inv(g, frames) BY <1>1, <1>2, ErrorsChange, Zenon
<1>5. QED BY <1>3, <1>4, QuietStep, Zenon

LEMMA RollbackAgainStep ==
    ASSUME TransactionConstants, IInv, RollbackAgain
    PROVE  IInv'
<1>1. PICK g \in RollbackTransaction(handle) : handle' = g BY Zenon DEF RollbackAgain
<1>2. /\ frames = <<>> /\ handle.inTx /\ frames' = frames /\ UNCHANGED application
      /\ last' = <<>>
  BY Zenon DEF RollbackAgain
<1>3. Inv(handle, frames) /\ Balanced(handle, frames) /\ Sound(handle)
  BY Zenon DEF IInv, Inv, Balanced
<1>4. /\ Sound(g) /\ (handle.err = "Allowed" => g.err = "Allowed")
      /\ RollsBack => g.level = LevelAbove(handle)
  BY <1>3, RollbackResults, Zenon
<1>5. Inside(frames) = 0 /\ ~(Inside(frames) >= 1) BY <1>2 DEF Inside
<1>6. ~Careful
  <2>1. Unharmed(frames) BY <1>2, Zenon DEF Unharmed
  <2>2. QED BY <1>2, <1>3, <1>5, <2>1, Zenon DEF Inv, Orderly
<1>7. RollsBack => g.level <= Inside(frames) + Slack
  <2>1. handle.level \in Nat BY <1>3, Calls, Zenon
  <2>2. RollsBack => handle.level <= Inside(frames) + Slack BY <1>3, Zenon DEF Balanced
  <2>3. QED BY <1>4, <1>5, <2>1, <2>2, SlackIs DEF LevelAbove
<1>8. Balanced(g, frames) BY <1>3, <1>4, <1>7, Zenon DEF Balanced
<1>9. Inv(g, frames) BY <1>6, <1>8, Zenon DEF Inv
<1>10. QED BY <1>1, <1>2, <1>9, QuietStep, Zenon

\* A fresh handle, and no calls.
LEMMA InitialState == ASSUME TransactionConstants, TransactionInit PROVE IInv
<1> DEFINE h == Fresh
<1>1. /\ h \in HandleType /\ ~h.inTx /\ h.saves = <<>> /\ h.cur = h.db
      /\ h.level = 0 /\ h.err = "Allowed"
  BY DEF Fresh, HandleType, TransactionConstants, TransactionErrors, SaveType
<1>2. application \in Applications /\ handle = h /\ frames = <<>> /\ last = <<>>
  BY Zenon DEF TransactionInit
<1>3. Sound(h) BY <1>1, Zenon DEF Sound
<1> HIDE DEF h
<1> DEFINE fs == <<>>
<1>4. /\ fs \in Seq(FrameType) /\ Len(fs) = 0 /\ fs = <<>>
      /\ 0 <= MaxDepth /\ 0 <= 0 + Slack /\ ~(0 >= 1) /\ 1..0 = {} /\ "Allowed" # "Fatal"
  BY SlackIs DEF TransactionConstants
<1> HIDE DEF fs
<1>5. Inside(fs) = 0 BY <1>4, Zenon DEF Inside
<1>6. Balanced(h, fs) BY <1>1, <1>3, <1>4, <1>5, Zenon DEF Balanced
<1>7. Orderly(h, fs) BY <1>1, <1>4, <1>5, Zenon DEF Orderly
<1>8. FatalIsKnown(h, fs) BY <1>1, <1>4, Zenon DEF FatalIsKnown
<1>9. Contents(h, fs) BY <1>1, <1>4, Zenon DEF Contents
<1>10. Inv(h, fs) BY <1>6, <1>7, <1>8, <1>9, Zenon DEF Inv
<1>11. Reported
  BY <1>2, Zenon DEF Reported, Ended, CommittedIsDurable, FailedLeavesNothing, CleanCallCommits
<1>12. QED BY <1>2, <1>4, <1>10, <1>11, Zenon DEF IInv

\* Nothing changes.
LEMMA Stuttering == ASSUME TransactionConstants, IInv, UNCHANGED transactionVars PROVE IInv'
<1>1. UNCHANGED application /\ handle' = handle /\ frames' = frames /\ last' = last
  BY Zenon DEF transactionVars
<1>2. application \in Applications /\ Inv(handle, frames) /\ Reported BY Zenon DEF IInv
<1>3. Reported'
  <2>1. (Ended => last.ok \in BOOLEAN /\ last.depth \in 1..MaxDepth)'
    BY <1>1, <1>2, Zenon DEF Reported, Ended
  <2>2. CommittedIsDurable'
    BY <1>1, <1>2, SetupKept, Zenon DEF Reported, Ended, CommittedIsDurable
  <2>3. FailedLeavesNothing'
    BY <1>1, <1>2, SetupKept, Zenon DEF Reported, Ended, FailedLeavesNothing
  <2>4. CleanCallCommits'
    BY <1>1, <1>2, SetupKept, Zenon DEF Reported, Ended, CleanCallCommits
  <2>5. QED BY <2>1, <2>2, <2>3, <2>4, Zenon DEF Reported
<1>4. QED BY <1>1, <1>2, <1>3, NextState, Zenon

\* Every operation of the handle, under every call the application makes,
\* keeps the level, the error and the savepoints in step with the calls: the
\* inductive invariant the theorems below rest on.
THEOREM TransactionInvariant == TransactionSpec => []IInv
<1> USE TransactionAssumption
<1>1. TransactionInit => IInv BY InitialState, Zenon
<1>2. ASSUME IInv, [TransactionNext]_transactionVars PROVE IInv'
  <2>1. CASE RunTransaction \/ CreateTable BY <1>2, <2>1, BeginningSteps, Zenon
  <2>2. CASE Statement BY <1>2, <2>2, StatementStep, Zenon
  <2>3. CASE RecoveringStatement BY <1>2, <2>3, RecoveringStatementStep, ZenonT(30)
  <2>4. CASE ReturnFalse BY <1>2, <2>4, ReturnFalseStep, Zenon
  <2>5. CASE ReturnTrue BY <1>2, <2>5, ReturnTrueStep, Zenon
  <2>6. CASE Pause BY <1>2, <2>6, PauseStep, Zenon
  <2>7. CASE Resume BY <1>2, <2>7, ResumeStep, Zenon
  <2>8. CASE RollbackAgain BY <1>2, <2>8, RollbackAgainStep, Zenon
  <2>9. CASE UNCHANGED transactionVars BY <1>2, <2>9, Stuttering, Zenon
  <2>10. QED
    BY <1>2, <2>1, <2>2, <2>3, <2>4, <2>5, <2>6, <2>7, <2>8, <2>9, ZenonT(30) DEF TransactionNext
<1>3. IInv /\ [TransactionNext]_transactionVars => IInv' BY <1>2, Zenon
<1>4. QED BY <1>1, <1>3, PTL DEF TransactionSpec

\* The state of the handle and of the calls has its types.
THEOREM TransactionTypes == TransactionSpec => []TransactionTypeOK
<1>1. IInv => TransactionTypeOK
  <2> SUFFICES ASSUME IInv PROVE TransactionTypeOK OBVIOUS
  <2>1. /\ Sound(handle) /\ frames \in Seq(FrameType)
        /\ Ended => last.ok \in BOOLEAN /\ last.depth \in 1..MaxDepth
    BY Zenon DEF IInv, Inv, Balanced, Reported
  <2>2. handle \in HandleType BY <2>1, Zenon DEF Sound
  <2>3. QED BY <2>1, <2>2, Zenon DEF TransactionTypeOK, HandleType, FrameType, SaveType
<1>2. TransactionSpec => []IInv BY TransactionInvariant
<1>3. QED BY <1>1, <1>2, PTL

\* Once every call of runTransaction has returned, the level that beginTransaction,
\* commitTransaction and rollbackTransaction keep is at most 1, whatever failed and
\* whatever the application ignored, so that a rollback reaches ROLLBACK; and where
\* ROLLBACK itself does not fail no transaction, no savepoint and no level is left.
THEOREM TransactionsEnd == TransactionSpec => []TransactionEnds
<1>1. IInv => TransactionEnds
  <2> SUFFICES ASSUME IInv, RollsBack, frames = <<>>
               PROVE  /\ handle.level <= 1
                      /\ "rollback" \notin Failing =>
                            ~handle.inTx /\ handle.saves = <<>> /\ handle.level = 0
    BY Zenon DEF TransactionEnds, RollsBack
  <2>1. Balanced(handle, frames) /\ Sound(handle) BY Zenon DEF IInv, Inv, Balanced
  <2>2. Inside(frames) = 0 BY DEF Inside
  <2>3. handle.level <= 0 + Slack BY <2>1, <2>2, Zenon DEF Balanced
  <2>4. handle.level \in Nat BY <2>1, Calls, Zenon
  <2>5. /\ handle.level <= 1
        /\ "rollback" \notin Failing => handle.level = 0 /\ ~(handle.level >= 1)
    BY <2>3, <2>4, SlackIs
  <2>6. QED BY <2>1, <2>5, Zenon DEF Sound
<1>2. TransactionSpec => []IInv BY TransactionInvariant
<1>3. QED BY <1>1, <1>2, PTL

\* A careful application that creates no tables, where no rollback fails: what the
\* outermost runTransaction wrote, nested calls included, is what became durable
\* when it returned true.
THEOREM CommitsAreDurable == TransactionSpec => []CommittedIsDurable
<1>1. IInv => CommittedIsDurable BY Zenon DEF IInv, Reported
<1>2. TransactionSpec => []IInv BY TransactionInvariant
<1>3. QED BY <1>1, <1>2, PTL

\* A call that returned false left nothing of its writes, at every level, if the
\* statements of rollbackTransaction do not fail.
THEOREM FailuresLeaveNothing == TransactionSpec => []FailedLeavesNothing
<1>1. IInv => FailedLeavesNothing BY Zenon DEF IInv, Reported
<1>2. TransactionSpec => []IInv BY TransactionInvariant
<1>3. QED BY <1>1, <1>2, PTL

\* No error of an earlier transaction, and no forgiven one, makes
\* commitOrRollbackTransaction roll back a call in which nothing failed,
\* if no rollback failed before.
THEOREM CleanCallsCommit == TransactionSpec => []CleanCallCommits
<1>1. IInv => CleanCallCommits BY Zenon DEF IInv, Reported
<1>2. TransactionSpec => []IInv BY TransactionInvariant
<1>3. QED BY <1>1, <1>2, PTL
=============================================================================
