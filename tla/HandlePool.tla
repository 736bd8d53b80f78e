----------------------------- MODULE HandlePool -----------------------------
(***************************************************************************)
(* WCDB::HandlePool (core/HandlePool.cpp) with the part of InnerDatabase    *)
(* that surrounds it (initialize, getHandle, didDrain): how threads get the *)
(* handles of a database, give them back, keep them through a transaction,  *)
(* and how the pool is drained while it is closed.                          *)
(*                                                                         *)
(* The concurrency lock is the abstract lock ReadWriteLock, which SharedLock *)
(* implements; the counter is HandleCounter's two limits.  The memory lock   *)
(* makes every section under it one step.  During flowOut a thread holds     *)
(* the share that initialize returned and then the ones of flowOut; they are *)
(* one share here, the one that stays with the handle.                       *)
(***************************************************************************)
EXTENDS Naturals, Sequences, FiniteSets

CONSTANTS Threads, NoThread,
          Handles, NoHandle,     \* handle objects; a closed one may be made anew
          Slots, Categories,
          Types,                 \* HandleType
          SlotOf, CategoryOf,    \* slotOfHandleType, categoryOfHandleType
          WaitingTypes,          \* handleShouldWaitWhenFull
          Nested,                \* pairs of types: <<held, requested>> by one thread
          MaxHandles, MaxWriters,
          MaxReferences,         \* bound on nested uses of one handle by a thread
          DrainsWithHandle       \* a thread in its own blockade may close the
                                 \* database while it still uses a handle

ASSUME PoolAssumption ==
    /\ NoThread \notin Threads /\ NoHandle \notin Handles
    /\ IsFiniteSet(Threads) /\ IsFiniteSet(Handles) /\ IsFiniteSet(Categories)
    /\ SlotOf \in [Types -> Slots] /\ CategoryOf \in [Types -> Categories]
    /\ WaitingTypes \subseteq Types /\ Nested \subseteq Types \X Types
    /\ MaxHandles \in Nat \ {0} /\ MaxWriters \in Nat \ {0}
    /\ MaxReferences \in Nat \ {0}
    /\ DrainsWithHandle \in BOOLEAN

VARIABLES handles,      \* m_handles: the handles of each slot
          frees,        \* m_frees: the unused ones, last in first out
          threaded,     \* m_threadedHandles of each thread, by category
          open,         \* handles with an open database connection
          transacting,  \* handles in a transaction
          initialized,  \* m_initialized
          totalCount, writerCount,   \* m_counter
          owner, depth, shares,      \* m_concurrency
          drained,      \* threads inside the callback of drain
          pc            \* where a thread is in flowOut or flowBack

pool == <<handles, frees, open>>
counter == <<totalCount, writerCount>>
lock == <<owner, depth, shares>>
vars == <<handles, frees, threaded, open, transacting, initialized, totalCount,
          writerCount, owner, depth, shares, drained, pc>>

Concurrency == INSTANCE ReadWriteLock

Nothing == [handle |-> NoHandle, reference |-> 0, type |-> NoHandle, hint |-> FALSE]
Idle == [at |-> "idle"]
At(place, type, hint, handle) == [at |-> place, type |-> type, hint |-> hint, handle |-> handle]
Places == {"initialize", "count", "take", "generate", "reuse", "back", "unshare", "decrease"}

\* Types of the state; the per-thread handles count at most MaxReferences, and
\* the counter of HandleCounter never goes below zero.
TypeOK ==
    /\ handles \in [Slots -> SUBSET Handles]
    /\ frees \in [Slots -> Seq(Handles)]
    /\ threaded \in [Threads -> [Categories ->
           [handle : Handles, reference : 0 .. MaxReferences, type : Types, hint : BOOLEAN]
             \cup {Nothing}]]
    /\ open \subseteq Handles
    /\ transacting \subseteq Handles
    /\ initialized \in BOOLEAN
    /\ totalCount \in Nat /\ writerCount \in Nat
    /\ owner \in Threads \cup {NoThread}
    /\ depth \in Nat
    /\ shares \in [Threads -> Nat]
    /\ drained \subseteq Threads
    /\ pc \in [Threads -> [at : Places, type : Types, hint : BOOLEAN,
                           handle : Handles \cup {NoHandle}] \cup {Idle}]

Init ==
    /\ handles = [s \in Slots |-> {}]
    /\ frees = [s \in Slots |-> <<>>]
    /\ threaded = [t \in Threads |-> [c \in Categories |-> Nothing]]
    /\ open = {}
    /\ transacting = {}
    /\ initialized = FALSE
    /\ totalCount = 0 /\ writerCount = 0
    /\ Concurrency!RWInit
    /\ drained = {}
    /\ pc = [t \in Threads |-> Idle]

-----------------------------------------------------------------------------
Alive == UNION {handles[s] : s \in Slots}
FreeHandles == UNION {{frees[s][i] : i \in DOMAIN frees[s]} : s \in Slots}
InHand(t) == {threaded[t][c].handle : c \in Categories} \ {NoHandle}
InTransit(t) == IF pc[t] = Idle THEN {} ELSE {pc[t].handle} \ {NoHandle}

\* A new object: nobody refers to it.
Fresh == Handles \ (Alive \cup FreeHandles \cup UNION {InHand(t) \cup InTransit(t) : t \in Threads})

Go(t, place, handle) == pc' = [pc EXCEPT ![t] = [@ EXCEPT !.at = place, !.handle = handle]]
Return(t) == pc' = [pc EXCEPT ![t] = Idle]

Level(t) == IF owner = t THEN "Write" ELSE IF shares[t] > 0 THEN "Read" ELSE "None"

Decrease(hint) ==
    /\ totalCount' = totalCount - 1
    /\ writerCount' = IF hint THEN writerCount - 1 ELSE writerCount

\* clearAllHandles closes every handle, whoever uses it.
ClearAllHandles ==
    /\ handles' = [s \in Slots |-> {}]
    /\ frees' = [s \in Slots |-> <<>>]
    /\ open' = open \ Alive
    /\ transacting' = transacting \ Alive

\* Every free handle is closed and forgotten.
PurgeInto(allHandles) ==
    /\ handles' = [s \in Slots |-> allHandles[s] \ {frees[s][i] : i \in DOMAIN frees[s]}]
    /\ frees' = [s \in Slots |-> <<>>]

\* lock() does not wait and is not refused.
CanAcquire(t) ==
    /\ shares[t] = 0
    /\ owner = t \/ (owner = NoThread /\ \A u \in Threads : shares[u] = 0)

-----------------------------------------------------------------------------
\* flowOut of a category that the thread uses already: the same handle again,
\* also when it was kept because of a transaction.
FlowOutThreaded(t, type) ==
    LET c == CategoryOf[type] IN
    /\ pc[t] = Idle
    /\ threaded[t][c] # Nothing
    /\ threaded[t][c].reference < MaxReferences
    /\ threaded' = [threaded EXCEPT ![t][c].reference = @ + 1]
    /\ UNCHANGED <<pool, transacting, initialized, counter, lock, drained, pc>>

\* The way to a handle that the thread does not have yet.  Only a normal handle is
\* asked for with a write hint.  The database is a file: one in memory has a single
\* handle and none of this.
GetHandle(t, type, hint) ==
    /\ pc[t] = Idle
    /\ hint => type \in WaitingTypes
    /\ \A c \in Categories : threaded[t][c] # Nothing => <<threaded[t][c].type, type>> \in Nested
    /\ threaded[t][CategoryOf[type]] = Nothing
    /\ pc' = [pc EXCEPT ![t] = At("initialize", type, hint, NoHandle)]
    /\ UNCHANGED <<pool, threaded, transacting, initialized, counter, lock, drained>>

\* initialize: once m_initialized is seen under a share, the share is kept.
InitializeShared(t) ==
    /\ pc[t].at = "initialize"
    /\ initialized
    /\ Concurrency!Share(t)
    /\ Go(t, "count", NoHandle)
    /\ UNCHANGED <<pool, threaded, transacting, initialized, counter, drained>>

\* Blocked initialization: under the exclusive lock the pending vacuum and renewal
\* are finished and the shared path is tried again; or one of them fails.
InitializeBlocked(t) ==
    /\ pc[t].at = "initialize"
    /\ ~initialized
    /\ CanAcquire(t)
    /\ \/ initialized' = TRUE /\ UNCHANGED pc
       \/ UNCHANGED initialized /\ Return(t)
    /\ UNCHANGED <<pool, threaded, transacting, counter, lock, drained>>

\* m_counter.tryIncreaseHandleCount; only the types in WaitingTypes wait.
FlowOutCount(t) ==
    LET full == totalCount >= MaxHandles \/ (pc[t].hint /\ writerCount >= MaxWriters) IN
    /\ pc[t].at = "count"
    /\ \/ /\ ~full
          /\ totalCount' = totalCount + 1
          /\ writerCount' = IF pc[t].hint THEN writerCount + 1 ELSE writerCount
          /\ Go(t, "take", NoHandle)
          /\ UNCHANGED lock
       \/ /\ full /\ pc[t].type \notin WaitingTypes
          /\ Concurrency!Unshare(t)
          /\ Return(t)
          /\ UNCHANGED counter
    /\ UNCHANGED <<pool, threaded, transacting, initialized, drained>>

\* The first section under m_memory: the last free handle of the slot, if any.
FlowOutTake(t) ==
    LET s == SlotOf[pc[t].type] IN
    /\ pc[t].at = "take"
    /\ \/ /\ frees[s] = <<>>
          /\ Go(t, "generate", NoHandle)
          /\ UNCHANGED frees
       \/ /\ frees[s] # <<>>
          /\ Go(t, "reuse", frees[s][Len(frees[s])])
          /\ frees' = [frees EXCEPT ![s] = SubSeq(@, 1, Len(@) - 1)]
    /\ UNCHANGED <<handles, open, threaded, transacting, initialized, counter, lock, drained>>

\* The end of flowOut: the thread refers to the handle and keeps the share.
HandOut(t, h) ==
    /\ threaded' = [threaded EXCEPT ![t][CategoryOf[pc[t].type]] =
                      [handle |-> h, reference |-> 1, type |-> pc[t].type, hint |-> pc[t].hint]]
    /\ Return(t)
    /\ UNCHANGED <<counter, lock>>

BugFailsKeepsCount(t) ==
    /\ Concurrency!Unshare(t)
    /\ Return(t)
    /\ UNCHANGED <<threaded, counter>>

\* flowOut without a handle: the counter and the share are given back.
FlowOutFails(t) ==
    /\ Decrease(pc[t].hint)
    /\ Concurrency!Unshare(t)
    /\ Return(t)
    /\ UNCHANGED threaded

\* generateSlotedHandle opens a new handle, or fails; too many handles alive make
\* the pool purge the free ones.
FlowOutGenerate(t) ==
    LET s == SlotOf[pc[t].type] IN
    /\ pc[t].at = "generate"
    /\ \/ \E h \in Fresh :
          LET all == [handles EXCEPT ![s] = @ \cup {h}] IN
          /\ HandOut(t, h)
          /\ IF Cardinality(Alive \cup {h}) > MaxHandles
             THEN /\ PurgeInto(all)
                  /\ open' = (open \cup {h}) \ FreeHandles
             ELSE handles' = all /\ open' = open \cup {h} /\ UNCHANGED frees
       \/ FlowOutFails(t) /\ UNCHANGED pool
    /\ UNCHANGED <<transacting, initialized, drained>>

\* willReuseSlotedHandle sets the handle up again, or fails: then it is closed.
FlowOutReuse(t) ==
    LET s == SlotOf[pc[t].type] h == pc[t].handle IN
    /\ pc[t].at = "reuse"
    /\ \/ /\ HandOut(t, h)
          /\ open' = open \cup {h}
          /\ UNCHANGED <<handles, transacting>>
       \/ /\ FlowOutFails(t)
          /\ open' = open \ {h}
          /\ transacting' = transacting \ {h}
          /\ handles' = [handles EXCEPT ![s] = @ \ {h}]
    /\ UNCHANGED <<frees, initialized, drained>>

-----------------------------------------------------------------------------
\* The use of a handle: begin and end of a transaction.
BeginTransaction(t, c) ==
    /\ pc[t] = Idle
    /\ threaded[t][c].reference > 0
    /\ threaded[t][c].handle \in open \ transacting
    /\ transacting' = transacting \cup {threaded[t][c].handle}
    /\ UNCHANGED <<pool, threaded, initialized, counter, lock, drained, pc>>

EndTransaction(t, c) ==
    /\ pc[t] = Idle
    /\ threaded[t][c].reference > 0
    /\ threaded[t][c].handle \in transacting
    /\ transacting' = transacting \ {threaded[t][c].handle}
    /\ UNCHANGED <<pool, threaded, initialized, counter, lock, drained, pc>>

BugFlowBackKeepsThreaded(t, c) ==
    LET r == threaded[t][c] IN
    /\ pc[t] = Idle
    /\ r.reference = 1
    /\ threaded' = [threaded EXCEPT ![t][c].reference = 0]
    /\ pc' = [pc EXCEPT ![t] = At("back", r.type, r.hint, r.handle)]
    /\ UNCHANGED <<pool, transacting, initialized, counter, lock, drained>>

\* flowBack: the last reference gives the handle up, unless it is in a transaction.
FlowBack(t, c) ==
    LET r == threaded[t][c] IN
    /\ pc[t] = Idle
    /\ r.reference > 0
    /\ \/ /\ r.reference > 1 \/ r.handle \in open \cap transacting
          /\ threaded' = [threaded EXCEPT ![t][c].reference = @ - 1]
          /\ UNCHANGED pc
       \/ /\ r.reference = 1 /\ r.handle \notin open \cap transacting
          /\ threaded' = [threaded EXCEPT ![t][c] = Nothing]
          /\ pc' = [pc EXCEPT ![t] = At("back", r.type, r.hint, r.handle)]
    /\ UNCHANGED <<pool, transacting, initialized, counter, lock, drained>>

\* The section under m_memory puts it among the free handles of its slot.
FlowBackPush(t) ==
    LET s == SlotOf[pc[t].type] IN
    /\ pc[t].at = "back"
    /\ frees' = [frees EXCEPT ![s] = Append(@, pc[t].handle)]
    /\ Go(t, "unshare", NoHandle)
    /\ UNCHANGED <<handles, open, threaded, transacting, initialized, counter, lock, drained>>

FlowBackUnshare(t) ==
    /\ pc[t].at = "unshare"
    /\ Concurrency!Unshare(t)
    /\ Go(t, "decrease", NoHandle)
    /\ UNCHANGED <<pool, threaded, transacting, initialized, counter, drained>>

FlowBackDecrease(t) ==
    /\ pc[t].at = "decrease"
    /\ Decrease(pc[t].hint)
    /\ Return(t)
    /\ UNCHANGED <<pool, threaded, transacting, initialized, lock, drained>>

-----------------------------------------------------------------------------
\* blockade and unblockade; the lock refuses both to a thread with a share.
Blockade(t) ==
    /\ pc[t] = Idle /\ t \notin drained /\ depth = 0
    /\ Concurrency!Acquire(t)
    /\ UNCHANGED <<pool, threaded, transacting, initialized, counter, drained, pc>>

Unblockade(t) ==
    /\ pc[t] = Idle /\ t \notin drained
    /\ Concurrency!Release(t)
    /\ UNCHANGED <<pool, threaded, transacting, initialized, counter, drained, pc>>

BugDrainIgnoresShares(t) ==
    /\ pc[t] = Idle /\ t \notin drained
    /\ owner = NoThread
    /\ owner' = t /\ depth' = 1
    /\ ClearAllHandles
    /\ initialized' = FALSE
    /\ drained' = drained \cup {t}
    /\ UNCHANGED <<shares, threaded, counter, pc>>

\* drain up to its callback.  A thread that shares is refused; the owner of the
\* lock is not, and if it also shares, lock() refuses to nest and changes nothing.
Drain(t) ==
    /\ pc[t] = Idle /\ t \notin drained
    /\ Level(t) # "Read"
    /\ \/ Concurrency!Acquire(t)
       \/ DrainsWithHandle /\ shares[t] > 0 /\ UNCHANGED lock
    /\ ClearAllHandles
    /\ initialized' = FALSE
    /\ drained' = drained \cup {t}
    /\ UNCHANGED <<threaded, counter, pc>>

\* The callback has returned, with its handles: the second clear, and the unlock.
DrainEnd(t) ==
    /\ pc[t] = Idle /\ t \in drained
    /\ Concurrency!Release(t)
    /\ ClearAllHandles
    /\ initialized' = FALSE
    /\ drained' = drained \ {t}
    /\ UNCHANGED <<threaded, counter, pc>>

Purge(t) ==
    /\ pc[t] = Idle
    /\ owner \in {NoThread, t}
    /\ PurgeInto(handles)
    /\ open' = open \ FreeHandles
    /\ transacting' = transacting \ FreeHandles
    /\ UNCHANGED <<threaded, initialized, counter, lock, drained, pc>>

Next == \E t \in Threads :
    \/ \E type \in Types : FlowOutThreaded(t, type)
    \/ \E type \in Types, hint \in BOOLEAN : GetHandle(t, type, hint)
    \/ InitializeShared(t) \/ InitializeBlocked(t)
    \/ FlowOutCount(t) \/ FlowOutTake(t) \/ FlowOutGenerate(t) \/ FlowOutReuse(t)
    \/ \E c \in Categories : BeginTransaction(t, c) \/ EndTransaction(t, c) \/ FlowBack(t, c)
    \/ FlowBackPush(t) \/ FlowBackUnshare(t) \/ FlowBackDecrease(t)
    \/ Blockade(t) \/ Unblockade(t) \/ Drain(t) \/ DrainEnd(t)
    \/ Purge(t)

Spec == Init /\ [][Next]_vars

-----------------------------------------------------------------------------
\* A handle serves one thread at a time: it is in the hands of one thread, for one
\* category, or on its way in or out of the pool, or free, and free only once.
OneUser ==
    /\ \A t, u \in Threads : t # u =>
         (InHand(t) \cup InTransit(t)) \cap (InHand(u) \cup InTransit(u)) = {}
    /\ \A t \in Threads : (InHand(t) \cup InTransit(t)) \cap FreeHandles = {}
    /\ \A t \in Threads : InHand(t) \cap InTransit(t) = {}
    /\ \A t \in Threads, c, d \in Categories :
         threaded[t][c].handle = threaded[t][d].handle => c = d \/ threaded[t][c] = Nothing
    /\ \A s, z \in Slots : \A i \in DOMAIN frees[s], j \in DOMAIN frees[z] :
         frees[s][i] = frees[z][j] => s = z /\ i = j

\* HandlePool.cpp:81-83: what drain asserts.  A handle in the hands of a thread is
\* open, and in the slot it will flow back to: nobody closed it meanwhile.
HandleInUseIsOpen ==
    \A t \in Threads : \A c \in Categories :
        threaded[t][c] # Nothing =>
          /\ threaded[t][c].handle \in open
          /\ threaded[t][c].handle \in handles[SlotOf[threaded[t][c].type]]

Counting == {t \in Threads : pc[t].at \in {"take", "generate", "reuse", "back", "unshare", "decrease"}}
InUse == {u \in Threads \X Categories : threaded[u[1]][u[2]] # Nothing}
Sharing(t) == pc[t].at \in {"count", "take", "generate", "reuse", "back", "unshare"}

\* The books agree.  The open connections are the handles of m_handles; one share
\* of the concurrency lock goes with every handle in hand or in transit, so that
\* whoever drains the pool is alone with it; and the counter counts exactly the
\* handles in use and the ones coming and going.  A transaction keeps its handle with
\* its thread (HandlePool.cpp:182, 270-273): a handle the thread does not refer to is
\* kept for nothing else, and a handle nobody has is in no transaction.
BooksAgree ==
    /\ open = Alive
    /\ \A t \in Threads : shares[t] = Cardinality({u \in InUse : u[1] = t})
                                      + (IF Sharing(t) THEN 1 ELSE 0)
    /\ totalCount = Cardinality(InUse) + Cardinality(Counting)
    /\ writerCount = Cardinality({u \in InUse : threaded[u[1]][u[2]].hint})
                     + Cardinality({t \in Counting : pc[t].hint})
    /\ \A t \in Threads, c \in Categories :
          threaded[t][c] # Nothing /\ threaded[t][c].reference = 0
            => threaded[t][c].handle \in transacting
    /\ transacting \subseteq UNION {InHand(t) : t \in Threads}
=============================================================================
