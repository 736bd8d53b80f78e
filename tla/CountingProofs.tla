--------------------------- MODULE CountingProofs ----------------------------
(***************************************************************************)
(* Proofs about the two components that count handles.                      *)
(*                                                                         *)
(* HandleCounter, for every number of requesters and every pair of limits:  *)
(* the limits are respected in both builds, and with notify_all nobody is   *)
(* left asleep with nobody to wake them.  The counters are tied to the sets *)
(* of holders, and the lengths of the pending lists to the sets of waiters; *)
(* a list may well hold other threads than the waiters when wake-ups are    *)
(* spurious, but never more or fewer.                                        *)
(*                                                                         *)
(* OperationQueue, for every finite set of threads that open handles and    *)
(* every set of files: migration is queued only while it is required and    *)
(* as long as a handle needs it, and a corruption is notified once.  The    *)
(* register of a path counts the handles AutoMigrateConfig was invoked for, *)
(* and a notification that is queued or running is for a corruption that    *)
(* nobody was notified of.                                                  *)
(***************************************************************************)
EXTENDS HandleCounter, OperationQueue, FiniteSetTheorems, TLAPS

\* Only a thread inside a wait is asleep.
SleepersWait == \A r \in asleep : pc[r] \in {"waitNormal", "waitWriter"}

Counted == TypeOK /\ SleepersWait /\ WithinLimits /\ ListsCountWaiters

IInv == Counted /\ (~NotifyOne => WriterSleepsOnlyWhenFull /\ NotStranded)

\* The rest of tryIncreaseHandleCount, from its entry or from a wake-up, when the
\* lists are normals and writers without the caller's own entry.
Proceeds(r, hint, normals, writers) ==
    \/ Full /\ WaitNormal(r, normals, writers)
    \/ WritersFull(hint) /\ WaitWriter(r, normals, writers)
    \/ ~Full /\ ~WritersFull(hint) /\ Increase(r, hint, normals, writers)

-----------------------------------------------------------------------------
\* Every set the counters are tied to is finite.
LEMMA Finite ==
    /\ \A p : IsFiniteSet(Waiting(p)) /\ Cardinality(Waiting(p)) \in Nat
    /\ IsFiniteSet(Holders) /\ Cardinality(Holders) \in Nat
    /\ IsFiniteSet(WriteHolders) /\ Cardinality(WriteHolders) \in Nat
<1>1. \A p : Waiting(p) \subseteq Requesters
  BY DEF Waiting
<1>2. Holders \subseteq Requesters /\ WriteHolders \subseteq Requesters
  BY DEF Holders, WriteHolders
<1>3. QED BY <1>1, <1>2, CounterAssumption, FS_Subset, FS_CardinalityType

\* A positive counter has a holder behind it.
LEMMA SomeHolder ==
    ASSUME Counted
    PROVE  /\ totalCount > 0 => Holders # {}
           /\ writerCount > 0 => WriteHolders # {}
BY Finite, FS_EmptySet DEF Counted, WithinLimits

\* A nonempty list has a waiter behind it, and a waiter a nonempty list.
LEMMA SomeWaiter ==
    ASSUME Counted
    PROVE  /\ pendingNormals # <<>> <=> Waiting("waitNormal") # {}
           /\ pendingWriters # <<>> <=> Waiting("waitWriter") # {}
<1>1. /\ pendingNormals = <<>> <=> Len(pendingNormals) = 0
      /\ pendingWriters = <<>> <=> Len(pendingWriters) = 0
  BY DEF Counted, TypeOK
<1>2. QED BY <1>1, Finite, FS_EmptySet DEF Counted, ListsCountWaiters

\* The lists without one entry count the waiters other than the caller.
LEMMA ListsWithout ==
    ASSUME Counted, NEW r \in Requesters
    PROVE  /\ pc[r] = "outside" =>
                /\ Len(pendingNormals) = Cardinality(Waiting("waitNormal") \ {r})
                /\ Len(pendingWriters) = Cardinality(Waiting("waitWriter") \ {r})
           /\ pc[r] = "waitNormal" =>
                /\ Tail(pendingNormals) \in Seq(Requesters)
                /\ Len(Tail(pendingNormals)) = Cardinality(Waiting("waitNormal") \ {r})
                /\ Len(pendingWriters) = Cardinality(Waiting("waitWriter") \ {r})
           /\ pc[r] = "waitWriter" =>
                /\ Tail(pendingWriters) \in Seq(Requesters)
                /\ Len(pendingNormals) = Cardinality(Waiting("waitNormal") \ {r})
                /\ Len(Tail(pendingWriters)) = Cardinality(Waiting("waitWriter") \ {r})
<1>1. ASSUME NEW p, pc[r] # p PROVE Waiting(p) \ {r} = Waiting(p)
  BY <1>1 DEF Waiting
<1>2. ASSUME NEW p, pc[r] = p
      PROVE  Cardinality(Waiting(p) \ {r}) = Cardinality(Waiting(p)) - 1
  <2>1. r \in Waiting(p) BY <1>2 DEF Waiting
  <2>2. QED BY <2>1, Finite, FS_RemoveElement, Zenon
<1>3. /\ pc[r] = "waitNormal" => pendingNormals # <<>>
      /\ pc[r] = "waitWriter" => pendingWriters # <<>>
  BY SomeWaiter DEF Waiting
<1>4. ASSUME NEW q \in Seq(Requesters), q # <<>>
      PROVE  Tail(q) \in Seq(Requesters) /\ Len(Tail(q)) = Len(q) - 1
  BY <1>4
<1>5. QED
  BY <1>1, <1>2, <1>3, <1>4, Zenon DEF Counted, TypeOK, ListsCountWaiters

\* Whichever way tryIncreaseHandleCount goes on, the invariant holds again.
LEMMA ProceedsIInv ==
    ASSUME IInv, NEW r \in Requesters, pc[r] # "holding", r \notin asleep, NEW hint \in BOOLEAN,
           NEW normals \in Seq(Requesters), NEW writers \in Seq(Requesters),
           Len(normals) = Cardinality(Waiting("waitNormal") \ {r}),
           Len(writers) = Cardinality(Waiting("waitWriter") \ {r}),
           writeHint' = [writeHint EXCEPT ![r] = hint],
           Proceeds(r, hint, normals, writers)
    PROVE  IInv'
<1> USE CounterAssumption
<1>0. Counted /\ TypeOK BY DEF IInv, Counted
<1>1. ASSUME NEW q \in Seq(Requesters)
      PROVE  Append(q, r) \in Seq(Requesters) /\ Len(Append(q, r)) = Len(q) + 1
  OBVIOUS
<1>2. ASSUME NEW p PROVE /\ IsFiniteSet(Waiting(p) \ {r})
                         /\ Cardinality((Waiting(p) \ {r}) \cup {r}) = Cardinality(Waiting(p) \ {r}) + 1
  BY Finite, FS_RemoveElement, FS_AddElement, Zenon
<1>3. CASE (Full /\ WaitNormal(r, normals, writers)) \/ (WritersFull(hint) /\ WaitWriter(r, normals, writers))
  <2>1. Holders' = Holders /\ WriteHolders' = WriteHolders
    BY <1>0, <1>3 DEF WaitNormal, WaitWriter, Holders, WriteHolders, TypeOK
  <2>2. TypeOK' /\ SleepersWait'
    BY <1>0, <1>1, <1>3, Zenon DEF WaitNormal, WaitWriter, TypeOK, Counted, SleepersWait
  <2>3. WithinLimits'
    BY <1>0, <1>3, <2>1 DEF WaitNormal, WaitWriter, Counted, WithinLimits
  <2>4. ListsCountWaiters'
    <3>1. CASE WaitNormal(r, normals, writers)
      <4>1. /\ Waiting("waitNormal")' = (Waiting("waitNormal") \ {r}) \cup {r}
            /\ Waiting("waitWriter")' = Waiting("waitWriter") \ {r}
        BY <1>0, <3>1 DEF WaitNormal, Waiting, TypeOK
      <4>2. QED BY <1>1, <1>2, <3>1, <4>1, Zenon DEF WaitNormal, ListsCountWaiters
    <3>2. CASE WaitWriter(r, normals, writers)
      <4>1. /\ Waiting("waitNormal")' = Waiting("waitNormal") \ {r}
            /\ Waiting("waitWriter")' = (Waiting("waitWriter") \ {r}) \cup {r}
        BY <1>0, <3>2 DEF WaitWriter, Waiting, TypeOK
      <4>2. QED BY <1>1, <1>2, <3>2, <4>1, Zenon DEF WaitWriter, ListsCountWaiters
    <3>3. QED BY <1>3, <3>1, <3>2
  <2>5. Holders # {}
    <3>1. totalCount > 0 \/ writerCount > 0
      BY <1>0, <1>3 DEF Full, WritersFull, TypeOK
    <3>2. WriteHolders \subseteq Holders BY DEF WriteHolders
    <3>3. QED BY <1>0, <3>1, <3>2, SomeHolder
  <2>6. NotStranded' BY <2>1, <2>5 DEF NotStranded
  <2>7. ~NotifyOne => WriterSleepsOnlyWhenFull'
    BY <1>0, <1>3 DEF IInv, WriterSleepsOnlyWhenFull, WaitNormal, WaitWriter, WritersFull, TypeOK
  <2>8. QED BY <2>2, <2>3, <2>4, <2>6, <2>7 DEF IInv, Counted
<1>4. CASE ~Full /\ ~WritersFull(hint) /\ Increase(r, hint, normals, writers)
  <2>0. r \notin Holders /\ r \notin WriteHolders BY DEF Holders, WriteHolders
  <2>1. /\ Holders' = Holders \cup {r}
        /\ WriteHolders' = IF hint THEN WriteHolders \cup {r} ELSE WriteHolders
    BY <1>0, <1>4 DEF Increase, Holders, WriteHolders, TypeOK
  <2>2. TypeOK' /\ SleepersWait'
    BY <1>0, <1>4 DEF Increase, TypeOK, Counted, SleepersWait
  <2>3. WithinLimits'
    <3>1. /\ Cardinality(Holders') = Cardinality(Holders) + 1
          /\ Cardinality(WriteHolders') = IF hint THEN Cardinality(WriteHolders) + 1
                                          ELSE Cardinality(WriteHolders)
      BY <2>0, <2>1, Finite, FS_AddElement, Zenon
    <3>2. totalCount + 1 <= MaxHandles /\ (hint => writerCount + 1 <= MaxWriters)
      BY <1>0, <1>4 DEF Full, WritersFull, TypeOK
    <3>3. QED BY <1>0, <1>4, <3>1, <3>2 DEF Increase, Counted, WithinLimits
  <2>4. ListsCountWaiters'
    <3>1. /\ Waiting("waitNormal")' = Waiting("waitNormal") \ {r}
          /\ Waiting("waitWriter")' = Waiting("waitWriter") \ {r}
      BY <1>0, <1>4 DEF Increase, Waiting, TypeOK
    <3>2. QED BY <1>4, <3>1, Zenon DEF Increase, ListsCountWaiters
  <2>5. NotStranded' BY <2>1 DEF NotStranded
  <2>6. ~NotifyOne => WriterSleepsOnlyWhenFull'
    BY <1>0, <1>4 DEF IInv, WriterSleepsOnlyWhenFull, Increase, TypeOK
  <2>7. QED BY <2>2, <2>3, <2>4, <2>5, <2>6 DEF IInv, Counted
<1>5. QED BY <1>3, <1>4 DEF Proceeds

\* tryIncreaseHandleCount preserves the invariant up to its first wait or return.
LEMMA TryIncreaseIInv ==
    ASSUME IInv, NEW r \in Requesters, NEW hint \in BOOLEAN, TryIncreaseHandleCount(r, hint)
    PROVE  IInv'
<1>1. Counted /\ TypeOK /\ SleepersWait BY DEF IInv, Counted
<1>2. pc[r] = "outside" /\ r \notin asleep
  BY <1>1 DEF TryIncreaseHandleCount, SleepersWait
<1>3. Proceeds(r, hint, pendingNormals, pendingWriters)
  BY DEF TryIncreaseHandleCount, Proceeds
<1>4. QED
  BY <1>1, <1>2, <1>3, ListsWithout, ProceedsIInv, Zenon DEF TryIncreaseHandleCount, TypeOK

\* A wake-up in either wait preserves it.
LEMMA AwakeIInv ==
    ASSUME IInv, NEW r \in Requesters, NormalAwake(r) \/ WriterAwake(r)
    PROVE  IInv'
<1>1. Counted /\ TypeOK BY DEF IInv, Counted
<1>2. writeHint[r] \in BOOLEAN /\ writeHint' = [writeHint EXCEPT ![r] = writeHint[r]]
  BY <1>1 DEF TypeOK, NormalAwake, WriterAwake
<1>3. CASE NormalAwake(r)
  <2>1. pc[r] = "waitNormal" /\ r \notin asleep BY <1>3 DEF NormalAwake
  <2>2. Proceeds(r, writeHint[r], Tail(pendingNormals), pendingWriters)
    BY <1>3 DEF NormalAwake, Proceeds
  <2>3. /\ Tail(pendingNormals) \in Seq(Requesters) /\ pendingWriters \in Seq(Requesters)
        /\ Len(Tail(pendingNormals)) = Cardinality(Waiting("waitNormal") \ {r})
        /\ Len(pendingWriters) = Cardinality(Waiting("waitWriter") \ {r})
    BY <1>1, <2>1, ListsWithout, Zenon DEF TypeOK
  <2>4. QED BY <1>2, <2>1, <2>2, <2>3, ProceedsIInv, Zenon
<1>4. CASE WriterAwake(r)
  <2>1. pc[r] = "waitWriter" /\ r \notin asleep BY <1>4 DEF WriterAwake
  <2>2. Proceeds(r, writeHint[r], pendingNormals, Tail(pendingWriters))
    BY <1>4 DEF WriterAwake, Proceeds
  <2>3. /\ pendingNormals \in Seq(Requesters) /\ Tail(pendingWriters) \in Seq(Requesters)
        /\ Len(pendingNormals) = Cardinality(Waiting("waitNormal") \ {r})
        /\ Len(Tail(pendingWriters)) = Cardinality(Waiting("waitWriter") \ {r})
    BY <1>1, <2>1, ListsWithout, Zenon DEF TypeOK
  <2>4. QED BY <1>2, <2>1, <2>2, <2>3, ProceedsIInv, Zenon
<1>5. QED BY <1>3, <1>4

\* decreaseHandleCount preserves it.  With notify_all either a waiter is awake
\* afterwards, or only writers sleep and a writer's handle is still in use.
LEMMA DecreaseIInv ==
    ASSUME IInv, NEW r \in Requesters, DecreaseHandleCount(r)
    PROVE  IInv'
<1> USE CounterAssumption
<1>0. Counted /\ TypeOK /\ WithinLimits BY DEF IInv, Counted
<1>1. /\ pc[r] = "holding"
      /\ pc' = [pc EXCEPT ![r] = "outside"]
      /\ writerCount' = IF writeHint[r] THEN writerCount - 1 ELSE writerCount
      /\ totalCount' = totalCount - 1
      /\ asleep' = IF writeHint[r] /\ pendingWriters # <<>> THEN NotifyWriters
                   ELSE IF pendingNormals # <<>> THEN NotifyNormals ELSE asleep
      /\ UNCHANGED <<pendingNormals, pendingWriters, writeHint>>
  BY DEF DecreaseHandleCount
<1>2. r \in Holders /\ (r \in WriteHolders <=> writeHint[r])
  BY <1>1 DEF Holders, WriteHolders
<1>3. Holders' = Holders \ {r} /\ WriteHolders' = WriteHolders \ {r}
  BY <1>0, <1>1 DEF Holders, WriteHolders, TypeOK
<1>4. /\ Cardinality(Holders') = Cardinality(Holders) - 1
      /\ Cardinality(WriteHolders') = IF writeHint[r] THEN Cardinality(WriteHolders) - 1
                                      ELSE Cardinality(WriteHolders)
  <2>1. ~writeHint[r] => WriteHolders' = WriteHolders BY <1>2, <1>3
  <2>2. QED BY <1>2, <1>3, <2>1, Finite, FS_RemoveElement, Zenon
<1>5. /\ totalCount > 0 /\ (writeHint[r] => writerCount > 0)
  <2>1. Cardinality(Holders) # 0 /\ (writeHint[r] => Cardinality(WriteHolders) # 0)
    BY <1>2, Finite, FS_EmptySet
  <2>2. QED BY <1>0, <2>1 DEF WithinLimits, TypeOK
<1>6. asleep' \subseteq asleep
  BY <1>1 DEF NotifyWriters, NotifyNormals
<1>7. TypeOK' /\ SleepersWait'
  <2>1. SleepersWait BY DEF IInv, Counted
  <2>2. SleepersWait' BY <1>0, <1>1, <1>6, <2>1 DEF SleepersWait, TypeOK
  <2>3. totalCount - 1 \in Nat /\ (writeHint[r] => writerCount - 1 \in Nat)
    BY <1>0, <1>5 DEF TypeOK
  <2>4. QED BY <1>0, <1>1, <1>6, <2>2, <2>3 DEF TypeOK
<1>8. WithinLimits'
  BY <1>0, <1>1, <1>4 DEF WithinLimits, TypeOK
<1>9. \A p \in {"waitNormal", "waitWriter"} : Waiting(p)' = Waiting(p)
  BY <1>0, <1>1 DEF Waiting, TypeOK
<1>10. ListsCountWaiters'
  BY <1>1, <1>9 DEF IInv, Counted, ListsCountWaiters
<1>11. ASSUME ~NotifyOne PROVE WriterSleepsOnlyWhenFull' /\ NotStranded'
  <2>1. CASE writeHint[r] /\ pendingWriters # <<>>
    <3>1. asleep' = {u \in asleep : pc[u] # "waitWriter"}
      BY <1>1, <1>11, <2>1 DEF NotifyWriters
    <3>2. PICK w \in Waiting("waitWriter") : TRUE BY <1>0, <2>1, SomeWaiter
    <3>3. w \in Waiting("waitWriter")' /\ w \notin asleep'
      BY <1>9, <3>1, <3>2 DEF Waiting
    <3>4. WriterSleepsOnlyWhenFull'
      BY <1>0, <1>1, <3>1 DEF WriterSleepsOnlyWhenFull, TypeOK
    <3>5. QED BY <3>3, <3>4 DEF NotStranded
  <2>2. CASE ~(writeHint[r] /\ pendingWriters # <<>>)
    <3>1. ASSUME NEW w \in asleep', pc'[w] = "waitWriter"
          PROVE  ~writeHint[r] /\ writerCount >= MaxWriters
      <4>1. w \in asleep /\ pc[w] = "waitWriter"
        BY <1>0, <1>1, <1>6, <3>1 DEF TypeOK
      <4>2. pendingWriters # <<>>
        BY <1>0, <4>1, SomeWaiter DEF Waiting, TypeOK
      <4>3. QED BY <1>11, <2>2, <4>1, <4>2 DEF IInv, WriterSleepsOnlyWhenFull
    <3>2. WriterSleepsOnlyWhenFull'
      BY <1>1, <3>1 DEF WriterSleepsOnlyWhenFull
    <3>3. CASE pendingNormals # <<>>
      <4>1. asleep' = {u \in asleep : pc[u] # "waitNormal"}
        BY <1>1, <1>11, <2>2, <3>3 DEF NotifyNormals
      <4>2. PICK w \in Waiting("waitNormal") : TRUE BY <1>0, <3>3, SomeWaiter
      <4>3. w \in Waiting("waitNormal")' /\ w \notin asleep'
        BY <1>9, <4>1, <4>2 DEF Waiting
      <4>4. QED BY <3>2, <4>3 DEF NotStranded
    <3>4. CASE pendingNormals = <<>>
      <4>1. ASSUME NEW w \in asleep' PROVE WriteHolders # {} /\ ~writeHint[r]
        <5>1. w \in asleep /\ w \in Requesters /\ pc'[w] = pc[w]
          BY <1>0, <1>1, <1>6, <4>1 DEF TypeOK, IInv, Counted, SleepersWait
        <5>2. pc[w] # "waitNormal"
          BY <1>0, <3>4, <5>1, SomeWaiter DEF Waiting
        <5>3. pc[w] = "waitWriter"
          BY <5>1, <5>2 DEF IInv, Counted, SleepersWait
        <5>4. writerCount >= MaxWriters /\ ~writeHint[r]
          BY <3>1, <5>1, <5>3
        <5>5. QED BY <1>0, <5>4, SomeHolder DEF TypeOK
      <4>2. asleep' # {} => Holders' # {}
        BY <1>2, <1>3, <4>1 DEF WriteHolders
      <4>3. QED BY <3>2, <4>2 DEF NotStranded
    <3>5. QED BY <3>3, <3>4
  <2>3. QED BY <2>1, <2>2
<1>12. QED BY <1>7, <1>8, <1>10, <1>11 DEF IInv, Counted

\* A spurious wake-up preserves it.
LEMMA SpuriousIInv ==
    ASSUME IInv, NEW r \in Requesters, SpuriousWakeup(r) PROVE IInv'
<1>1. /\ r \in asleep /\ asleep' = asleep \ {r}
      /\ UNCHANGED <<totalCount, writerCount, pendingNormals, pendingWriters, pc, writeHint>>
  BY DEF SpuriousWakeup
<1>2. Counted /\ TypeOK BY DEF IInv, Counted
<1>3. \A p : Waiting(p)' = Waiting(p) BY <1>1 DEF Waiting
<1>4. Holders' = Holders /\ WriteHolders' = WriteHolders BY <1>1 DEF Holders, WriteHolders
<1>5. Counted'
  BY <1>1, <1>2, <1>3, <1>4 DEF Counted, TypeOK, SleepersWait, WithinLimits, ListsCountWaiters
<1>6. WriterSleepsOnlyWhenFull => WriterSleepsOnlyWhenFull'
  BY <1>1 DEF WriterSleepsOnlyWhenFull
<1>7. NotStranded'
  <2>1. r \in Waiting("waitNormal") \cup Waiting("waitWriter")
    BY <1>1, <1>2 DEF Waiting, Counted, SleepersWait, TypeOK
  <2>2. QED BY <1>1, <1>3, <2>1 DEF NotStranded
<1>8. QED BY <1>5, <1>6, <1>7 DEF IInv

\* The invariant is inductive.
LEMMA NextIInv == IInv /\ [Next]_vars => IInv'
<1> SUFFICES ASSUME IInv, [Next]_vars PROVE IInv'
  OBVIOUS
<1>1. CASE Next
  BY <1>1, TryIncreaseIInv, AwakeIInv, DecreaseIInv, SpuriousIInv DEF Next
<1>2. CASE UNCHANGED vars
  BY <1>2 DEF vars, IInv, Counted, TypeOK, SleepersWait, WithinLimits, ListsCountWaiters,
              WriterSleepsOnlyWhenFull, NotStranded, Waiting, Holders, WriteHolders
<1>3. QED BY <1>1, <1>2

\* The constructor establishes it.
LEMMA InitIInv == Init => IInv
<1> SUFFICES ASSUME Init PROVE IInv
  OBVIOUS
<1>1. Holders = {} /\ WriteHolders = {} /\ Waiting("waitNormal") = {} /\ Waiting("waitWriter") = {}
  BY DEF Init, Holders, WriteHolders, Waiting
<1>2. Len(<<>>) = 0 /\ <<>> \in Seq(Requesters)
  OBVIOUS
<1>3. TypeOK /\ SleepersWait /\ NotStranded /\ WriterSleepsOnlyWhenFull
  BY <1>2, CounterAssumption DEF Init, TypeOK, SleepersWait, NotStranded, WriterSleepsOnlyWhenFull
<1>4. Cardinality({}) = 0
  BY FS_EmptySet
<1>6. WithinLimits
  BY <1>1, <1>4, CounterAssumption DEF Init, WithinLimits
<1>7. ListsCountWaiters
  BY <1>1, <1>2, <1>4, Zenon DEF Init, ListsCountWaiters
<1>8. QED BY <1>3, <1>6, <1>7 DEF IInv, Counted

\* Every reachable state of the counter satisfies the inductive invariant.
THEOREM Invariance == Spec => []IInv
BY InitIInv, NextIInv, PTL DEF Spec

\* Neither limit is ever exceeded and the counters are exact, in both builds and
\* with spurious wake-ups.
THEOREM CounterWithinLimits == Spec => []WithinLimits
<1>1. IInv => WithinLimits BY DEF IInv, Counted
<1>2. QED BY <1>1, Invariance, PTL

\* The sizes of the pending lists are the numbers of waiting threads.
THEOREM CounterListsCountWaiters == Spec => []ListsCountWaiters
<1>1. IInv => ListsCountWaiters BY DEF IInv, Counted
<1>2. QED BY <1>1, Invariance, PTL

\* With notify_all nobody sleeps when nobody is left to wake them.
THEOREM CounterNotStranded == ASSUME ~NotifyOne PROVE Spec => []NotStranded
<1>1. IInv => NotStranded BY DEF IInv
<1>2. QED BY <1>1, Invariance, PTL

-----------------------------------------------------------------------------
(* The operations. *)

\* The openers whose handles the config was invoked for.
Configured == {t \in Openers : threads[t] \in {"async", "open"}}

\* Handles are counted as they are configured and closed, those of no opener
\* that a behaviour does not have.
HandlesCounted ==
    /\ setup \in OperationSetups
    /\ registers = Cardinality(Configured)
    /\ \A t \in Openers \ setup.openers : threads[t] = "closed"

\* A notification that is queued or running is for a corruption confirmed and
\* not yet notified, and there are no two for the same file.
Outstanding(id) == id \in corrupteds /\ notified[id] = 0

NotificationsOutstanding ==
    /\ corrupteds \subseteq broken
    /\ "Notify" \in DOMAIN queue => Outstanding(queue["Notify"])
    /\ running.op = "Notify" =>
          /\ Outstanding(running.info)
          /\ "Notify" \in DOMAIN queue => queue["Notify"] # running.info
    /\ \A f \in Files : notified[f] = 0 \/ (notified[f] = 1 /\ f \in corrupteds)

OperationIInv ==
    /\ OperationTypeOK /\ HandlesCounted
    /\ NotRequiredNotQueued /\ KeepsStepping
    /\ ~Reuse => NotificationsOutstanding

\* A step queues an operation with its information, or takes some out.
Queued(op, info) ==
    /\ DOMAIN queue' = DOMAIN queue \cup {op} /\ queue'[op] = info
    /\ \A o \in DOMAIN queue : o # op => queue'[o] = queue[o]

Unqueued(ops) ==
    /\ DOMAIN queue' = DOMAIN queue \ ops
    /\ \A o \in DOMAIN queue \ ops : queue'[o] = queue[o]

\* The entries change as the timed queue promises.
LEMMA PutQueues ==
    ASSUME NEW op, NEW info, queue' = Put(queue, op, info)
    PROVE  Queued(op, info)
  BY DEF Put, Queued

LEMMA RemovedUnqueues ==
    ASSUME NEW op, queue' = Removed(queue, op)
    PROVE  Unqueued({op})
  BY DEF Removed, Unqueued

\* asyncMigrate queues the migration exactly when it is required.
LEMMA AsyncMigrateQueues ==
    ASSUME NEW n, AsyncMigrate(n)
    PROVE  \/ registered /\ Queued("Migrate", n) /\ gaveUp' = FALSE
           \/ ~registered /\ UNCHANGED <<queue, gaveUp>>
<1>1. CASE registered
  <2>1. queue' = Put(queue, "Migrate", n) /\ gaveUp' = FALSE BY <1>1 DEF AsyncMigrate
  <2>2. QED BY <1>1, <2>1, PutQueues, Zenon
<1>2. CASE ~registered BY <1>2 DEF AsyncMigrate
<1>3. QED BY <1>1, <1>2, Zenon

\* stopMigrate takes the migration out, closing also the check of integrity.
LEMMA StopUnqueues ==
    ASSUME NEW t, StopMigrate(t) \/ RegisterAsNotRequired
    PROVE  Unqueued({"Migrate"})
<1>1. queue' = Removed(queue, "Migrate")
  BY Zenon DEF StopMigrate, RegisterAsNotRequired
<1>2. QED BY <1>1, RemovedUnqueues, Zenon

LEMMA StopAllUnqueues == StopAllDatabaseEvent => Unqueued({"Migrate", "Integrity"})
  BY DEF StopAllDatabaseEvent, Removed, Unqueued

\* Errors queue the check of integrity, and the check queues the notification
\* of a corruption that is new.
LEMMA HandleErrorQueues == HandleError => Queued("Integrity", 0)
<1>1. HandleError => queue' = Put(queue, "Integrity", 0)
  BY Zenon DEF HandleError, AsyncCheckIntegrity
<1>2. QED BY <1>1, PutQueues, Zenon

LEMMA CheckIntegrityQueues ==
    ASSUME CheckIntegrity
    PROVE  /\ file \in broken /\ corrupteds' = corrupteds \cup {Identifier(file)}
           /\ \/ UNCHANGED queue
              \/ Identifier(file) \notin corrupteds /\ Queued("Notify", Identifier(file))
<1> DEFINE id == Identifier(file)
<1>1. file \in broken /\ corrupteds' = corrupteds \cup {id}
  BY DEF CheckIntegrity, Confirm
<1>2. UNCHANGED queue \/ (id \notin corrupteds /\ queue' = Put(queue, "Notify", id))
  BY DEF CheckIntegrity, Confirm, AsyncNotifyCorruption
<1>3. queue' = Put(queue, "Notify", id) => Queued("Notify", id)
  BY PutQueues, Zenon
<1>4. QED BY <1>1, <1>2, <1>3

\* An operation is taken when none runs.
LEMMA TakeUnqueues ==
    ASSUME NEW op, Take(op)
    PROVE  /\ op \in DOMAIN queue /\ running.op = "None"
           /\ running'.op = op /\ running'.info = queue[op] /\ Unqueued({op})
<1>1. queue' = Removed(queue, op) BY DEF Take
<1>2. Unqueued({op}) BY <1>1, RemovedUnqueues, ZenonT(30)
<1>3. QED BY <1>2 DEF Take, None

\* The types of the entries, of what concerns handles, and of what concerns files.
EntriesTyped ==
    /\ DOMAIN queue \subseteq {"Migrate", "Integrity", "Notify"}
    /\ running.op \in {"None", "Migrate", "Integrity", "Notify"}

HandlesTyped ==
    /\ config \in BOOLEAN /\ registered \in BOOLEAN
    /\ finished \in BOOLEAN /\ gaveUp \in BOOLEAN
    /\ registers \in 0..Cardinality(Openers)
    /\ threads \in [Openers \cup {"main", "closer"} ->
                     {"closed", "async", "open", "stop", "register", "unregister",
                      "stopped", "drain"}]

FilesTyped ==
    /\ callback \in BOOLEAN /\ threw \in BOOLEAN
    /\ file \in Files \cup {NoFile} /\ past \subseteq Files /\ broken \subseteq Files
    /\ corrupteds \subseteq {Identifier(f) : f \in Files}
    /\ notified \in [Files -> Nat]

\* The parts make up the types of the state.
LEMMA OperationTypeParts == OperationTypeOK <=> EntriesTyped /\ HandlesTyped /\ FilesTyped
<1>1. {config, registered, finished, gaveUp, callback, threw} \subseteq BOOLEAN <=>
      /\ config \in BOOLEAN /\ registered \in BOOLEAN /\ finished \in BOOLEAN
      /\ gaveUp \in BOOLEAN /\ callback \in BOOLEAN /\ threw \in BOOLEAN
  BY Zenon
<1>2. QED BY <1>1, Zenon DEF OperationTypeOK, EntriesTyped, HandlesTyped, FilesTyped

\* The initial states satisfy the invariant.
LEMMA OperationInitInvariant == OperationInit => OperationIInv
<1> SUFFICES ASSUME OperationInit PROVE OperationIInv
  OBVIOUS
<1> USE DEF OperationInit
<1>1. IsFiniteSet(Openers) /\ "none" \notin Files /\ setup.openers \subseteq Openers
      /\ setup.files \subseteq Files
  BY OperationConstants
<1>2. Configured = {}
  BY DEF Configured
<1>3. Cardinality(Configured) = 0 /\ Cardinality(Openers) \in Nat
  BY <1>1, <1>2, FS_EmptySet, FS_CardinalityType
<1>4. DOMAIN queue = {} /\ running.op = "None"
  BY DEF None
<1>5. Heeded \in BOOLEAN
  BY OperationConstants DEF Heeded
<1>6. OperationTypeOK
  <2>1. EntriesTyped
    BY <1>4 DEF EntriesTyped
  <2>2. HandlesTyped
    <3>1. registers \in 0..Cardinality(Openers) BY <1>3, SMTT(30)
    <3>2. QED BY <3>1, Zenon DEF HandlesTyped
  <2>3. FilesTyped
    BY <1>1, <1>5, Zenon DEF FilesTyped
  <2>4. QED BY <2>1, <2>2, <2>3, OperationTypeParts
<1>7. HandlesCounted
  BY <1>1, <1>3 DEF HandlesCounted
<1>8. NotRequiredNotQueued /\ KeepsStepping
  BY DEF NotRequiredNotQueued, KeepsStepping
<1>9. NotificationsOutstanding
  BY <1>4 DEF NotificationsOutstanding
<1>10. QED BY <1>6, <1>7, <1>8, <1>9 DEF OperationIInv

-----------------------------------------------------------------------------
(* Types, and the count of the handles. *)

\* The count is that of a set of openers.
LEMMA CountInRange ==
    /\ IsFiniteSet(Configured) /\ Cardinality(Configured) \in 0..Cardinality(Openers)
    /\ Cardinality(Openers) \in Nat
<1>1. IsFiniteSet(Openers) /\ Configured \subseteq Openers
  BY OperationConstants DEF Configured
<1>2. QED BY <1>1, FS_Subset, FS_CardinalityType

\* A thread moves on to another state.
Moves(t, s) ==
    /\ t \in Openers \cup {"main", "closer"}
    /\ s \in {"closed", "async", "open", "stop", "register", "unregister", "stopped", "drain"}
    /\ threads' = [threads EXCEPT ![t] = s]

\* A move of an opener that neither configures nor closes a handle, and one of
\* another thread, leaves the handles configured as they are.
LEMMA MoveKeepsHandles ==
    ASSUME HandlesTyped, HandlesCounted, NEW t, NEW s, Moves(t, s),
           \/ t \in setup.openers /\ (threads[t] \in {"async", "open"} <=> s \in {"async", "open"})
           \/ t \in {"main", "closer"},
           registers' = registers, UNCHANGED setup
    PROVE  HandlesCounted' /\ threads' \in [Openers \cup {"main", "closer"} ->
                     {"closed", "async", "open", "stop", "register", "unregister",
                      "stopped", "drain"}]
<1>1. setup.openers \subseteq Openers /\ {"main", "closer"} \cap Openers = {}
  BY OperationConstants DEF HandlesCounted
<1>2. threads' \in [Openers \cup {"main", "closer"} ->
                     {"closed", "async", "open", "stop", "register", "unregister",
                      "stopped", "drain"}]
  BY DEF HandlesTyped, Moves
<1>3. \A u \in Openers : threads'[u] = IF u = t THEN s ELSE threads[u]
  BY DEF HandlesTyped, Moves
<1>4. Configured' = Configured
  BY <1>1, <1>3 DEF Configured
<1>5. \A u \in Openers \ setup.openers : threads'[u] = "closed"
  BY <1>1, <1>3 DEF HandlesCounted
<1>6. QED BY <1>2, <1>4, <1>5 DEF HandlesCounted

\* Configuring a handle counts it.
LEMMA InvokeCounts ==
    ASSUME HandlesTyped, HandlesCounted, NEW t \in setup.openers, Invoke(t)
    PROVE  HandlesTyped' /\ HandlesCounted'
<1>1. setup.openers \subseteq Openers
  BY OperationConstants DEF HandlesCounted
<1>2. PICK s \in {"async", "open"} : threads' = [threads EXCEPT ![t] = s]
  BY Zenon DEF Invoke
<1>3. /\ threads[t] = "closed" /\ registers' = registers + 1
      /\ UNCHANGED <<setup, config, registered, finished, gaveUp>>
  BY DEF Invoke
<1>4. \A u \in Openers : threads'[u] = IF u = t THEN s ELSE threads[u]
  BY <1>1, <1>2 DEF HandlesTyped
<1>5. t \notin Configured /\ Configured' = Configured \cup {t}
  BY <1>1, <1>3, <1>4 DEF Configured
<1>6. Cardinality(Configured') = Cardinality(Configured) + 1
  BY <1>5, CountInRange, FS_AddElement
<1>7. Cardinality(Configured') \in 0..Cardinality(Openers)
  <2>1. IsFiniteSet(Openers) /\ Configured' \subseteq Openers
    BY OperationConstants, SMTT(30) DEF Configured
  <2>2. QED BY <2>1, FS_Subset, FS_CardinalityType
<1>8. registers' = Cardinality(Configured')
  BY <1>3, <1>6 DEF HandlesCounted
<1>9. HandlesCounted'
  BY <1>3, <1>4, <1>8 DEF HandlesCounted
<1>10. HandlesTyped'
  BY <1>1, <1>2, <1>3, <1>7, <1>8 DEF HandlesTyped
<1>11. QED BY <1>9, <1>10

\* Closing a handle takes it out of the count.
LEMMA UninvokeCounts ==
    ASSUME HandlesTyped, HandlesCounted, NEW t \in setup.openers, Uninvoke(t)
    PROVE  HandlesTyped' /\ HandlesCounted'
<1>1. setup.openers \subseteq Openers
  BY OperationConstants DEF HandlesCounted
<1>2. PICK s \in {"stop", "closed"} : threads' = [threads EXCEPT ![t] = s]
  BY Zenon DEF Uninvoke
<1>3. /\ threads[t] = "open" /\ registers' = registers - 1
      /\ UNCHANGED <<setup, config, registered, finished, gaveUp>>
  BY DEF Uninvoke
<1>4. \A u \in Openers : threads'[u] = IF u = t THEN s ELSE threads[u]
  BY <1>1, <1>2 DEF HandlesTyped
<1>5. t \in Configured /\ Configured' = Configured \ {t}
  BY <1>1, <1>3, <1>4 DEF Configured
<1>6. Cardinality(Configured') = Cardinality(Configured) - 1
  BY <1>5, CountInRange, FS_RemoveElement
<1>7. Cardinality(Configured') \in 0..Cardinality(Openers)
  <2>1. IsFiniteSet(Openers) /\ Configured' \subseteq Openers
    BY OperationConstants, SMTT(30) DEF Configured
  <2>2. QED BY <2>1, FS_Subset, FS_CardinalityType, SMTT(30)
<1>8. registers' = Cardinality(Configured')
  BY <1>3, <1>6 DEF HandlesCounted
<1>9. HandlesCounted'
  BY <1>3, <1>4, <1>8, SMTT(30) DEF HandlesCounted
<1>10. HandlesTyped'
  BY <1>1, <1>2, <1>3, <1>7, <1>8, SMTT(30) DEF HandlesTyped
<1>11. QED BY <1>9, <1>10

\* Every step keeps the count and the types of what concerns handles.
LEMMA HandlesStep ==
    ASSUME HandlesTyped, HandlesCounted, OperationNext
    PROVE  HandlesTyped' /\ HandlesCounted'
<1> DEFINE ThreadsTyped == threads \in [Openers \cup {"main", "closer"} ->
                     {"closed", "async", "open", "stop", "register", "unregister",
                      "stopped", "drain"}]
           Others == <<config, registered, finished, gaveUp>>
<1>0. setup.openers \subseteq Openers
  BY OperationConstants DEF HandlesCounted
<1>1. ASSUME registers' = registers, HandlesCounted', ThreadsTyped',
             config' \in BOOLEAN, registered' \in BOOLEAN,
             finished' \in BOOLEAN, gaveUp' \in BOOLEAN
      PROVE  HandlesTyped' /\ HandlesCounted'
  BY <1>1 DEF HandlesTyped
<1>2. ASSUME NEW t \in setup.openers, InvokeAsync(t) PROVE HandlesTyped' /\ HandlesCounted'
  <2>1. /\ Moves(t, "open") /\ threads[t] = "async" /\ registers' = registers
        /\ UNCHANGED <<setup, config, registered, finished>> /\ gaveUp' \in {FALSE, gaveUp}
    BY <1>0, <1>2, Zenon DEF InvokeAsync, AsyncMigrate, Moves
  <2>2. HandlesCounted' /\ ThreadsTyped' BY <2>1, MoveKeepsHandles
  <2>3. QED BY <1>1, <2>1, <2>2, Zenon DEF HandlesTyped
<1>3. ASSUME NEW t \in setup.openers, StopMigrate(t) PROVE HandlesTyped' /\ HandlesCounted'
  <2>1. /\ Moves(t, "closed") /\ threads[t] = "stop" /\ registers' = registers
        /\ UNCHANGED <<setup, Others>>
    BY <1>0, <1>3 DEF StopMigrate, Moves
  <2>2. HandlesCounted' /\ ThreadsTyped' BY <2>1, MoveKeepsHandles
  <2>3. QED BY <1>1, <2>1, <2>2 DEF HandlesTyped
<1>4. ASSUME NEW t \in {"main", "closer"}, NEW s, Moves(t, s), registers' = registers,
             UNCHANGED setup, config' \in BOOLEAN, registered' \in BOOLEAN,
             finished' \in BOOLEAN, gaveUp' \in BOOLEAN
      PROVE  HandlesTyped' /\ HandlesCounted'
  <2>1. HandlesCounted' /\ ThreadsTyped' BY <1>4, MoveKeepsHandles
  <2>2. QED BY <1>1, <1>4, <2>1
<1>5. CASE Enable
  BY <1>4, <1>5, Zenon DEF Enable, Moves, HandlesTyped
<1>6. CASE RegisterAsRequired
  BY <1>4, <1>6, Zenon DEF RegisterAsRequired, Moves, HandlesTyped
<1>7. CASE EnableAsync
  <2>1. gaveUp' \in {FALSE, gaveUp}
    BY <1>7, Zenon DEF EnableAsync, AsyncMigrate
  <2>2. QED BY <1>4, <1>7, <2>1, Zenon DEF EnableAsync, Moves, HandlesTyped
<1>8. CASE Disable
  BY <1>4, <1>8, Zenon DEF Disable, Moves, HandlesTyped
<1>9. CASE RegisterAsNotRequired
  BY <1>4, <1>9, Zenon DEF RegisterAsNotRequired, Moves, HandlesTyped
<1>10. CASE StopAllDatabaseEvent
  BY <1>4, <1>10, Zenon DEF StopAllDatabaseEvent, Moves, HandlesTyped
<1>11. CASE Drain
  BY <1>4, <1>11, Zenon DEF Drain, Moves, HandlesTyped
<1>12. CASE DidDrain
  BY <1>4, <1>12, Zenon DEF DidDrain, Moves, HandlesTyped
<1>13. CASE DoMigrate
  <2>1. /\ UNCHANGED <<setup, config, registered, registers, threads>>
        /\ finished' \in {TRUE, finished} /\ gaveUp' \in {TRUE, FALSE, gaveUp}
    BY <1>13, Zenon DEF DoMigrate, AsyncMigrate
  <2>2. HandlesCounted' BY <2>1 DEF HandlesCounted, Configured
  <2>3. QED BY <2>1, <2>2, Zenon DEF HandlesTyped
<1>14. CASE UNCHANGED <<setup, migration>>
  BY <1>14 DEF HandlesTyped, HandlesCounted, Configured, migration
<1>15. CASE HandleError \/ DoCheckIntegrity \/ CheckIfCorrupted \/ DoNotifyCorruption
             \/ SetCallback \/ UnsetCallback \/ ReplaceFile \/ \E op \in {"Migrate", "Integrity", "Notify"} : Take(op)
  <2>1. UNCHANGED <<setup, migration>>
    BY <1>15 DEF HandleError, DoCheckIntegrity, CheckIfCorrupted, DoNotifyCorruption,
                 SetCallback, UnsetCallback, ReplaceFile, Take
  <2>2. QED BY <1>14, <2>1, SMTT(30)
<1>16. QED
  BY <1>2, <1>3, <1>5, <1>6, <1>7, <1>8, <1>9, <1>10, <1>11, <1>12, <1>13, <1>15,
     InvokeCounts, UninvokeCounts, SMTT(30) DEF OperationNext

-----------------------------------------------------------------------------
(* The entries and the files. *)

\* Every step keeps the types of the entries.
LEMMA EntriesStep ==
    ASSUME EntriesTyped, OperationNext
    PROVE  EntriesTyped'
<1> USE DEF EntriesTyped
<1>1. ASSUME NEW n, AsyncMigrate(n)
      PROVE  DOMAIN queue' \subseteq {"Migrate", "Integrity", "Notify"}
  BY <1>1, AsyncMigrateQueues, Zenon DEF Queued
<1>2. ASSUME NEW t, InvokeAsync(t) PROVE EntriesTyped'
  BY <1>1, <1>2 DEF InvokeAsync
<1>3. ASSUME NEW t, Invoke(t) \/ Uninvoke(t) PROVE EntriesTyped'
  BY <1>3 DEF Invoke, Uninvoke
<1>4. ASSUME NEW t, StopMigrate(t) \/ RegisterAsNotRequired PROVE EntriesTyped'
  <2>1. Unqueued({"Migrate"}) BY <1>4, StopUnqueues, Zenon
  <2>2. running' = running BY <1>4, Zenon DEF StopMigrate, RegisterAsNotRequired
  <2>3. QED BY <2>1, <2>2 DEF Unqueued
<1>5. CASE EnableAsync
  BY <1>1, <1>5 DEF EnableAsync
<1>6. CASE Enable \/ RegisterAsRequired \/ Disable \/ Drain \/ DidDrain
  BY <1>6, Zenon DEF Enable, RegisterAsRequired, Disable, Drain, DidDrain
<1>7. CASE StopAllDatabaseEvent
  <2>1. running' = running BY <1>7, Zenon DEF StopAllDatabaseEvent
  <2>2. QED BY <1>7, <2>1, StopAllUnqueues, SMTT(30) DEF Unqueued
<1>8. CASE DoMigrate
  BY <1>1, <1>8 DEF DoMigrate, None
<1>9. ASSUME CheckIntegrity \/ UNCHANGED <<queue, corrupteds>>
      PROVE  DOMAIN queue' \subseteq {"Migrate", "Integrity", "Notify"}
  BY <1>9, CheckIntegrityQueues DEF Queued
<1>10. CASE HandleError
  <2>1. running' = running BY <1>10, Zenon DEF HandleError
  <2>2. QED BY <1>10, <2>1, HandleErrorQueues DEF Queued
<1>11. CASE DoCheckIntegrity \/ CheckIfCorrupted
  BY <1>9, <1>11, SMTT(30) DEF DoCheckIntegrity, CheckIfCorrupted, None
<1>12. CASE DoNotifyCorruption \/ SetCallback \/ UnsetCallback \/ ReplaceFile
  BY <1>12 DEF DoNotifyCorruption, SetCallback, UnsetCallback, ReplaceFile, None
<1>13. ASSUME NEW op \in {"Migrate", "Integrity", "Notify"}, Take(op) PROVE EntriesTyped'
  BY <1>13, TakeUnqueues, ZenonT(30) DEF Unqueued
<1>14. QED
  BY <1>2, <1>3, <1>4, <1>5, <1>6, <1>7, <1>8, <1>10, <1>11, <1>12, <1>13, ZenonT(30)
     DEF OperationNext

\* The steps of automatic migration and of the timed queue leave files alone.
LEMMA MigrationLeavesFiles ==
    ASSUME \/ \E t \in setup.openers : Invoke(t) \/ InvokeAsync(t) \/ Uninvoke(t) \/ StopMigrate(t)
           \/ Enable \/ RegisterAsRequired \/ EnableAsync \/ Disable \/ RegisterAsNotRequired
           \/ StopAllDatabaseEvent \/ Drain \/ DidDrain \/ DoMigrate
           \/ HandleError
           \/ \E op \in {"Migrate", "Integrity", "Notify"} : Take(op)
    PROVE  UNCHANGED <<setup, corruption>>
<1>1. ASSUME NEW t, Invoke(t) \/ InvokeAsync(t) \/ Uninvoke(t) \/ StopMigrate(t)
      PROVE  UNCHANGED <<setup, corruption>>
  BY <1>1, SMTT(30) DEF Invoke, InvokeAsync, Uninvoke, StopMigrate
<1>2. CASE Enable \/ RegisterAsRequired \/ EnableAsync \/ Disable \/ RegisterAsNotRequired
  BY <1>2, SMTT(30) DEF Enable, RegisterAsRequired, EnableAsync, Disable, RegisterAsNotRequired
<1>3. CASE StopAllDatabaseEvent \/ Drain \/ DidDrain \/ DoMigrate \/ HandleError
  BY <1>3, SMTT(30) DEF StopAllDatabaseEvent, Drain, DidDrain, DoMigrate, HandleError
<1>4. ASSUME NEW op, Take(op) PROVE UNCHANGED <<setup, corruption>>
  BY <1>4 DEF Take
<1>5. QED BY <1>1, <1>2, <1>3, <1>4, SMTT(30)

\* Every step keeps the types of what concerns files.
LEMMA FilesStep ==
    ASSUME FilesTyped, setup \in OperationSetups, OperationNext
    PROVE  FilesTyped'
<1>1. CASE UNCHANGED <<setup, corruption>>
  BY <1>1 DEF FilesTyped, corruption, Identifier, Reuse
<1>2. ASSUME CheckIntegrity \/ UNCHANGED <<queue, corrupteds>>,
             UNCHANGED <<setup, file, past, broken, callback, notified, threw>>
      PROVE  FilesTyped'
  <2>1. corrupteds' \subseteq {Identifier(f) : f \in Files}
    BY <1>2 DEF FilesTyped, CheckIntegrity, Confirm
  <2>2. QED BY <1>2, <2>1 DEF FilesTyped, Identifier, Reuse
<1>3. CASE DoCheckIntegrity \/ CheckIfCorrupted
  BY <1>2, <1>3 DEF DoCheckIntegrity, CheckIfCorrupted
<1>4. CASE DoNotifyCorruption
  <2>1. /\ UNCHANGED <<setup, broken, corrupteds, callback>> /\ threw' = ~callback
        /\ \/ /\ file # NoFile /\ notified' = [notified EXCEPT ![file] = @ + 1]
              /\ \/ file' = NoFile /\ past' = past \cup {file}
                 \/ UNCHANGED <<file, past>>
           \/ UNCHANGED <<notified, file, past>>
    BY <1>4 DEF DoNotifyCorruption, CallsBack
  <2>2. notified' \in [Files -> Nat] /\ file' \in Files \cup {NoFile} /\ past' \subseteq Files
    BY <2>1 DEF FilesTyped
  <2>3. QED BY <2>1, <2>2 DEF FilesTyped, Identifier, Reuse
<1>5. CASE SetCallback \/ UnsetCallback
  BY <1>5, Zenon DEF SetCallback, UnsetCallback, FilesTyped, Identifier, Reuse
<1>6. CASE ReplaceFile
  <2>1. file' \in Files \cup {NoFile} /\ past' \subseteq Files
    BY <1>6, OperationConstants DEF ReplaceFile, FilesTyped
  <2>2. QED BY <1>6, <2>1 DEF ReplaceFile, FilesTyped, Identifier, Reuse
<1>7. QED
  BY <1>1, <1>3, <1>4, <1>5, <1>6, MigrationLeavesFiles, SMTT(30) DEF OperationNext

-----------------------------------------------------------------------------
(* Migration that is not required is not queued. *)

\* Only asyncMigrate queues a migration, and it looks at registered first.
LEMMA NotRequiredStep ==
    ASSUME NotRequiredNotQueued, OperationNext
    PROVE  NotRequiredNotQueued'
<1> USE DEF NotRequiredNotQueued
<1>1. ASSUME NEW n, AsyncMigrate(n), registered' = registered
      PROVE  NotRequiredNotQueued'
  BY <1>1, AsyncMigrateQueues, Zenon
<1>2. ASSUME NEW t, InvokeAsync(t) PROVE NotRequiredNotQueued'
  BY <1>1, <1>2, Zenon DEF InvokeAsync
<1>3. ASSUME NEW t, Invoke(t) \/ Uninvoke(t) PROVE NotRequiredNotQueued'
  BY <1>3, Zenon DEF Invoke, Uninvoke
<1>4. ASSUME NEW t, StopMigrate(t) \/ RegisterAsNotRequired PROVE NotRequiredNotQueued'
  <2>1. Unqueued({"Migrate"}) BY <1>4, StopUnqueues, Zenon
  <2>2. QED BY <2>1 DEF Unqueued
<1>5. CASE EnableAsync
  BY <1>1, <1>5, Zenon DEF EnableAsync
<1>6. CASE Enable \/ Disable \/ Drain \/ DidDrain
  BY <1>6, Zenon DEF Enable, Disable, Drain, DidDrain
<1>7. CASE RegisterAsRequired
  BY <1>7, Zenon DEF RegisterAsRequired
<1>8. CASE StopAllDatabaseEvent
  BY <1>8, StopAllUnqueues DEF Unqueued
<1>9. CASE DoMigrate
  <2>1. registered' = registered /\ (UNCHANGED queue \/ \E n : AsyncMigrate(n))
    BY <1>9 DEF DoMigrate
  <2>2. QED BY <1>1, <2>1, SMTT(30)
<1>10. ASSUME CheckIntegrity \/ UNCHANGED <<queue, corrupteds>>, UNCHANGED registered
       PROVE  NotRequiredNotQueued'
  BY <1>10, CheckIntegrityQueues DEF Queued
<1>11. CASE HandleError
  <2>1. registered' = registered BY <1>11 DEF HandleError, migration
  <2>2. QED BY <1>11, <2>1, HandleErrorQueues, SMTT(30) DEF Queued
<1>12. CASE DoCheckIntegrity \/ CheckIfCorrupted
  BY <1>10, <1>12, SMTT(30) DEF DoCheckIntegrity, CheckIfCorrupted, migration
<1>13. CASE DoNotifyCorruption \/ SetCallback \/ UnsetCallback \/ ReplaceFile
  BY <1>13 DEF DoNotifyCorruption, SetCallback, UnsetCallback, ReplaceFile, migration
<1>14. ASSUME NEW op, Take(op) PROVE NotRequiredNotQueued'
  <2>1. registered' = registered BY <1>14 DEF Take, migration
  <2>2. QED BY <1>14, <2>1, TakeUnqueues, ZenonT(30) DEF Unqueued
<1>15. QED
  BY <1>2, <1>3, <1>4, <1>5, <1>6, <1>7, <1>8, <1>9, <1>11, <1>12, <1>13, <1>14, ZenonT(30)
     DEF OperationNext

-----------------------------------------------------------------------------
(* Migration is stepped while a handle is open. *)

\* What KeepsStepping asks for, and when.
Stepped == "Migrate" \in DOMAIN queue \/ running.op = "Migrate"

ShouldStep ==
    /\ Cardinality(setup.openers) = 1
    /\ registered /\ registers > 0 /\ ~finished /\ ~gaveUp
    /\ threads["closer"] = "closed" /\ \A t \in DOMAIN threads : threads[t] # "async"

\* The one opener has the only handle the config may be invoked for.
LEMMA OneOpener ==
    ASSUME HandlesCounted, Cardinality(setup.openers) = 1, NEW t \in setup.openers
    PROVE  /\ threads[t] \in {"async", "open"} => registers = 1
           /\ threads[t] \notin {"async", "open"} => registers = 0
<1>1. setup.openers \subseteq Openers /\ IsFiniteSet(Openers)
  BY OperationConstants DEF HandlesCounted
<1>2. IsFiniteSet(setup.openers)
  BY <1>1, FS_Subset
<1>3. setup.openers = {t}
  BY <1>2, FS_Singleton
<1>4. Configured \subseteq {t}
  BY <1>3 DEF HandlesCounted, Configured
<1>5. CASE threads[t] \in {"async", "open"}
  <2>1. Configured = {t} BY <1>1, <1>4, <1>5 DEF Configured
  <2>2. QED BY <1>5, <2>1, FS_Singleton, Zenon DEF HandlesCounted
<1>6. CASE threads[t] \notin {"async", "open"}
  <2>1. Configured = {} BY <1>4, <1>6, SMTT(30) DEF Configured
  <2>2. QED BY <1>6, <2>1, FS_EmptySet DEF HandlesCounted
<1>7. QED BY <1>5, <1>6

\* No step changes the setup.
LEMMA SetupStays == OperationNext => UNCHANGED setup
  BY MigrationLeavesFiles, SMTT(30)
     DEF OperationNext, DoCheckIntegrity, CheckIfCorrupted, DoNotifyCorruption,
         SetCallback, UnsetCallback, ReplaceFile

\* Every step keeps migration stepped.
LEMMA SteppingStep ==
    ASSUME HandlesTyped, HandlesCounted, KeepsStepping, OperationNext, ShouldStep'
    PROVE  Stepped'
<1>0. (ShouldStep => Stepped) /\ setup.openers \subseteq Openers
      /\ {"main", "closer"} \cap Openers = {} /\ setup' = setup
  BY SetupStays, OperationConstants DEF KeepsStepping, ShouldStep, Stepped, HandlesCounted
<1>1. ASSUME NEW n, AsyncMigrate(n), registered' = registered
      PROVE  Stepped'
  BY <1>1, AsyncMigrateQueues, ZenonT(30) DEF Queued, ShouldStep, Stepped
<1>2. ASSUME NEW t \in setup.openers, Invoke(t) PROVE Stepped'
  <2>1. CASE registers = 0
    <3>1. threads'[t] = "async" /\ t \in DOMAIN threads'
      BY <1>0, <1>2, <2>1 DEF Invoke, HandlesTyped
    <3>2. QED BY <3>1 DEF ShouldStep
  <2>2. CASE registers # 0
    BY <1>0, <1>2, <2>2, OneOpener DEF Invoke, ShouldStep
  <2>3. QED BY <2>1, <2>2
<1>3. ASSUME NEW t \in setup.openers, InvokeAsync(t) PROVE Stepped'
  BY <1>1, <1>3 DEF InvokeAsync
<1>4. ASSUME NEW t \in setup.openers, Uninvoke(t) PROVE Stepped'
  <2>1. registers = 1 /\ registers' = registers - 1 /\ registers' > 0
    BY <1>0, <1>4, OneOpener, SMTT(30) DEF Uninvoke, ShouldStep
  <2>2. QED BY <2>1
<1>5. ASSUME NEW t \in setup.openers, StopMigrate(t) PROVE Stepped'
  <2>1. registers = 0 /\ registers' = registers /\ registers' > 0
    BY <1>0, <1>5, OneOpener, SMTT(30) DEF StopMigrate, ShouldStep
  <2>2. QED BY <2>1
<1>6. ASSUME NEW s, threads["main"] = "closed", threads' = [threads EXCEPT !["main"] = s],
             UNCHANGED <<queue, running, registered, registers, finished, gaveUp>>
      PROVE  Stepped'
  <2>1. DOMAIN threads' = DOMAIN threads /\ threads'["closer"] = threads["closer"]
        /\ \A t \in DOMAIN threads : t # "main" => threads'[t] = threads[t]
    BY <1>6 DEF HandlesTyped
  <2>2. ShouldStep
    BY <1>0, <1>6, <2>1, SMTT(30) DEF ShouldStep
  <2>3. QED BY <1>0, <1>6, <2>2, SMTT(30) DEF Stepped
<1>7. CASE Enable
  BY <1>6, <1>7, Zenon DEF Enable
<1>8. CASE RegisterAsRequired
  <2>1. threads'["main"] = "async" /\ "main" \in DOMAIN threads'
    BY <1>8 DEF RegisterAsRequired, HandlesTyped
  <2>2. QED BY <2>1 DEF ShouldStep
<1>9. CASE EnableAsync
  BY <1>1, <1>9 DEF EnableAsync
<1>10. CASE Disable
  BY <1>6, <1>10, Zenon DEF Disable
<1>11. CASE RegisterAsNotRequired
  BY <1>11 DEF RegisterAsNotRequired, ShouldStep
<1>12. CASE StopAllDatabaseEvent \/ Drain
  <2>1. threads'["closer"] \in {"stopped", "drain"}
    BY <1>12 DEF StopAllDatabaseEvent, Drain, HandlesTyped
  <2>2. QED BY <2>1 DEF ShouldStep
<1>13. CASE DidDrain
  <2>1. Configured = {} BY <1>13 DEF DidDrain, Configured
  <2>2. registers = 0 BY <2>1, FS_EmptySet DEF HandlesCounted
  <2>3. QED BY <1>13, <2>2 DEF DidDrain, ShouldStep
<1>14. CASE DoMigrate
  BY <1>1, <1>14, ZenonT(30) DEF DoMigrate, ShouldStep
<1>15. ASSUME UNCHANGED <<setup, migration>>, Stepped => Stepped'
       PROVE  Stepped'
  <2>1. ShouldStep BY <1>15 DEF ShouldStep, migration
  <2>2. QED BY <1>0, <1>15, <2>1
<1>16. ASSUME CheckIntegrity \/ UNCHANGED <<queue, corrupteds>>
       PROVE  DOMAIN queue \subseteq DOMAIN queue'
  BY <1>16, CheckIntegrityQueues DEF Queued
<1>17. CASE HandleError \/ DoCheckIntegrity \/ CheckIfCorrupted
  <2>1. UNCHANGED <<setup, migration>>
    BY <1>17 DEF HandleError, DoCheckIntegrity, CheckIfCorrupted
  <2>2. DOMAIN queue \subseteq DOMAIN queue' /\ (running.op = "Integrity" \/ running' = running)
    <3>1. CASE HandleError
      <4>1. running' = running BY <3>1 DEF HandleError
      <4>2. QED BY <3>1, <4>1, HandleErrorQueues, SMTT(30) DEF Queued
    <3>2. CASE DoCheckIntegrity \/ CheckIfCorrupted
      BY <1>16, <3>2 DEF DoCheckIntegrity, CheckIfCorrupted
    <3>3. QED BY <1>17, <3>1, <3>2, SMTT(30)
  <2>3. QED BY <1>15, <2>1, <2>2 DEF Stepped
<1>18. CASE DoNotifyCorruption \/ SetCallback \/ UnsetCallback \/ ReplaceFile
  <2>1. UNCHANGED <<setup, migration, queue>> /\ (running.op = "Notify" \/ running' = running)
    BY <1>18 DEF DoNotifyCorruption, SetCallback, UnsetCallback, ReplaceFile
  <2>2. QED BY <1>15, <2>1, SMTT(30) DEF Stepped
<1>19. ASSUME NEW op \in {"Migrate", "Integrity", "Notify"}, Take(op) PROVE Stepped'
  <2>1. UNCHANGED <<setup, migration>>
    BY <1>19 DEF Take
  <2>2. running.op = "None" /\ DOMAIN queue' = DOMAIN queue \ {op} /\ running'.op = op
    BY <1>19, TakeUnqueues DEF Unqueued
  <2>3. QED BY <1>15, <2>1, <2>2, SMTT(30) DEF Stepped
<1>20. QED
  BY <1>2, <1>3, <1>4, <1>5, <1>7, <1>8, <1>9, <1>10, <1>11, <1>12, <1>13, <1>14,
     <1>17, <1>18, <1>19, SMTT(30) DEF OperationNext

-----------------------------------------------------------------------------
(* Notifications. *)

\* No notification is queued or taken.
SameNotifications ==
    /\ "Notify" \in DOMAIN queue' => "Notify" \in DOMAIN queue /\ queue'["Notify"] = queue["Notify"]
    /\ running'.op = "Notify" => running' = running

\* The steps of automatic migration, and the other operations, leave the
\* notifications that are queued as they are.
LEMMA MigrationLeavesNotifications ==
    ASSUME \/ \E t \in setup.openers : Invoke(t) \/ InvokeAsync(t) \/ Uninvoke(t) \/ StopMigrate(t)
           \/ Enable \/ RegisterAsRequired \/ EnableAsync \/ Disable \/ RegisterAsNotRequired
           \/ StopAllDatabaseEvent \/ Drain \/ DidDrain \/ DoMigrate
           \/ HandleError \/ SetCallback \/ UnsetCallback \/ ReplaceFile
           \/ \E op \in {"Migrate", "Integrity"} : Take(op)
    PROVE  SameNotifications
<1> USE DEF SameNotifications
<1>1. ASSUME NEW n, AsyncMigrate(n), running' \in {running, None} PROVE SameNotifications
  <2>1. running'.op = "Notify" => running' = running BY <1>1 DEF None
  <2>2. Queued("Migrate", n) \/ UNCHANGED queue
    BY <1>1, AsyncMigrateQueues, Zenon
  <2>3. QED BY <2>1, <2>2, SMTT(30) DEF Queued
<1>2. ASSUME NEW t, InvokeAsync(t) PROVE SameNotifications
  BY <1>1, <1>2, Zenon DEF InvokeAsync
<1>3. ASSUME NEW t, Invoke(t) \/ Uninvoke(t) PROVE SameNotifications
  BY <1>3, Zenon DEF Invoke, Uninvoke
<1>4. ASSUME NEW t, StopMigrate(t) \/ RegisterAsNotRequired PROVE SameNotifications
  <2>1. Unqueued({"Migrate"}) BY <1>4, StopUnqueues, Zenon
  <2>2. running' = running BY <1>4, Zenon DEF StopMigrate, RegisterAsNotRequired
  <2>3. QED BY <2>1, <2>2 DEF Unqueued
<1>5. CASE EnableAsync
  BY <1>1, <1>5, Zenon DEF EnableAsync
<1>6. CASE Enable \/ RegisterAsRequired \/ Disable \/ Drain \/ DidDrain
  BY <1>6, Zenon DEF Enable, RegisterAsRequired, Disable, Drain, DidDrain
<1>7. CASE StopAllDatabaseEvent
  <2>1. running' = running BY <1>7, Zenon DEF StopAllDatabaseEvent
  <2>2. QED BY <1>7, <2>1, StopAllUnqueues DEF Unqueued
<1>8. CASE DoMigrate
  <2>1. running' = None /\ (UNCHANGED queue \/ \E n : AsyncMigrate(n))
    BY <1>8 DEF DoMigrate
  <2>2. QED BY <1>1, <2>1, SMTT(30) DEF None
<1>9. CASE HandleError
  <2>1. running' = running BY <1>9, Zenon DEF HandleError
  <2>2. QED BY <1>9, <2>1, HandleErrorQueues, SMTT(30) DEF Queued
<1>10. CASE SetCallback \/ UnsetCallback \/ ReplaceFile
  BY <1>10, Zenon DEF SetCallback, UnsetCallback, ReplaceFile
<1>11. ASSUME NEW op \in {"Migrate", "Integrity"}, Take(op) PROVE SameNotifications
  BY <1>11, TakeUnqueues, Zenon DEF Unqueued
<1>12. QED
  BY <1>2, <1>3, <1>4, <1>5, <1>6, <1>7, <1>8, <1>9, <1>10, <1>11, ZenonT(30)

\* Every step keeps the notifications outstanding ones.
LEMMA NotificationsStep ==
    ASSUME ~Reuse, FilesTyped, NotificationsOutstanding, OperationNext
    PROVE  NotificationsOutstanding'
<1>0. \A f : Identifier(f) = f
  BY DEF Identifier
<1>1. ASSUME SameNotifications, UNCHANGED <<broken, corrupteds, notified>>
      PROVE  NotificationsOutstanding'
  BY <1>1 DEF SameNotifications, NotificationsOutstanding, Outstanding
<1>2. ASSUME CheckIntegrity \/ UNCHANGED <<queue, corrupteds>>,
             running' = running \/ running' = None, UNCHANGED <<broken, notified>>
      PROVE  NotificationsOutstanding'
  <2>1. CASE UNCHANGED <<queue, corrupteds>>
    <3>1. SameNotifications BY <1>2, <2>1, SMTT(30) DEF SameNotifications, None
    <3>2. QED BY <1>1, <1>2, <2>1, <3>1, SMTT(30)
  <2>2. CASE CheckIntegrity
    <3>1. /\ file \in broken /\ file \in Files /\ corrupteds' = corrupteds \cup {file}
          /\ \/ file \notin corrupteds /\ Queued("Notify", file)
             \/ queue' = queue
      BY <1>0, <2>2, CheckIntegrityQueues, SMTT(30) DEF FilesTyped
    <3>3. ASSUME file \notin corrupteds
          PROVE  file \in corrupteds' /\ notified'[file] = 0
      BY <1>2, <3>1, <3>3, SMTT(30) DEF NotificationsOutstanding
    <3>4. "Notify" \in DOMAIN queue' => Outstanding(queue["Notify"])'
      <4>1. CASE queue' = queue
        BY <1>2, <3>1, <4>1, SMTT(30) DEF NotificationsOutstanding, Outstanding
      <4>2. CASE file \notin corrupteds /\ Queued("Notify", file)
        BY <3>3, <4>2, SMTT(30) DEF Queued, Outstanding
      <4>3. QED BY <3>1, <4>1, <4>2, SMTT(30)
    <3>5. running'.op = "Notify" => running' = running
      BY <1>2 DEF None
    <3>6. running'.op = "Notify" =>
             /\ Outstanding(running.info)'
             /\ "Notify" \in DOMAIN queue' => queue'["Notify"] # running'.info
      <4>1. CASE queue' = queue
        BY <1>2, <3>1, <3>5, <4>1, SMTT(30) DEF NotificationsOutstanding, Outstanding
      <4>2. CASE file \notin corrupteds /\ Queued("Notify", file)
        BY <1>2, <3>1, <3>5, <4>2, SMTT(30) DEF Queued, NotificationsOutstanding, Outstanding
      <4>3. QED BY <3>1, <4>1, <4>2, SMTT(30)
    <3>7. QED BY <1>2, <3>1, <3>4, <3>6, SMTT(30) DEF NotificationsOutstanding
  <2>3. QED BY <1>2, <2>1, <2>2, SMTT(30)
<1>3. CASE DoCheckIntegrity \/ CheckIfCorrupted
  BY <1>2, <1>3, SMTT(30) DEF DoCheckIntegrity, CheckIfCorrupted
<1>4. CASE DoNotifyCorruption
  <2>1. running.op = "Notify" /\ running'.op = "None" /\ UNCHANGED <<queue, broken, corrupteds>>
    BY <1>4 DEF DoNotifyCorruption, None
  <2>2. CASE UNCHANGED notified
    <3>1. SameNotifications BY <2>1, SMTT(30) DEF SameNotifications
    <3>2. QED BY <1>1, <2>1, <2>2, <3>1, SMTT(30)
  <2>3. CASE notified' # notified
    <3>1. file = running.info /\ file \in Files /\ notified' = [notified EXCEPT ![file] = @ + 1]
      BY <1>0, <1>4, <2>3, SMTT(30) DEF DoNotifyCorruption, CallsBack, FilesTyped
    <3>2. \A f \in Files : notified'[f] = IF f = file THEN notified[f] + 1 ELSE notified[f]
      BY <3>1, SMTT(30) DEF FilesTyped
    <3>3. corrupteds \subseteq Files
      BY SMTT(30) DEF FilesTyped, NotificationsOutstanding
    <3>4. Outstanding(file) /\ ("Notify" \in DOMAIN queue => queue["Notify"] # file)
      BY <2>1, <3>1, SMTT(30) DEF NotificationsOutstanding
    <3>5. "Notify" \in DOMAIN queue' => Outstanding(queue["Notify"])'
      BY <2>1, <3>2, <3>3, <3>4, SMTT(30) DEF NotificationsOutstanding, Outstanding
    <3>6. \A f \in Files : notified'[f] = 0 \/ (notified'[f] = 1 /\ f \in corrupteds')
      BY <2>1, <3>2, <3>4, SMTT(30) DEF NotificationsOutstanding, Outstanding
    <3>7. QED BY <2>1, <3>5, <3>6, SMTT(30) DEF NotificationsOutstanding
  <2>4. QED BY <2>2, <2>3, SMTT(30)
<1>5. ASSUME Take("Notify") PROVE NotificationsOutstanding'
  <2>1. /\ "Notify" \in DOMAIN queue /\ "Notify" \notin DOMAIN queue'
        /\ running'.info = queue["Notify"] /\ UNCHANGED <<broken, corrupteds, notified>>
    <3>1. UNCHANGED <<broken, corrupteds, notified>> BY <1>5 DEF Take, corruption
    <3>2. QED BY <1>5, <3>1, TakeUnqueues, Zenon DEF Unqueued
  <2>2. QED BY <2>1, SMTT(30) DEF NotificationsOutstanding, Outstanding
<1>6. CASE SetCallback \/ UnsetCallback \/ ReplaceFile
  BY <1>1, <1>6, MigrationLeavesNotifications, ZenonT(30) DEF SetCallback, UnsetCallback, ReplaceFile
<1>7. CASE /\ SameNotifications
           /\ UNCHANGED <<setup, corruption>>
  BY <1>1, <1>7 DEF corruption
<1>8. QED
  BY <1>3, <1>4, <1>5, <1>6, <1>7, MigrationLeavesNotifications, MigrationLeavesFiles, SMTT(30)
     DEF OperationNext

-----------------------------------------------------------------------------
(* The theorems. *)

\* Every step keeps the invariant.
LEMMA OperationStepInvariant ==
    OperationIInv /\ [OperationNext]_operationVars => OperationIInv'
<1> SUFFICES ASSUME OperationIInv, [OperationNext]_operationVars PROVE OperationIInv'
  OBVIOUS
<1>1. EntriesTyped /\ HandlesTyped /\ FilesTyped
  BY OperationTypeParts DEF OperationIInv
<1>2. CASE OperationNext
  <2>1. EntriesTyped' BY <1>1, <1>2, EntriesStep
  <2>2. HandlesTyped' /\ HandlesCounted' BY <1>1, <1>2, HandlesStep DEF OperationIInv
  <2>3. FilesTyped' BY <1>1, <1>2, FilesStep DEF OperationIInv, HandlesCounted
  <2>4. OperationTypeOK' BY <2>1, <2>2, <2>3, OperationTypeParts, PTL
  <2>5. NotRequiredNotQueued' BY <1>1, <1>2, NotRequiredStep, SMTT(30) DEF OperationIInv
  <2>6. KeepsStepping'
    <3>1. ShouldStep' => Stepped' BY <1>1, <1>2, SteppingStep DEF OperationIInv
    <3>2. QED BY <3>1 DEF KeepsStepping, ShouldStep, Stepped
  <2>7. (~Reuse => NotificationsOutstanding)'
    <3>1. ~Reuse => NotificationsOutstanding'
      BY <1>1, <1>2, NotificationsStep DEF OperationIInv
    <3>2. setup' = setup BY <1>2, SetupStays
    <3>3. QED BY <3>1, <3>2 DEF Reuse
  <2>8. QED BY <2>2, <2>4, <2>5, <2>6, <2>7 DEF OperationIInv
<1>3. CASE UNCHANGED operationVars
  <2> USE <1>3 DEF operationVars, migration, corruption
  <2>1. OperationTypeOK' BY SMTT(30) DEF OperationIInv, OperationTypeOK, Identifier, Reuse
  <2>2. HandlesCounted' BY Zenon DEF OperationIInv, HandlesCounted, Configured
  <2>3. NotRequiredNotQueued' /\ KeepsStepping'
    BY SMTT(30) DEF OperationIInv, NotRequiredNotQueued, KeepsStepping
  <2>4. (~Reuse => NotificationsOutstanding)'
    BY DEF OperationIInv, NotificationsOutstanding, Outstanding, Reuse
  <2>5. QED BY <2>1, <2>2, <2>3, <2>4, SMTT(30) DEF OperationIInv
<1>4. QED BY <1>2, <1>3

\* The inductive invariant of the operation queue: the types, the count of the
\* handles configured, migration queued only when required and whenever a
\* handle needs it, and every notification of a corruption not yet notified.
THEOREM OperationInvariance == OperationSpec => []OperationIInv
<1>1. QED
  BY OperationInitInvariant, OperationStepInvariant, PTL DEF OperationSpec

\* After registerAsNoMigrationRequired no migration is in the queue, whatever
\* handle, running step or other thread calls asyncMigrate.
THEOREM NotRequiredIsNotQueued == OperationSpec => []NotRequiredNotQueued
<1>1. OperationIInv => NotRequiredNotQueued
  BY DEF OperationIInv
<1>2. QED BY <1>1, OperationInvariance, PTL

\* With one thread that opens handles, AutoMigrateConfig keeps the migration
\* queued or running while its handle is open (invoke, uninvoke, doMigrate).
THEOREM MigrationKeepsStepping == OperationSpec => []KeepsStepping
<1>1. OperationIInv => KeepsStepping
  BY DEF OperationIInv
<1>2. QED BY <1>1, OperationInvariance, PTL

\* The callback of a corruption is called at most once per file and only for
\* corrupted files, if no file gets the inode number of another.
THEOREM CorruptionNotifiedOnce == OperationSpec => []NotifiedOnce
<1>1. OperationIInv => NotifiedOnce
  <2> SUFFICES ASSUME OperationIInv, ~Reuse, NEW f \in Files
               PROVE  notified[f] <= 1 /\ (notified[f] = 1 => f \in broken)
    BY DEF NotifiedOnce
  <2>1. (notified[f] = 0 \/ (notified[f] = 1 /\ f \in corrupteds)) /\ corrupteds \subseteq broken
    BY DEF OperationIInv, NotificationsOutstanding
  <2>2. QED BY <2>1
<1>2. QED BY <1>1, OperationInvariance, PTL
=============================================================================
