----------------------------- MODULE LockProofs ------------------------------
(***************************************************************************)
(* Proofs about the lock of the handle pool and about close, which waits    *)
(* for it.                                                                  *)
(*                                                                         *)
(* SharedLock, for any set of threads and for both builds.  The invariants  *)
(* are proved together: exclusion needs m_readers to count the shares       *)
(* exactly, the counters need the waiters to hold nothing, and the absence  *)
(* of lost wake-ups needs the queue to be exactly the waiters.              *)
(*                                                                         *)
(* Closing, for every set of tasks and every finite set of closers: a close *)
(* that waits for the tasks has suspended every backup.  m_closing counts   *)
(* the closers, a backup is marked before it tests m_closing, and a closer  *)
(* counts itself before it looks for marks.                                 *)
(***************************************************************************)
EXTENDS Closing, SharedLock, FiniteSetTheorems, TLAPS

-----------------------------------------------------------------------------
(* Closing. *)

\* The threads that are inside close.
Inside == {c \in Closers : place[c] # "idle"}

Places ==
    /\ setup.holding \subseteq Closers
    /\ \A t \in Tasks : place[t] \in TaskPlaces
    /\ \A c \in Closers : place[c] \in CloserPlaces

\* What a closer has to go through it has only in its loop, and nobody is in the loop
\* while the pool is drained; then no handle is left that could be suspended.
Loops ==
    /\ \A c \in Closers : place[c] \notin LoopPlaces => pending[c] = {}
    /\ \A c \in Closers : place[c] \notin {"suspending", "resuming"} => reached[c] = {}
    /\ \A d \in Closers : place[d] = "drained" => MemoryFree /\ suspended = {}

\* A task that has a handle has it in the slot, and a backup that has begun has
\* marked it.
Marked ==
    /\ \A t \in Tasks : place[t] \notin {"idle", "share"} => t \in slot
    /\ \A t \in backups : place[t] \in {"between", "work"} => t \in canBeSuspended

\* A backup at work that has not been suspended is still before every closer, and
\* none is about to resume it: it saw m_closing at zero after it had marked its
\* handle, so every closer has read, or will read, the mark.
Followed ==
    \A c \in Closers, t \in backups : place[t] = "work" =>
        /\ place[c] = "resuming" => t \notin reached[c]
        /\ place[c] \in LoopPlaces \cup {"drain"} =>
              t \in pending[c] \/ t \in reached[c] \/ t \in suspended

\* Where no close is refused, none leaves a handle suspended.
Settled == setup.holding = {} /\ closing = 0 => suspended = {}

ClosingIInv ==
    /\ ClosingTypeOK /\ Places
    /\ closing = Cardinality(Inside)
    /\ Loops /\ Marked /\ Followed /\ Settled

-----------------------------------------------------------------------------
\* m_closing is zero only when nobody is inside close.
LEMMA NobodyInside ==
    ASSUME ClosingIInv
    PROVE  /\ IsFiniteSet(Inside) /\ Cardinality(Inside) \in Nat
           /\ closing = 0 <=> \A c \in Closers : place[c] = "idle"
<1>1. Inside \subseteq Closers BY DEF Inside
<1>2. IsFiniteSet(Inside) BY <1>1, ClosingAssumption, FS_Subset
<1>3. Cardinality(Inside) \in Nat /\ (Cardinality(Inside) = 0 <=> Inside = {})
  BY <1>2, FS_CardinalityType, FS_EmptySet
<1>4. QED BY <1>2, <1>3 DEF ClosingIInv, Inside

\* What a step of a task leaves alone, when it only moves the task.
LEMMA TaskKeepsClosers ==
    ASSUME ClosingIInv, NEW t \in Tasks, NEW p \in TaskPlaces, Move(t, p),
           UNCHANGED <<setup, closing>>
    PROVE  /\ \A c \in Closers : place'[c] = place[c]
           /\ closing' = Cardinality(Inside')
           /\ \A u \in Tasks : place'[u] = IF u = t THEN p ELSE place[u]
           /\ Places' /\ (MemoryFree' <=> MemoryFree)
           /\ place' \in [Tasks \cup Closers -> TaskPlaces \cup CloserPlaces]
<1>1. /\ \A c \in Closers : place'[c] = place[c]
      /\ \A u \in Tasks : place'[u] = IF u = t THEN p ELSE place[u]
      /\ place' \in [Tasks \cup Closers -> TaskPlaces \cup CloserPlaces]
  BY ClosingAssumption DEF ClosingIInv, ClosingTypeOK, Move
<1>2. Inside' = Inside BY <1>1 DEF Inside
<1>3. Places' /\ (MemoryFree' <=> MemoryFree) BY <1>1 DEF ClosingIInv, Places, MemoryFree
<1>4. QED BY <1>1, <1>2, <1>3 DEF ClosingIInv

LEMMA TaskStep == ASSUME ClosingIInv, NEW t \in Tasks, TaskNext(t) PROVE ClosingIInv'
<1> USE ClosingAssumption DEF TaskPlaces
<1> DEFINE Moved(p) == /\ \A c \in Closers : place'[c] = place[c]
                       /\ closing' = Cardinality(Inside')
                       /\ \A u \in Tasks : place'[u] = IF u = t THEN p ELSE place[u]
                       /\ Places' /\ (MemoryFree' <=> MemoryFree)
                       /\ place' \in [Tasks \cup Closers -> TaskPlaces \cup CloserPlaces]
<1>1. CASE TaskBegin(t)
  <2>1. Moved("share") BY <1>1, TaskKeepsClosers, Zenon DEF TaskBegin
  <2>2. ClosingTypeOK' BY <1>1, <2>1 DEF TaskBegin, ClosingIInv, ClosingTypeOK, loopVars
  <2>3. Loops' BY <1>1, <2>1 DEF TaskBegin, ClosingIInv, Loops, loopVars
  <2>4. Marked' /\ Followed'
    BY <1>1, <2>1, SMTT(30) DEF TaskBegin, ClosingIInv, ClosingTypeOK, Marked, Followed, loopVars
  <2>5. Settled' BY <1>1 DEF TaskBegin, ClosingIInv, Settled
  <2>6. QED BY <2>1, <2>2, <2>3, <2>4, <2>5 DEF ClosingIInv
<1>2. CASE TaskTake(t)
  <2> DEFINE p == IF t \in slot THEN "reuse" ELSE "ready"
  <2>1. Moved(p) BY <1>2, TaskKeepsClosers, Zenon DEF TaskTake
  <2>2. ClosingTypeOK' BY <1>2, <2>1 DEF TaskTake, ClosingIInv, ClosingTypeOK, loopVars
  <2>3. Loops' BY <1>2, <2>1 DEF TaskTake, ClosingIInv, Loops, loopVars
  <2>4. Marked' /\ Followed'
    BY <1>2, <2>1 DEF TaskTake, ClosingIInv, ClosingTypeOK, Marked, Followed, loopVars
  <2>5. Settled' BY <1>2 DEF TaskTake, ClosingIInv, Settled
  <2>6. QED BY <2>1, <2>2, <2>3, <2>4, <2>5 DEF ClosingIInv
<1>3. CASE TaskUnmark(t)
  <2>1. Moved("resume") BY <1>3, TaskKeepsClosers, Zenon DEF TaskUnmark
  <2>2. ClosingTypeOK' BY <1>3, <2>1 DEF TaskUnmark, ClosingIInv, ClosingTypeOK, loopVars
  <2>3. Loops' BY <1>3, <2>1 DEF TaskUnmark, ClosingIInv, Loops, loopVars
  <2>4. Marked' /\ Followed'
    BY <1>3, <2>1 DEF TaskUnmark, ClosingIInv, ClosingTypeOK, Marked, Followed, loopVars
  <2>5. Settled' BY <1>3 DEF TaskUnmark, ClosingIInv, Settled
  <2>6. QED BY <2>1, <2>2, <2>3, <2>4, <2>5 DEF ClosingIInv
<1>4. CASE TaskResume(t)
  <2>1. Moved("ready") BY <1>4, TaskKeepsClosers, Zenon DEF TaskResume
  <2>2. ClosingTypeOK' BY <1>4, <2>1 DEF TaskResume, ClosingIInv, ClosingTypeOK, loopVars
  <2>3. Loops' BY <1>4, <2>1 DEF TaskResume, ClosingIInv, Loops, loopVars
  <2>4. Marked' /\ Followed'
    BY <1>4, <2>1 DEF TaskResume, ClosingIInv, ClosingTypeOK, Marked, Followed, loopVars
  <2>5. Settled' BY <1>4 DEF TaskResume, ClosingIInv, Settled
  <2>6. QED BY <2>1, <2>2, <2>3, <2>4, <2>5 DEF ClosingIInv
<1>5. CASE TaskSetupFails(t)
  <2>1. Moved("idle") BY <1>5, TaskKeepsClosers, Zenon DEF TaskSetupFails
  <2>2. \A c \in Closers : pending[c] = {} /\ reached[c] = {}
    BY <1>5 DEF TaskSetupFails, MemoryFree, LoopPlaces, ClosingIInv, Loops
  <2>3. ClosingTypeOK'
    BY <1>5, <2>1, <2>2 DEF TaskSetupFails, ClosingIInv, ClosingTypeOK, loopVars
  <2>4. Loops' BY <1>5, <2>1 DEF TaskSetupFails, ClosingIInv, Loops, loopVars
  <2>5. Marked' /\ Followed'
    BY <1>5, <2>1 DEF TaskSetupFails, ClosingIInv, ClosingTypeOK, Marked, Followed, loopVars
  <2>6. Settled' BY <1>5 DEF TaskSetupFails, ClosingIInv, Settled
  <2>7. QED BY <2>1, <2>3, <2>4, <2>5, <2>6 DEF ClosingIInv
<1>6. ASSUME NEW p \in {"between", "work"}, Check(t, p), place[t] \in {"ready", "between"},
             t \in backups => place[t] = "between",
             p = "between" => t \notin backups
      PROVE  ClosingIInv'
  <2> DEFINE q == IF closing # 0 THEN "return" ELSE p
  <2>1. Moved(q) BY <1>6, TaskKeepsClosers DEF Check
  <2>2. ClosingTypeOK' BY <1>6, <2>1 DEF Check, ClosingIInv, ClosingTypeOK, loopVars
  <2>3. Loops' BY <1>6, <2>1 DEF Check, ClosingIInv, Loops, loopVars
  <2>4. Marked' BY <1>6, <2>1 DEF Check, ClosingIInv, ClosingTypeOK, Marked, loopVars
  <2>5. Followed'
    <3>1. CASE closing # 0
      <4>1. q = "return" BY <3>1
      <4>2. QED BY <1>6, <2>1, <4>1, SMTT(30) DEF Check, ClosingIInv, ClosingTypeOK, Followed, loopVars
    <3>2. CASE closing = 0
      <4>1. \A c \in Closers : place'[c] = "idle" BY <2>1, <3>2, NobodyInside
      <4>2. QED BY <4>1 DEF Followed, LoopPlaces
    <3>3. QED BY <3>1, <3>2
  <2>6. Settled' BY <1>6 DEF Check, ClosingIInv, Settled
  <2>7. QED BY <2>1, <2>2, <2>3, <2>4, <2>5, <2>6 DEF ClosingIInv
<1>7. ASSUME NEW p \in {"between", "work"}, Mark(t, p), place[t] \in {"ready", "between"},
             p = "work" => t \notin backups
      PROVE  ClosingIInv'
  <2>1. Moved(p) BY <1>7, TaskKeepsClosers DEF Mark
  <2>2. ClosingTypeOK' BY <1>7, <2>1 DEF Mark, ClosingIInv, ClosingTypeOK, Marked, loopVars
  <2>3. Loops' BY <1>7, <2>1 DEF Mark, ClosingIInv, Loops, loopVars
  <2>4. Marked' /\ Followed'
    BY <1>7, <2>1 DEF Mark, ClosingIInv, ClosingTypeOK, Marked, Followed, loopVars
  <2>5. Settled' BY <1>7 DEF Mark, ClosingIInv, Settled
  <2>6. QED BY <2>1, <2>2, <2>3, <2>4, <2>5 DEF ClosingIInv
<1>8. CASE TaskPrepare(t)
  BY <1>6, <1>7, <1>8 DEF TaskPrepare, BackupPrepare, StepPrepare
<1>9. ASSUME NEW p \in {"return", "idle"}, Move(t, p), place[t] \in {"work", "return"},
             UNCHANGED <<setup, closing, backups, slot, canBeSuspended, suspended, loopVars>>
      PROVE  ClosingIInv'
  <2>1. Moved(p) BY <1>9, TaskKeepsClosers
  <2>2. ClosingTypeOK' BY <1>9, <2>1 DEF ClosingIInv, ClosingTypeOK, loopVars
  <2>3. Loops' BY <1>9, <2>1 DEF ClosingIInv, Loops, loopVars
  <2>4. Marked' /\ Followed'
    BY <1>9, <2>1, SMTT(30) DEF ClosingIInv, ClosingTypeOK, Marked, Followed, loopVars
  <2>5. Settled' BY <1>9 DEF ClosingIInv, Settled
  <2>6. QED BY <2>1, <2>2, <2>3, <2>4, <2>5 DEF ClosingIInv
<1>10. QED BY <1>1, <1>2, <1>3, <1>4, <1>5, <1>8, <1>9 DEF TaskNext, TaskGoesOn, TaskInterrupted, TaskFinish, TaskReturn

\* A closer moves, and is inside close afterwards or not.
LEMMA CloserMoves ==
    ASSUME ClosingIInv, NEW c \in Closers, NEW p \in CloserPlaces, Move(c, p), UNCHANGED setup
    PROVE  /\ \A t \in Tasks : place'[t] = place[t]
           /\ \A d \in Closers : place'[d] = IF d = c THEN p ELSE place[d]
           /\ Places'
           /\ place' \in [Tasks \cup Closers -> TaskPlaces \cup CloserPlaces]
           /\ Cardinality(Inside') = IF p = "idle"
                THEN IF place[c] = "idle" THEN Cardinality(Inside) ELSE Cardinality(Inside) - 1
                ELSE IF place[c] = "idle" THEN Cardinality(Inside) + 1 ELSE Cardinality(Inside)
<1>1. /\ \A t \in Tasks : place'[t] = place[t]
      /\ \A d \in Closers : place'[d] = IF d = c THEN p ELSE place[d]
      /\ place' \in [Tasks \cup Closers -> TaskPlaces \cup CloserPlaces]
  BY ClosingAssumption DEF ClosingIInv, ClosingTypeOK, Move
<1>2. Inside' = IF p = "idle" THEN Inside \ {c} ELSE Inside \cup {c}
  BY <1>1 DEF Inside
<1>3. c \in Inside <=> place[c] # "idle" BY DEF Inside
<1>4. /\ Cardinality(Inside \ {c}) = IF c \in Inside THEN Cardinality(Inside) - 1 ELSE Cardinality(Inside)
      /\ Cardinality(Inside \cup {c}) = IF c \in Inside THEN Cardinality(Inside) ELSE Cardinality(Inside) + 1
  BY NobodyInside, FS_AddElement, FS_RemoveElement, Zenon
<1>5. Places' BY <1>1 DEF ClosingIInv, Places
<1>6. QED BY <1>1, <1>2, <1>3, <1>4, <1>5

LEMMA CloserStep == ASSUME ClosingIInv, NEW c \in Closers, CloserNext(c) PROVE ClosingIInv'
<1> USE ClosingAssumption DEF CloserPlaces, LoopPlaces
<1> DEFINE Moved(p) == /\ \A t \in Tasks : place'[t] = place[t]
                       /\ \A d \in Closers : place'[d] = IF d = c THEN p ELSE place[d]
                       /\ closing' = Cardinality(Inside')
                       /\ Places'
                       /\ place' \in [Tasks \cup Closers -> TaskPlaces \cup CloserPlaces]
<1>0. /\ closing \in Nat /\ closing = Cardinality(Inside)
      /\ place[c] # "idle" => closing # 0
  BY NobodyInside DEF ClosingIInv
<1>1. CASE CloseBegin(c)
  <2>1. Moved("suspend") BY <1>0, <1>1, CloserMoves DEF CloseBegin
  <2>2. ClosingTypeOK' BY <1>0, <1>1, <2>1 DEF CloseBegin, ClosingIInv, ClosingTypeOK, loopVars
  <2>3. Loops' BY <1>1, <2>1 DEF CloseBegin, ClosingIInv, Loops, MemoryFree, loopVars
  <2>4. Marked' /\ Followed'
    BY <1>1, <2>1 DEF CloseBegin, ClosingIInv, ClosingTypeOK, Marked, Followed, loopVars
  <2>5. closing' # 0 BY <1>0, <1>1 DEF CloseBegin
  <2>6. Settled' BY <2>5 DEF Settled
  <2>7. QED BY <2>1, <2>2, <2>3, <2>4, <2>6 DEF ClosingIInv
<1>2. CASE CloseShare(c)
  <2>1. Moved("loop") BY <1>0, <1>2, CloserMoves, Zenon DEF CloseShare
  <2>2. ClosingTypeOK' BY <1>2, <2>1, Zenon DEF CloseShare, ClosingIInv, ClosingTypeOK
  <2>3. Loops' BY <1>2, <2>1 DEF CloseShare, ClosingIInv, ClosingTypeOK, Loops, MemoryFree
  <2>4. Marked' BY <1>2, <2>1 DEF CloseShare, ClosingIInv, ClosingTypeOK, Marked
  <2>5. Followed'
    BY <1>2, <2>1 DEF CloseShare, ClosingIInv, ClosingTypeOK, Marked, Followed
  <2>6. Settled' BY <1>0, <1>2 DEF CloseShare, Settled
  <2>7. QED BY <2>1, <2>2, <2>3, <2>4, <2>5, <2>6 DEF ClosingIInv
<1>3. CASE SuspendRead(c)
  <2>1. PICK t \in pending[c] :
          /\ pending' = [pending EXCEPT ![c] = @ \ {t}]
          /\ reached' = [reached EXCEPT ![c] = {t}]
          /\ Move(c, IF t \in canBeSuspended THEN "suspending" ELSE "resuming")
    BY <1>3, Zenon DEF SuspendRead
  <2>2. PICK p \in {"suspending", "resuming"} :
          Move(c, p) /\ (p = "suspending" <=> t \in canBeSuspended)
    BY <2>1
  <2>3. Moved(p)
    <3>1. p \in CloserPlaces /\ p # "idle" /\ place[c] # "idle" /\ UNCHANGED <<setup, closing>>
      BY <1>3 DEF SuspendRead
    <3>2. QED BY <1>0, <2>2, <3>1, CloserMoves, Zenon
  <2>4. /\ \A d \in Closers : pending'[d] = IF d = c THEN pending[c] \ {t} ELSE pending[d]
        /\ \A d \in Closers : reached'[d] = IF d = c THEN {t} ELSE reached[d]
    BY <2>1 DEF ClosingIInv, ClosingTypeOK
  <2>5. ClosingTypeOK'
    <3>1. pending[c] \subseteq slot BY DEF ClosingIInv, ClosingTypeOK
    <3>2. /\ pending' \in [Closers -> SUBSET slot]
          /\ reached' \in [Closers -> SUBSET slot]
      BY <2>1, <3>1 DEF ClosingIInv, ClosingTypeOK
    <3>3. QED BY <1>3, <2>3, <3>2 DEF SuspendRead, ClosingIInv, ClosingTypeOK
  <2>6. Loops' BY <1>3, <2>3, <2>4 DEF SuspendRead, ClosingIInv, Loops, MemoryFree
  <2>7. Marked' BY <1>3, <2>3 DEF SuspendRead, ClosingIInv, ClosingTypeOK, Marked
  <2>8. Followed'
    <3>1. ASSUME NEW d \in Closers, NEW u \in backups, place[u] = "work"
          PROVE  /\ place'[d] = "resuming" => u \notin reached'[d]
                 /\ place'[d] \in LoopPlaces \cup {"drain"} =>
                       u \in pending'[d] \/ u \in reached'[d] \/ u \in suspended
      <4>1. u \in canBeSuspended BY <3>1 DEF ClosingIInv, Marked
      <4>2. /\ place[d] = "resuming" => u \notin reached[d]
            /\ place[d] \in LoopPlaces \cup {"drain"} =>
                  u \in pending[d] \/ u \in reached[d] \/ u \in suspended
        BY <3>1 DEF ClosingIInv, Followed
      <4>3. place[c] = "loop" /\ reached[c] = {}
        BY <1>3 DEF SuspendRead, ClosingIInv, Loops
      <4>4. QED BY <2>2, <2>3, <2>4, <4>1, <4>2, <4>3
    <3>2. QED
      BY <1>3, <2>3, <3>1 DEF SuspendRead, Followed, ClosingIInv, ClosingTypeOK
  <2>9. Settled' BY <1>0, <1>3, SMTT(30) DEF SuspendRead, Settled
  <2>10. QED BY <2>3, <2>5, <2>6, <2>7, <2>8, <2>9 DEF ClosingIInv
<1>4. CASE DoSuspend(c)
  <2>1. Moved("loop") BY <1>0, <1>4, CloserMoves, Zenon DEF DoSuspend
  <2>2. \A d \in Closers : reached'[d] = IF d = c THEN {} ELSE reached[d]
    BY <1>4 DEF DoSuspend, ClosingIInv, ClosingTypeOK
  <2>3. ClosingTypeOK'
    BY <1>4, <2>1, Zenon DEF DoSuspend, ClosingIInv, ClosingTypeOK
  <2>4. Loops' BY <1>4, <2>1, <2>2 DEF DoSuspend, ClosingIInv, Loops, MemoryFree
  <2>5. Marked' BY <1>4, <2>1 DEF DoSuspend, ClosingIInv, ClosingTypeOK, Marked
  <2>6. Followed'
    BY <1>4, <2>1, <2>2 DEF DoSuspend, ClosingIInv, ClosingTypeOK, Followed
  <2>7. Settled' BY <1>0, <1>4 DEF DoSuspend, Settled
  <2>8. QED BY <2>1, <2>3, <2>4, <2>5, <2>6, <2>7 DEF ClosingIInv
<1>5. CASE CloseUnshare(c)
  <2>1. Moved("drain") BY <1>0, <1>5, CloserMoves, Zenon DEF CloseUnshare
  <2>2. ClosingTypeOK' BY <1>5, <2>1 DEF CloseUnshare, ClosingIInv, ClosingTypeOK, loopVars
  <2>3. Loops' BY <1>5, <2>1 DEF CloseUnshare, ClosingIInv, Loops, MemoryFree, loopVars
  <2>4. Marked' /\ Followed'
    BY <1>5, <2>1 DEF CloseUnshare, ClosingIInv, ClosingTypeOK, Marked, Followed, loopVars
  <2>5. Settled' BY <1>0, <1>5 DEF CloseUnshare, Settled
  <2>6. QED BY <2>1, <2>2, <2>3, <2>4, <2>5 DEF ClosingIInv
<1>6. CASE CloseDrain(c)
  <2>1. Moved("drained") /\ \A t \in Tasks : place[t] = "idle"
    BY <1>0, <1>6, CloserMoves, Zenon DEF CloseDrain, Sharing
  <2>2. \A d \in Closers : pending[d] = {} /\ reached[d] = {}
    BY <1>6 DEF CloseDrain, MemoryFree, ClosingIInv, Loops
  <2>3. ClosingTypeOK'
    BY <1>6, <2>1, <2>2 DEF CloseDrain, ClosingIInv, ClosingTypeOK, loopVars
  <2>4. Loops' BY <1>6, <2>1, <2>2 DEF CloseDrain, ClosingIInv, Loops, MemoryFree, loopVars
  <2>5. Marked' /\ Followed'
    BY <1>6, <2>1 DEF CloseDrain, ClosingIInv, ClosingTypeOK, Marked, Followed, loopVars
  <2>6. Settled' BY <1>6 DEF CloseDrain, Settled
  <2>7. QED BY <2>1, <2>3, <2>4, <2>5, <2>6 DEF ClosingIInv
<1>7. CASE CloseEnd(c)
  <2>1. Moved("idle") BY <1>0, <1>7, CloserMoves, Zenon DEF CloseEnd
  <2>2. closing' \in Nat BY <1>0, <1>7 DEF CloseEnd
  <2>3. ClosingTypeOK' BY <1>7, <2>1, <2>2 DEF CloseEnd, ClosingIInv, ClosingTypeOK, loopVars
  <2>4. Loops' BY <1>7, <2>1 DEF CloseEnd, ClosingIInv, Loops, MemoryFree, loopVars
  <2>5. Marked' /\ Followed'
    BY <1>7, <2>1 DEF CloseEnd, ClosingIInv, ClosingTypeOK, Marked, Followed, loopVars
  <2>6. setup.holding = {} => suspended = {} BY <1>7 DEF CloseEnd, ClosingIInv, Loops
  <2>7. Settled' BY <1>7, <2>6 DEF CloseEnd, Settled
  <2>8. QED BY <2>1, <2>3, <2>4, <2>5, <2>7 DEF ClosingIInv
<1>8. QED BY <1>1, <1>2, <1>3, <1>4, <1>5, <1>6, <1>7 DEF CloserNext, CloserGoesOn

-----------------------------------------------------------------------------
\* The invariant of close and the automatic tasks holds in every reachable state:
\* m_closing counts the closers, marks are where the code put them, and a backup at
\* work is suspended or before every closer, although a closer reads the mark of a
\* handle in one step and acts on it in another.
THEOREM ClosingInvariance == ClosingSpec => []ClosingIInv
<1>1. ClosingInit => ClosingIInv
  <2>1. ASSUME ClosingInit PROVE Inside = {} BY <2>1 DEF ClosingInit, Inside
  <2>2. ASSUME ClosingInit PROVE closing = Cardinality(Inside)
    BY <2>1, <2>2, FS_EmptySet DEF ClosingInit
  <2>3. ASSUME ClosingInit PROVE ClosingTypeOK /\ Places
    BY <2>3, ClosingAssumption
    DEF ClosingInit, ClosingTypeOK, Places, TaskPlaces, CloserPlaces
  <2>4. ASSUME ClosingInit PROVE Loops /\ Marked /\ Followed /\ Settled
    BY <2>4 DEF ClosingInit, Loops, Marked, Followed, Settled, LoopPlaces
  <2>5. QED BY <2>2, <2>3, <2>4 DEF ClosingIInv
<1>2. ClosingIInv /\ [ClosingNext]_closingVars => ClosingIInv'
  <2>1. ASSUME ClosingIInv, UNCHANGED closingVars PROVE ClosingIInv'
    BY <2>1 DEF closingVars, ClosingIInv, ClosingTypeOK, Places, Loops, Marked, Followed,
                Settled, Inside, MemoryFree
  <2>2. QED BY <2>1, TaskStep, CloserStep DEF ClosingNext
<1>3. QED BY <1>1, <1>2, PTL DEF ClosingSpec

\* While a close waits for the tasks, every backup at work is suspended, and where
\* drain refuses no closer a suspension never outlives the closes, whenever the
\* handle was set up again (InnerDatabase::close, InnerDatabase::backup, setupHandle,
\* AbstractHandle::suspend).
THEOREM CloseSuspendsBackups == ClosingSpec => []BackupIsSuspended
<1>1. ASSUME ClosingIInv PROVE BackupIsSuspended
  <2>1. ASSUME NEW c \in Closers, NEW t \in backups, place[c] = "drain", place[t] = "work"
        PROVE  t \in suspended
    <3>1. pending[c] = {} /\ reached[c] = {} BY <1>1, <2>1 DEF ClosingIInv, Loops, LoopPlaces
    <3>2. QED BY <1>1, <2>1, <3>1 DEF ClosingIInv, Followed
  <2>2. QED BY <1>1, <2>1 DEF BackupIsSuspended, ClosingIInv, Settled
<1>2. QED BY <1>1, ClosingInvariance, PTL

-----------------------------------------------------------------------------
(* SharedLock. *)

\* Facts the named invariants do not carry: the counted sets are finite, and only
\* a thread inside a wait sleeps.
Auxiliary ==
    /\ IsFiniteSet(Shares)
    /\ IsFiniteSet(InSharedWait)
    /\ \A t \in asleep : pc[t] # "outside"

IInv ==
    /\ TypeOK
    /\ Auxiliary
    /\ CountersAgree
    /\ Exclusion
    /\ WaitersHoldNothing
    /\ QueueIsWaiters
    /\ NoLostWakeup

-----------------------------------------------------------------------------
\* lockShared adds one share to the counted set: what ++m_readers stands for.
LEMMA ShareAdded ==
    ASSUME TypeOK, CountersAgree, IsFiniteSet(Shares),
           NEW t \in Threads, threadedReaders[t] < MaxDepth,
           threadedReaders' = [threadedReaders EXCEPT ![t] = @ + 1]
    PROVE  /\ IsFiniteSet(Shares')
           /\ Cardinality(Shares') = Cardinality(Shares) + 1
<1> DEFINE s == <<t, threadedReaders[t] + 1>>
<1>1. s \in Threads \X (1 .. MaxDepth) /\ s \notin Shares
  BY LockAssumption DEF Shares, TypeOK
<1>2. Shares' = Shares \cup {s}
  <2>1. ASSUME NEW x \in Threads \X (1 .. MaxDepth)
        PROVE  x \in Shares' <=> x \in Shares \cup {s}
    <3>1. PICK u \in Threads, k \in 1 .. MaxDepth : x = <<u, k>>
      OBVIOUS
    <3>2. x \in Shares <=> k <= threadedReaders[u]
      BY <3>1 DEF Shares
    <3>3. x \in Shares' <=> k <= threadedReaders'[u]
      BY <3>1 DEF Shares
    <3>4. CASE u = t
      BY <3>1, <3>2, <3>3, <3>4, LockAssumption DEF TypeOK
    <3>5. CASE u # t
      BY <3>1, <3>2, <3>3, <3>5, LockAssumption DEF TypeOK
    <3>6. QED BY <3>4, <3>5
  <2>2. Shares \subseteq Threads \X (1 .. MaxDepth) /\ Shares' \subseteq Threads \X (1 .. MaxDepth)
    BY DEF Shares
  <2>3. QED BY <2>1, <2>2, <1>1
<1>3. QED BY <1>1, <1>2, FS_AddElement, Zenon

\* unlockShared removes one: what --m_readers stands for.
LEMMA ShareRemoved ==
    ASSUME TypeOK, CountersAgree, IsFiniteSet(Shares),
           NEW t \in Threads, threadedReaders[t] > 0,
           threadedReaders' = [threadedReaders EXCEPT ![t] = @ - 1]
    PROVE  /\ IsFiniteSet(Shares')
           /\ Cardinality(Shares') = Cardinality(Shares) - 1
<1> DEFINE s == <<t, threadedReaders[t]>>
<1>1. s \in Shares
  BY LockAssumption DEF Shares, TypeOK, CountersAgree
<1>2. Shares' = Shares \ {s}
  <2>1. ASSUME NEW x \in Threads \X (1 .. MaxDepth)
        PROVE  x \in Shares' <=> x \in Shares \ {s}
    <3>1. PICK u \in Threads, k \in 1 .. MaxDepth : x = <<u, k>>
      OBVIOUS
    <3>2. x \in Shares <=> k <= threadedReaders[u]
      BY <3>1 DEF Shares
    <3>3. x \in Shares' <=> k <= threadedReaders'[u]
      BY <3>1 DEF Shares
    <3>4. CASE u = t
      BY <3>1, <3>2, <3>3, <3>4, LockAssumption DEF TypeOK
    <3>5. CASE u # t
      BY <3>1, <3>2, <3>3, <3>5, LockAssumption DEF TypeOK
    <3>6. QED BY <3>4, <3>5
  <2>2. Shares \subseteq Threads \X (1 .. MaxDepth) /\ Shares' \subseteq Threads \X (1 .. MaxDepth)
    BY DEF Shares
  <2>3. QED BY <2>1, <2>2
<1>3. QED BY <1>1, <1>2, FS_RemoveElement, Zenon

\* m_readers = 0 means that no thread holds a share: the test lock() relies on.
LEMMA NoReadersNoShares ==
    ASSUME TypeOK, CountersAgree, IsFiniteSet(Shares), readers = 0
    PROVE  \A t \in Threads : threadedReaders[t] = 0
<1>1. Shares = {}
  BY FS_EmptySet, Zenon DEF CountersAgree
<1>2. SUFFICES ASSUME NEW t \in Threads, threadedReaders[t] # 0 PROVE FALSE
  OBVIOUS
<1>3. <<t, 1>> \in Shares
  BY <1>2, LockAssumption DEF TypeOK, CountersAgree, Shares
<1>4. QED BY <1>1, <1>3

\* What push_back and pop_front do to the queue of writers.
LEMMA PushBack ==
    ASSUME NEW S, NEW q \in Seq(S), NEW x \in S
    PROVE  /\ Append(q, x) \in Seq(S)
           /\ Append(q, x) # <<>>
           /\ DOMAIN Append(q, x) = DOMAIN q \cup {Len(q) + 1}
           /\ Append(q, x)[Len(q) + 1] = x
           /\ \A i \in DOMAIN q : Append(q, x)[i] = q[i]
           /\ Head(Append(q, x)) = IF q = <<>> THEN x ELSE Head(q)
<1>1. /\ Append(q, x) \in Seq(S)
      /\ Append(q, x) # <<>>
      /\ Len(Append(q, x)) = Len(q) + 1
      /\ Append(q, x)[Len(q) + 1] = x
      /\ \A i \in 1 .. Len(q) : Append(q, x)[i] = q[i]
  OBVIOUS
<1>2. DOMAIN q = 1 .. Len(q) /\ DOMAIN Append(q, x) = 1 .. Len(q) + 1 /\ Len(q) \in Nat
  BY <1>1
<1>3. Head(Append(q, x)) = Append(q, x)[1]
  BY <1>1
<1>4. q = <<>> <=> Len(q) = 0
  OBVIOUS
<1>5. q # <<>> => Head(q) = q[1] /\ 1 \in 1 .. Len(q)
  BY <1>2, <1>4
<1>6. QED BY <1>1, <1>2, <1>3, <1>4, <1>5

-----------------------------------------------------------------------------
\* The constructor establishes the invariant.
LEMMA InitIInv == Init => IInv
<1> SUFFICES ASSUME Init PROVE IInv
  OBVIOUS
<1>1. Shares = {} /\ InSharedWait = {}
  BY LockAssumption DEF Init, Shares, InSharedWait
<1>2. TypeOK /\ Auxiliary /\ CountersAgree
  BY <1>1, LockAssumption, FS_EmptySet DEF Init, TypeOK, Auxiliary, CountersAgree
<1>3. Exclusion /\ WaitersHoldNothing /\ NoLostWakeup
  BY LockAssumption DEF Init, Exclusion, WaitersHoldNothing, NoLostWakeup, Level
<1>4. QueueIsWaiters
  BY DEF Init, QueueIsWaiters
<1>5. QED BY <1>2, <1>3, <1>4 DEF IInv

\* The front of a nonempty queue is a writer inside the wait.
LEMMA FrontWaits ==
    ASSUME TypeOK, QueueIsWaiters, pendingWriters # <<>>
    PROVE  Head(pendingWriters) \in Threads /\ pc[Head(pendingWriters)] = "waitLock"
<1>1. Head(pendingWriters) = pendingWriters[1] /\ 1 \in DOMAIN pendingWriters
  BY DEF TypeOK
<1>2. QED BY <1>1 DEF TypeOK, QueueIsWaiters

\* lockShared preserves the invariant, whether it waits or takes its share at once.
LEMMA LockSharedIInv ==
    ASSUME IInv, NEW t \in Threads, LockShared(t) PROVE IInv'
<1> USE LockAssumption
<1>1. CASE MustWaitToShare(t)
  <2>1. /\ pendingReaders' = pendingReaders + 1
        /\ pc' = [pc EXCEPT ![t] = "waitShared"]
        /\ asleep' = asleep \cup {t}
        /\ UNCHANGED <<readers, writers, pendingWriters, locking, threadedReaders>>
    BY <1>1 DEF LockShared
  <2>2. pc[t] = "outside" BY DEF LockShared
  <2>3. TypeOK' BY <2>1 DEF IInv, TypeOK
  <2>4. Shares' = Shares BY <2>1 DEF Shares
  <2>a. InSharedWait' = InSharedWait \cup {t} /\ t \notin InSharedWait
    BY <2>1, <2>2 DEF InSharedWait, IInv, TypeOK
  <2>5. IsFiniteSet(InSharedWait') /\ Cardinality(InSharedWait') = Cardinality(InSharedWait) + 1
    BY <2>a, FS_AddElement DEF IInv, Auxiliary
  <2>6. Auxiliary' BY <2>1, <2>2, <2>4, <2>5 DEF IInv, Auxiliary, TypeOK
  <2>7. CountersAgree' BY <2>1, <2>4, <2>5 DEF IInv, CountersAgree, TypeOK
  <2>8. Exclusion' BY <2>1 DEF IInv, Exclusion, Level
  <2>9. WaitersHoldNothing'
    BY <1>1, <2>1 DEF IInv, TypeOK, WaitersHoldNothing, Exclusion, CountersAgree, Level, MustWaitToShare
  <2>10. QueueIsWaiters' BY <2>1, <2>2 DEF IInv, TypeOK, QueueIsWaiters
  <2>11. NoLostWakeup'
    BY <1>1, <2>1, <2>2, FrontWaits DEF IInv, TypeOK, NoLostWakeup, MustWaitToShare
  <2>12. QED BY <2>3, <2>6, <2>7, <2>8, <2>9, <2>10, <2>11 DEF IInv
<1>2. CASE ~MustWaitToShare(t)
  <2>1. /\ readers' = readers + 1
        /\ threadedReaders' = [threadedReaders EXCEPT ![t] = @ + 1]
        /\ UNCHANGED <<writers, pendingWriters, locking, pendingReaders, pc, asleep>>
    BY <1>2 DEF LockShared, AcquireShared
  <2>2. pc[t] = "outside" /\ threadedReaders[t] < MaxDepth BY DEF LockShared
  <2>3. TypeOK' BY <2>1 DEF IInv, TypeOK
  <2>4. IsFiniteSet(Shares') /\ Cardinality(Shares') = Cardinality(Shares) + 1
    BY <2>1, <2>2, ShareAdded, Zenon DEF IInv, Auxiliary
  <2>5. InSharedWait' = InSharedWait BY <2>1 DEF InSharedWait
  <2>6. Auxiliary' BY <2>1, <2>4, <2>5 DEF IInv, Auxiliary
  <2>7. CountersAgree' BY <2>1, <2>2, <2>4, <2>5 DEF IInv, CountersAgree, TypeOK
  <2>8. Exclusion'
    BY <1>2, <2>1 DEF IInv, TypeOK, Exclusion, CountersAgree, Level, MustWaitToShare
  <2>9. WaitersHoldNothing' BY <2>1, <2>2 DEF IInv, TypeOK, WaitersHoldNothing, Level
  <2>10. QueueIsWaiters' BY <2>1 DEF IInv, QueueIsWaiters
  <2>11. NoLostWakeup' BY <2>1 DEF IInv, TypeOK, NoLostWakeup
  <2>12. QED BY <2>3, <2>6, <2>7, <2>8, <2>9, <2>10, <2>11 DEF IInv
<1>3. QED BY <1>1, <1>2

\* So does a reader that returns from its wait.
LEMMA LockSharedAwakeIInv ==
    ASSUME IInv, NEW t \in Threads, LockSharedAwake(t) PROVE IInv'
<1> USE LockAssumption
<1>0. pc[t] = "waitShared" /\ t \notin asleep BY DEF LockSharedAwake
<1>1. CASE writers > 0 \/ pendingWriters # <<>>
  <2>1. /\ asleep' = asleep \cup {t}
        /\ UNCHANGED <<readers, writers, pendingReaders, pendingWriters, locking,
                       threadedReaders, pc>>
    BY <1>1 DEF LockSharedAwake, IInv, TypeOK
  <2>2. Shares' = Shares /\ InSharedWait' = InSharedWait BY <2>1 DEF Shares, InSharedWait
  <2>3. TypeOK' /\ Auxiliary' /\ CountersAgree'
    BY <1>0, <2>1, <2>2 DEF IInv, TypeOK, Auxiliary, CountersAgree
  <2>4. Exclusion' /\ WaitersHoldNothing' /\ QueueIsWaiters'
    BY <2>1 DEF IInv, Exclusion, WaitersHoldNothing, QueueIsWaiters, Level
  <2>5. NoLostWakeup' BY <1>0, <1>1, <2>1, FrontWaits, SMTT(30) DEF IInv, NoLostWakeup
  <2>6. QED BY <2>3, <2>4, <2>5 DEF IInv
<1>2. CASE writers = 0 /\ pendingWriters = <<>>
  <2>1. /\ pendingReaders' = pendingReaders - 1
        /\ pc' = [pc EXCEPT ![t] = "outside"]
        /\ readers' = readers + 1
        /\ threadedReaders' = [threadedReaders EXCEPT ![t] = @ + 1]
        /\ UNCHANGED <<writers, pendingWriters, locking, asleep>>
    BY <1>2 DEF LockSharedAwake, AcquireShared
  <2>2. threadedReaders[t] = 0 /\ threadedReaders[t] < MaxDepth
    BY <1>0 DEF IInv, TypeOK, WaitersHoldNothing, Level
  <2>3. InSharedWait # {} BY <1>0 DEF InSharedWait
  <2>4. pendingReaders > 0
    BY <2>3, FS_EmptySet, FS_CardinalityType DEF IInv, Auxiliary, CountersAgree
  <2>5. IsFiniteSet(Shares') /\ Cardinality(Shares') = Cardinality(Shares) + 1
    BY <2>1, <2>2, ShareAdded, Zenon DEF IInv, Auxiliary
  <2>a. InSharedWait' = InSharedWait \ {t} /\ t \in InSharedWait
    BY <1>0, <2>1 DEF InSharedWait, IInv, TypeOK
  <2>6. IsFiniteSet(InSharedWait') /\ Cardinality(InSharedWait') = Cardinality(InSharedWait) - 1
    BY <2>a, FS_RemoveElement DEF IInv, Auxiliary
  <2>7. TypeOK' BY <2>1, <2>4 DEF IInv, TypeOK
  <2>8. Auxiliary' BY <1>0, <2>1, <2>5, <2>6 DEF IInv, Auxiliary, TypeOK
  <2>9. CountersAgree' BY <2>1, <2>2, <2>5, <2>6 DEF IInv, CountersAgree, TypeOK
  <2>10. locking = NoThread BY <1>2 DEF IInv, CountersAgree
  <2>11. Exclusion' BY <2>1, <2>10 DEF Exclusion, Level
  <2>12. WaitersHoldNothing' BY <2>1 DEF IInv, TypeOK, WaitersHoldNothing, Level
  <2>13. QueueIsWaiters' BY <1>0, <2>1 DEF IInv, TypeOK, QueueIsWaiters
  <2>14. NoLostWakeup' BY <1>0, <1>2, <2>1 DEF IInv, TypeOK, NoLostWakeup
  <2>15. QED BY <2>7, <2>8, <2>9, <2>11, <2>12, <2>13, <2>14 DEF IInv
<1>3. QED BY <1>1, <1>2 DEF IInv, TypeOK

\* Whoever is woken, the front of the queue is: both builds signal it.
LEMMA FrontNotified ==
    ASSUME TypeOK, QueueIsWaiters, pendingWriters # <<>>
    PROVE  /\ NotifyWriters \subseteq asleep
           /\ Head(pendingWriters) \notin NotifyWriters
BY FrontWaits DEF NotifyWriters

\* unlockShared preserves it: the last reader out wakes the front writer.
LEMMA UnlockSharedIInv ==
    ASSUME IInv, NEW t \in Threads, UnlockShared(t) PROVE IInv'
<1> USE LockAssumption
<1>1. /\ pc[t] = "outside"
      /\ threadedReaders[t] > 0
      /\ threadedReaders' = [threadedReaders EXCEPT ![t] = @ - 1]
      /\ readers' = readers - 1
      /\ asleep' = IF readers' = 0 /\ writers = 0 /\ pendingWriters # <<>>
                   THEN NotifyWriters ELSE asleep
      /\ UNCHANGED <<writers, pendingReaders, pendingWriters, locking, pc>>
  BY DEF UnlockShared
<1>2. IsFiniteSet(Shares') /\ Cardinality(Shares') = Cardinality(Shares) - 1
  BY <1>1, ShareRemoved, Zenon DEF IInv, Auxiliary
<1>3. readers > 0
  BY <1>2, FS_CardinalityType DEF IInv, Auxiliary, CountersAgree
<1>4. InSharedWait' = InSharedWait BY <1>1 DEF InSharedWait
<1>5. asleep' \subseteq asleep BY <1>1, FrontNotified DEF IInv
<1>6. TypeOK' BY <1>1, <1>3, <1>5 DEF IInv, TypeOK
<1>7. Auxiliary' BY <1>1, <1>2, <1>4, <1>5 DEF IInv, Auxiliary
<1>8. CountersAgree' BY <1>1, <1>2, <1>4 DEF IInv, CountersAgree, TypeOK
<1>9. Exclusion' BY <1>1 DEF IInv, TypeOK, Exclusion, Level
<1>10. WaitersHoldNothing' BY <1>1 DEF IInv, TypeOK, WaitersHoldNothing, Level
<1>11. QueueIsWaiters' BY <1>1 DEF IInv, QueueIsWaiters
<1>12. NoLostWakeup' BY <1>1, <1>5, FrontNotified DEF IInv, TypeOK, NoLostWakeup
<1>13. QED BY <1>6, <1>7, <1>8, <1>9, <1>10, <1>11, <1>12 DEF IInv

\* lock preserves it when it nests, when it queues up and when it enters at once.
LEMMA LockIInv ==
    ASSUME IInv, NEW t \in Threads, Lock(t) PROVE IInv'
<1> USE LockAssumption
<1>0. pc[t] = "outside" /\ threadedReaders[t] = 0 BY DEF Lock
<1>a. ASSUME NEW i \in DOMAIN pendingWriters PROVE pendingWriters[i] # t
  BY <1>0 DEF IInv, TypeOK, QueueIsWaiters
<1>1. CASE locking = t
  <2>1. /\ writers' = writers + 1
        /\ locking' = t
        /\ UNCHANGED <<readers, pendingReaders, threadedReaders, pendingWriters, pc, asleep>>
    BY <1>1 DEF Lock, AcquireLock
  <2>2. Shares' = Shares /\ InSharedWait' = InSharedWait BY <2>1 DEF Shares, InSharedWait
  <2>3. TypeOK' /\ Auxiliary' /\ CountersAgree'
    BY <1>1, <2>1, <2>2 DEF IInv, TypeOK, Auxiliary, CountersAgree
  <2>4. Exclusion' /\ WaitersHoldNothing' /\ QueueIsWaiters'
    BY <1>1, <2>1 DEF IInv, Exclusion, WaitersHoldNothing, QueueIsWaiters, Level
  <2>5. NoLostWakeup' BY <2>1 DEF IInv, TypeOK, NoLostWakeup
  <2>6. QED BY <2>3, <2>4, <2>5 DEF IInv
<1>2. CASE locking # t /\ MustWaitToLock(t, Append(pendingWriters, t))
  <2>1. /\ pendingWriters' = Append(pendingWriters, t)
        /\ pc' = [pc EXCEPT ![t] = "waitLock"]
        /\ asleep' = asleep \cup {t}
        /\ UNCHANGED <<readers, writers, pendingReaders, locking, threadedReaders>>
    BY <1>2 DEF Lock
  <2>2. Shares' = Shares BY <2>1 DEF Shares
  <2>3. InSharedWait' = InSharedWait
    BY <1>0, <2>1 DEF InSharedWait, IInv, TypeOK
  <2>4. TypeOK' BY <2>1 DEF IInv, TypeOK
  <2>5. Auxiliary' /\ CountersAgree'
    BY <2>1, <2>2, <2>3 DEF IInv, TypeOK, Auxiliary, CountersAgree
  <2>6. Exclusion' BY <2>1 DEF IInv, Exclusion, Level
  <2>7. WaitersHoldNothing' BY <1>0, <1>2, <2>1 DEF IInv, TypeOK, WaitersHoldNothing, Level
  <2>8. /\ pendingWriters' # <<>>
        /\ DOMAIN pendingWriters' = DOMAIN pendingWriters \cup {Len(pendingWriters) + 1}
        /\ pendingWriters'[Len(pendingWriters) + 1] = t
        /\ \A i \in DOMAIN pendingWriters : pendingWriters'[i] = pendingWriters[i]
        /\ Head(pendingWriters') = IF pendingWriters = <<>> THEN t ELSE Head(pendingWriters)
    BY <2>1, PushBack DEF IInv, TypeOK
  <2>9. QueueIsWaiters'
    BY <1>0, <1>a, <2>1, <2>8 DEF IInv, TypeOK, QueueIsWaiters
  <2>10. NoLostWakeup'
    BY <1>0, <1>2, <2>1, <2>8, FrontWaits, SMTT(30)
    DEF IInv, TypeOK, NoLostWakeup, MustWaitToLock
  <2>11. QED BY <2>4, <2>5, <2>6, <2>7, <2>9, <2>10 DEF IInv
<1>3. CASE locking # t /\ ~MustWaitToLock(t, Append(pendingWriters, t))
  <2>1. /\ writers' = writers + 1
        /\ locking' = t
        /\ UNCHANGED <<readers, pendingReaders, threadedReaders, pendingWriters, pc, asleep>>
    BY <1>3 DEF Lock, AcquireLock
  <2>2. readers = 0 /\ writers = 0 BY <1>3 DEF MustWaitToLock, IInv, TypeOK
  <2>3. \A u \in Threads : threadedReaders[u] = 0
    BY <2>2, NoReadersNoShares DEF IInv, Auxiliary
  <2>4. Shares' = Shares /\ InSharedWait' = InSharedWait BY <2>1 DEF Shares, InSharedWait
  <2>5. TypeOK' /\ Auxiliary' /\ CountersAgree'
    BY <2>1, <2>4 DEF IInv, TypeOK, Auxiliary, CountersAgree
  <2>6. Exclusion' /\ WaitersHoldNothing' /\ QueueIsWaiters'
    BY <1>0, <2>1, <2>3 DEF IInv, TypeOK, Exclusion, WaitersHoldNothing, QueueIsWaiters, Level
  <2>7. NoLostWakeup' BY <2>1 DEF IInv, TypeOK, NoLostWakeup
  <2>8. QED BY <2>5, <2>6, <2>7 DEF IInv
<1>4. QED BY <1>1, <1>2, <1>3 DEF Lock

\* The elements of a queue after pop_front, by index.
LEMMA PopFront ==
    ASSUME NEW S, NEW q \in Seq(S), q # <<>>
    PROVE  /\ Tail(q) \in Seq(S)
           /\ Head(q) = q[1] /\ 1 \in DOMAIN q
           /\ \A i \in DOMAIN Tail(q) : i + 1 \in DOMAIN q /\ Tail(q)[i] = q[i + 1]
           /\ \A i \in DOMAIN q : i # 1 => i - 1 \in DOMAIN Tail(q) /\ Tail(q)[i - 1] = q[i]
           /\ DOMAIN Tail(q) \subseteq Nat /\ DOMAIN q \subseteq Nat
OBVIOUS

\* A writer that returns from its wait preserves it: it leaves the queue it heads.
LEMMA LockAwakeIInv ==
    ASSUME IInv, NEW t \in Threads, LockAwake(t) PROVE IInv'
<1> USE LockAssumption
<1>0. pc[t] = "waitLock" /\ t \notin asleep BY DEF LockAwake
<1>1. CASE MustWaitToLock(t, pendingWriters)
  <2>1. /\ asleep' = asleep \cup {t}
        /\ UNCHANGED <<readers, writers, pendingReaders, pendingWriters, locking,
                       threadedReaders, pc>>
    BY <1>1 DEF LockAwake
  <2>2. Shares' = Shares /\ InSharedWait' = InSharedWait BY <2>1 DEF Shares, InSharedWait
  <2>3. TypeOK' /\ Auxiliary' /\ CountersAgree'
    BY <1>0, <2>1, <2>2 DEF IInv, TypeOK, Auxiliary, CountersAgree
  <2>4. Exclusion' /\ WaitersHoldNothing' /\ QueueIsWaiters'
    BY <2>1 DEF IInv, Exclusion, WaitersHoldNothing, QueueIsWaiters, Level
  <2>5. NoLostWakeup'
    BY <1>0, <1>1, <2>1 DEF IInv, TypeOK, NoLostWakeup, MustWaitToLock
  <2>6. QED BY <2>3, <2>4, <2>5 DEF IInv
<1>2. CASE ~MustWaitToLock(t, pendingWriters)
  <2>1. /\ pendingWriters' = Tail(pendingWriters)
        /\ pc' = [pc EXCEPT ![t] = "outside"]
        /\ writers' = writers + 1
        /\ locking' = t
        /\ UNCHANGED <<readers, pendingReaders, threadedReaders, asleep>>
    BY <1>2 DEF LockAwake, AcquireLock
  <2>2. readers = 0 /\ writers = 0 /\ Head(pendingWriters) = t
    BY <1>2 DEF MustWaitToLock, IInv, TypeOK
  <2>3. pendingWriters # <<>>
    BY <1>0 DEF IInv, QueueIsWaiters
  <2>4. \A u \in Threads : threadedReaders[u] = 0
    BY <2>2, NoReadersNoShares DEF IInv, Auxiliary
  <2>5. Shares' = Shares /\ InSharedWait' = InSharedWait
    BY <1>0, <2>1 DEF Shares, InSharedWait, IInv, TypeOK
  <2>6. TypeOK' BY <2>1, <2>3, PopFront DEF IInv, TypeOK
  <2>7. CountersAgree'
    <3>1. writers' > 0 /\ locking' # NoThread
      BY <2>1, <2>2
    <3>2. readers' = Cardinality(Shares') /\ pendingReaders' = Cardinality(InSharedWait')
      BY <2>1, <2>5 DEF IInv, CountersAgree
    <3>3. \A u \in Threads : threadedReaders'[u] <= MaxDepth
      BY <2>1 DEF IInv, CountersAgree
    <3>4. QED BY <3>1, <3>2, <3>3 DEF CountersAgree
  <2>a. Auxiliary'
    BY <1>0, <2>1, <2>5 DEF IInv, TypeOK, Auxiliary
  <2>8. Exclusion' /\ WaitersHoldNothing'
    BY <2>1, <2>4 DEF IInv, TypeOK, Exclusion, WaitersHoldNothing, Level
  <2>9. QueueIsWaiters'
    <3> DEFINE q == pendingWriters
    <3>1. q \in Seq(Threads) BY DEF IInv, TypeOK
    <3>2. /\ q[1] = t /\ 1 \in DOMAIN q
          /\ \A i \in DOMAIN Tail(q) : i \in Nat /\ i + 1 \in DOMAIN q /\ Tail(q)[i] = q[i + 1]
          /\ \A i \in DOMAIN q : i # 1 => i \in Nat /\ i - 1 \in DOMAIN Tail(q) /\ Tail(q)[i - 1] = q[i]
      BY <2>2, <2>3, <3>1, PopFront
    <3>3. \A i, j \in DOMAIN q : q[i] = q[j] => i = j
      BY DEF IInv, QueueIsWaiters
    <3>4. \A i, j \in DOMAIN Tail(q) : Tail(q)[i] = Tail(q)[j] => i = j
      BY <3>2, <3>3
    <3>5. \A i \in DOMAIN Tail(q) : Tail(q)[i] # t
      BY <3>2, <3>3
    <3>6. ASSUME NEW u \in Threads
          PROVE  pc'[u] = "waitLock" <=> \E i \in DOMAIN Tail(q) : Tail(q)[i] = u
      <4>1. CASE u = t
        BY <2>1, <3>5, <4>1 DEF IInv, TypeOK
      <4>2. CASE u # t
        <5>1. pc'[u] = pc[u] BY <2>1, <4>2 DEF IInv, TypeOK
        <5>2. pc[u] = "waitLock" <=> \E i \in DOMAIN q : q[i] = u
          BY DEF IInv, QueueIsWaiters
        <5>3. (\E i \in DOMAIN q : q[i] = u) <=> \E i \in DOMAIN Tail(q) : Tail(q)[i] = u
          BY <3>2, <4>2, ZenonT(30)
        <5>4. QED BY <5>1, <5>2, <5>3
      <4>3. QED BY <4>1, <4>2
    <3>7. QED BY <2>1, <3>4, <3>6 DEF QueueIsWaiters
  <2>10. NoLostWakeup' BY <2>1, <2>2 DEF NoLostWakeup
  <2>11. QED BY <2>6, <2>7, <2>8, <2>9, <2>10, <2>a DEF IInv
<1>3. QED BY <1>1, <1>2

\* unlock preserves it: the last release wakes the front writer, or the readers.
LEMMA UnlockIInv ==
    ASSUME IInv, NEW t \in Threads, Unlock(t) PROVE IInv'
<1> USE LockAssumption
<1>0. /\ pc[t] = "outside" /\ threadedReaders[t] = 0 /\ locking = t /\ writers' = writers - 1
      /\ UNCHANGED <<readers, pendingReaders, pendingWriters, threadedReaders, pc>>
  BY DEF Unlock
<1>1. writers > 0 BY <1>0 DEF IInv, CountersAgree
<1>2. Shares' = Shares /\ InSharedWait' = InSharedWait BY <1>0 DEF Shares, InSharedWait
<1>3. QueueIsWaiters' BY <1>0 DEF IInv, QueueIsWaiters
<1>4. CASE writers' > 0
  <2>1. UNCHANGED <<locking, asleep>> BY <1>4 DEF Unlock
  <2>2. TypeOK' /\ Auxiliary' /\ CountersAgree'
    BY <1>0, <1>1, <1>2, <1>4, <2>1 DEF IInv, TypeOK, Auxiliary, CountersAgree
  <2>3. Exclusion' /\ WaitersHoldNothing'
    BY <1>0, <2>1 DEF IInv, Exclusion, WaitersHoldNothing, Level
  <2>4. NoLostWakeup' BY <1>0, <1>4, <2>1 DEF NoLostWakeup
  <2>5. QED BY <1>3, <2>2, <2>3, <2>4 DEF IInv
<1>5. CASE writers' = 0
  <2>1. /\ locking' = NoThread
        /\ asleep' = IF pendingWriters # <<>> THEN NotifyWriters
                     ELSE IF pendingReaders > 0 THEN NotifyReaders
                     ELSE asleep
    BY <1>5 DEF Unlock
  <2>2. asleep' \subseteq asleep
    BY <2>1, FrontNotified DEF IInv, NotifyReaders
  <2>3. TypeOK' /\ Auxiliary' /\ CountersAgree'
    BY <1>0, <1>2, <1>5, <2>1, <2>2 DEF IInv, TypeOK, Auxiliary, CountersAgree
  <2>4. Exclusion' /\ WaitersHoldNothing'
    BY <1>0, <2>1 DEF IInv, TypeOK, Exclusion, WaitersHoldNothing, Level
  <2>5. pendingReaders = 0 => \A u \in Threads : pc[u] # "waitShared"
    <3>1. pendingReaders = 0 => InSharedWait = {}
      BY FS_EmptySet, Zenon DEF IInv, Auxiliary, CountersAgree
    <3>2. QED BY <3>1 DEF InSharedWait
  <2>6. NoLostWakeup'
    BY <1>0, <2>1, <2>2, <2>5, FrontNotified DEF IInv, TypeOK, NoLostWakeup, NotifyReaders
  <2>7. QED BY <1>3, <2>3, <2>4, <2>6 DEF IInv
<1>6. QED BY <1>0, <1>1, <1>4, <1>5 DEF IInv, TypeOK

\* A wait that returns for no reason preserves it.
LEMMA SpuriousWakeupIInv ==
    ASSUME IInv, NEW t \in Threads, SpuriousWakeup(t) PROVE IInv'
<1>1. /\ asleep' = asleep \ {t}
      /\ UNCHANGED <<readers, writers, pendingReaders, pendingWriters, locking,
                     threadedReaders, pc>>
  BY DEF SpuriousWakeup
<1>2. Shares' = Shares /\ InSharedWait' = InSharedWait BY <1>1 DEF Shares, InSharedWait
<1>3. TypeOK' /\ Auxiliary' /\ CountersAgree'
  BY <1>1, <1>2 DEF IInv, TypeOK, Auxiliary, CountersAgree
<1>4. Exclusion' /\ WaitersHoldNothing' /\ QueueIsWaiters' /\ NoLostWakeup'
  BY <1>1 DEF IInv, Exclusion, WaitersHoldNothing, QueueIsWaiters, NoLostWakeup, Level
<1>5. QED BY <1>3, <1>4 DEF IInv

\* The invariant is inductive.
LEMMA NextIInv == IInv /\ [Next]_vars => IInv'
<1> SUFFICES ASSUME IInv, [Next]_vars PROVE IInv'
  OBVIOUS
<1>1. ASSUME NEW t \in Threads, LockShared(t) PROVE IInv'
  BY <1>1, LockSharedIInv
<1>2. ASSUME NEW t \in Threads, LockSharedAwake(t) PROVE IInv'
  BY <1>2, LockSharedAwakeIInv, SMTT(30)
<1>3. ASSUME NEW t \in Threads, UnlockShared(t) PROVE IInv'
  BY <1>3, UnlockSharedIInv
<1>4. ASSUME NEW t \in Threads, Lock(t) PROVE IInv'
  BY <1>4, LockIInv
<1>5. ASSUME NEW t \in Threads, LockAwake(t) PROVE IInv'
  BY <1>5, LockAwakeIInv
<1>6. ASSUME NEW t \in Threads, Unlock(t) PROVE IInv'
  BY <1>6, UnlockIInv
<1>7. ASSUME NEW t \in Threads, SpuriousWakeup(t) PROVE IInv'
  BY <1>7, SpuriousWakeupIInv
<1>8. CASE UNCHANGED vars
  BY <1>8 DEF vars, IInv, TypeOK, Auxiliary, CountersAgree, Exclusion, WaitersHoldNothing,
              QueueIsWaiters, NoLostWakeup, Shares, InSharedWait, Level
<1>9. QED BY <1>1, <1>2, <1>3, <1>4, <1>5, <1>6, <1>7, <1>8 DEF Next

\* Every reachable state of the lock satisfies the inductive invariant.
THEOREM Invariance == Spec => []IInv
BY InitIInv, NextIInv, PTL DEF Spec

\* Mutual exclusion holds for any number of threads, any nesting and both builds.
THEOREM LockExcludes == Spec => []Exclusion
<1>1. IInv => Exclusion BY DEF IInv
<1>2. QED BY <1>1, Invariance, PTL

\* No wake-up is ever lost: a free lock has an awake writer at the front of its
\* queue, and a sleeping reader has a writer to wake it.
THEOREM LockLosesNoWakeup == Spec => []NoLostWakeup
<1>1. IInv => NoLostWakeup BY DEF IInv
<1>2. QED BY <1>1, Invariance, PTL

\* The shared counters and the queue of writers describe the threads exactly.
THEOREM LockCountsExactly == Spec => [](CountersAgree /\ QueueIsWaiters)
<1>1. IInv => CountersAgree /\ QueueIsWaiters BY DEF IInv
<1>2. QED BY <1>1, Invariance, PTL

\* A waiting thread holds nothing, so no cycle of threads waits on this lock.
THEOREM LockWaitersHoldNothing == Spec => []WaitersHoldNothing
<1>1. IInv => WaitersHoldNothing BY DEF IInv
<1>2. QED BY <1>1, Invariance, PTL

\* A thread that holds nothing gains no share while a writer waits (Lock.cpp:71).
THEOREM LockReadersYield == Spec => ReadersYield
<1>1. IInv /\ [Next]_vars => [ReaderYields]_vars
  <2> SUFFICES ASSUME IInv, Next, NEW u \in Threads,
                      threadedReaders'[u] > threadedReaders[u], pendingWriters # <<>>
               PROVE  Level(u) # "None"
    BY DEF ReaderYields
  <2> USE LockAssumption
  <2>0. TypeOK /\ CountersAgree BY DEF IInv
  <2>1. PICK t \in Threads : LockShared(t) \/ LockSharedAwake(t) \/ UnlockShared(t) \/ Lock(t)
                              \/ LockAwake(t) \/ Unlock(t) \/ SpuriousWakeup(t)
    BY DEF Next
  <2>2. CASE LockShared(t) \/ LockSharedAwake(t)
    <3>1. AcquireShared(t) /\ ~MustWaitToShare(t)
      BY <2>0, <2>2 DEF LockShared, LockSharedAwake, TypeOK
    <3>2. u = t
      BY <2>0, <3>1 DEF AcquireShared, TypeOK
    <3>3. QED BY <2>0, <3>1, <3>2 DEF MustWaitToShare, Level, TypeOK
  <2>3. CASE UnlockShared(t)
    BY <2>0, <2>3 DEF UnlockShared, TypeOK
  <2>4. CASE Lock(t) \/ LockAwake(t) \/ Unlock(t) \/ SpuriousWakeup(t)
    BY <2>0, <2>4 DEF Lock, LockAwake, AcquireLock, Unlock, SpuriousWakeup, TypeOK
  <2>5. QED BY <2>1, <2>2, <2>3, <2>4
<1>2. QED BY <1>1, Invariance, PTL DEF Spec, ReadersYield

\* Writers enter first come, first served.
THEOREM LockWritersInOrder == Spec => WritersInOrder
<1>1. IInv /\ [Next]_vars => [FirstWriterEnters]_vars
  <2> SUFFICES ASSUME IInv, Next, locking' # locking, locking' # NoThread,
                      pendingWriters # <<>>
               PROVE  locking' = Head(pendingWriters)
    BY DEF FirstWriterEnters
  <2>1. PICK t \in Threads : LockShared(t) \/ LockSharedAwake(t) \/ UnlockShared(t) \/ Lock(t)
                              \/ LockAwake(t) \/ Unlock(t) \/ SpuriousWakeup(t)
    BY DEF Next
  <2>2. CASE Lock(t)
    <3>1. AcquireLock(t) /\ ~MustWaitToLock(t, Append(pendingWriters, t))
      BY <2>2 DEF Lock, AcquireLock
    <3>2. Head(Append(pendingWriters, t)) = Head(pendingWriters)
      BY PushBack DEF IInv, TypeOK
    <3>3. QED BY <3>1, <3>2 DEF MustWaitToLock, AcquireLock
  <2>3. CASE LockAwake(t)
    BY <2>3 DEF LockAwake, MustWaitToLock, AcquireLock
  <2>4. CASE LockShared(t) \/ LockSharedAwake(t) \/ UnlockShared(t) \/ Unlock(t)
             \/ SpuriousWakeup(t)
    BY <2>4 DEF LockShared, LockSharedAwake, AcquireShared, UnlockShared, Unlock, SpuriousWakeup
  <2>5. QED BY <2>1, <2>2, <2>3, <2>4
<1>2. QED BY <1>1, Invariance, PTL DEF Spec, WritersInOrder

-----------------------------------------------------------------------------
\* Every step of the lock is a step of the abstract lock, or invisible to it.
LEMMA RWStep == IInv /\ [Next]_vars => [RW!RWNext]_RW!rwVars
<1> SUFFICES ASSUME IInv, [Next]_vars PROVE [RW!RWNext]_RW!rwVars
  OBVIOUS
<1> USE LockAssumption
<1>1. ASSUME NEW t \in Threads, AcquireShared(t), locking \in {NoThread, t}
      PROVE  RW!Share(t)
  BY <1>1 DEF AcquireShared, RW!Share
<1>2. ASSUME NEW t \in Threads, AcquireLock(t), threadedReaders[t] = 0,
             locking = t \/ (readers = 0 /\ writers = 0)
      PROVE  RW!Acquire(t)
  <2>1. readers = 0 => \A u \in Threads : threadedReaders[u] = 0
    BY NoReadersNoShares DEF IInv, Auxiliary
  <2>2. writers = 0 => locking = NoThread
    BY DEF IInv, CountersAgree
  <2>3. QED BY <1>2, <2>1, <2>2 DEF AcquireLock, RW!Acquire
<1>3. ASSUME NEW t \in Threads, LockShared(t) PROVE RW!Share(t) \/ UNCHANGED RW!rwVars
  <2>1. ~MustWaitToShare(t) => locking \in {NoThread, t}
    BY DEF MustWaitToShare, IInv, CountersAgree, TypeOK
  <2>2. QED BY <1>1, <1>3, <2>1 DEF LockShared, RW!rwVars
<1>4. ASSUME NEW t \in Threads, LockSharedAwake(t) PROVE RW!Share(t) \/ UNCHANGED RW!rwVars
  <2>1. writers = 0 => locking = NoThread
    BY DEF IInv, CountersAgree
  <2>2. QED BY <1>1, <1>4, <2>1 DEF LockSharedAwake, RW!rwVars
<1>5. ASSUME NEW t \in Threads, UnlockShared(t) PROVE RW!Unshare(t)
  BY <1>5 DEF UnlockShared, RW!Unshare
<1>6. ASSUME NEW t \in Threads, Lock(t) PROVE RW!Acquire(t) \/ UNCHANGED RW!rwVars
  <2>1. ~MustWaitToLock(t, Append(pendingWriters, t)) => readers = 0 /\ writers = 0
    BY DEF MustWaitToLock, IInv, TypeOK
  <2>2. QED BY <1>2, <1>6, <2>1 DEF Lock, RW!rwVars
<1>7. ASSUME NEW t \in Threads, LockAwake(t) PROVE RW!Acquire(t) \/ UNCHANGED RW!rwVars
  <2>1. ~MustWaitToLock(t, pendingWriters) => readers = 0 /\ writers = 0
    BY DEF MustWaitToLock, IInv, TypeOK
  <2>2. threadedReaders[t] = 0
    BY <1>7 DEF LockAwake, IInv, TypeOK, WaitersHoldNothing, Level
  <2>3. QED BY <1>2, <1>7, <2>1, <2>2 DEF LockAwake, RW!rwVars
<1>8. ASSUME NEW t \in Threads, Unlock(t) PROVE RW!Release(t)
  BY <1>8 DEF Unlock, RW!Release, IInv, TypeOK
<1>9. ASSUME NEW t \in Threads, SpuriousWakeup(t) PROVE UNCHANGED RW!rwVars
  BY <1>9 DEF SpuriousWakeup, RW!rwVars
<1>10. CASE UNCHANGED vars
  BY <1>10 DEF vars, RW!rwVars
<1>11. QED
  BY <1>3, <1>4, <1>5, <1>6, <1>7, <1>8, <1>9, <1>10 DEF Next, RW!RWNext

\* SharedLock implements the abstract reentrant read-write lock.
THEOREM LockImplementsReadWriteLock == Spec => ImplementsReadWriteLock
<1>1. Init => RW!RWInit
  BY DEF Init, RW!RWInit
<1>2. QED BY <1>1, RWStep, Invariance, PTL DEF Spec, ImplementsReadWriteLock, RW!RWSpec
=============================================================================
