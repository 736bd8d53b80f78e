------------------------------ MODULE Closing ------------------------------
(***************************************************************************)
(* InnerDatabase::close against the interruptible tasks (auto checkpoint,   *)
(* backup, integrity check, migration, compression, merging of FTS indexes) *)
(* of core/InnerDatabase.cpp and core/fts/MergeFTSIndexLogic.cpp.            *)
(*                                                                         *)
(* A task runs with a share of the concurrency lock and a handle of the slot *)
(* AutoTask, from its flowOut on; close counts itself in m_closing, suspends *)
(* the handles of that slot, and drains the pool, which waits for all shares.*)
(* A task tests m_closing and marks its handle as suspendable, in an order   *)
(* that differs from task to task.  A drain that waits for the lock keeps    *)
(* new shares out (SharedLock!ReadersYield).                                 *)
(*                                                                         *)
(* A handle is named by the tasks that use it one after another.  The handle *)
(* of an earlier task is set up again outside m_memory, while a close may be *)
(* going through the slot: suspend reads the mark of a handle in one step    *)
(* and suspends or resumes it in a later one.                                *)
(***************************************************************************)
EXTENDS Naturals, FiniteSets

CONSTANTS Tasks,      \* the interruptible tasks, by the handle they use
          Closers,    \* the threads that close the database
          Setups      \* the kinds of task there are, and the closers that use a
                      \* handle themselves: drain refuses them

ASSUME ClosingAssumption ==
    /\ Tasks \cap Closers = {} /\ IsFiniteSet(Closers)
    /\ Setups \subseteq [kinds : SUBSET {"backup", "step"}, holding : SUBSET Closers]

VARIABLES setup,           \* one of Setups; it stays the same
          closing,         \* m_closing
          place,           \* where each task and each closer is
          backups,         \* the tasks whose current or last run is a backup
          slot,            \* tasks whose handle is in m_handles[HandleSlotAutoTask]
          canBeSuspended,  \* m_canBeSuspended of the handles
          suspended,       \* sqlite3_suspend of the handles
          pending,         \* the handles a closer in its loop has not come to yet
          reached          \* the one it is at, once it has read the mark

closingVars == <<setup, closing, place, backups, slot, canBeSuspended, suspended,
                 pending, reached>>
loopVars == <<pending, reached>>

TaskPlaces == {"idle", "share", "reuse", "resume", "ready", "between", "work", "return"}
LoopPlaces == {"loop", "suspending", "resuming"}
CloserPlaces == {"idle", "suspend", "drain", "drained"} \cup LoopPlaces

\* Types of the state.
ClosingTypeOK ==
    /\ closing \in Nat
    /\ place \in [Tasks \cup Closers -> TaskPlaces \cup CloserPlaces]
    /\ backups \subseteq Tasks
    /\ slot \subseteq Tasks
    /\ canBeSuspended \subseteq slot
    /\ suspended \subseteq slot
    /\ pending \in [Closers -> SUBSET slot]
    /\ reached \in [Closers -> SUBSET slot]

ClosingInit ==
    /\ setup \in Setups
    /\ closing = 0
    /\ place = [x \in Tasks \cup Closers |-> "idle"]
    /\ backups = {}
    /\ slot = {}
    /\ canBeSuspended = {}
    /\ suspended = {}
    /\ pending = [c \in Closers |-> {}]
    /\ reached = [c \in Closers |-> {}]

Move(x, p) == place' = [place EXCEPT ![x] = p]
Sharing == {t \in Tasks : place[t] # "idle"}

\* Nobody holds the concurrency lock, nor waits for it.
MayShare == \A c \in Closers \ setup.holding : place[c] \notin {"drain", "drained"}

\* No closer is in its loop, which has a share of m_memory.
MemoryFree == \A c \in Closers : place[c] \notin LoopPlaces

-----------------------------------------------------------------------------
\* initialize: the task has a share of the concurrency lock from here on.
TaskBegin(t) ==
    /\ place[t] = "idle"
    /\ MayShare
    /\ Move(t, "share")
    /\ \E kind \in setup.kinds :
          backups' = IF kind = "backup" THEN backups \cup {t} ELSE backups \ {t}
    /\ UNCHANGED <<setup, closing, slot, canBeSuspended, suspended, loopVars>>

\* flowOut under m_memory: a free handle is taken, to be set up again, or a new one,
\* which carries no mark, is put into the slot.
TaskTake(t) ==
    /\ place[t] = "share"
    /\ MemoryFree
    /\ Move(t, IF t \in slot THEN "reuse" ELSE "ready")
    /\ slot' = slot \cup {t}
    /\ UNCHANGED <<setup, closing, backups, canBeSuspended, suspended, loopVars>>

\* setupHandle calls markAsCanBeSuspended(false), which takes the mark back and
\* then the suspension.
TaskUnmark(t) ==
    /\ place[t] = "reuse"
    /\ canBeSuspended' = canBeSuspended \ {t}
    /\ Move(t, "resume")
    /\ UNCHANGED <<setup, closing, backups, slot, suspended, loopVars>>

TaskResume(t) ==
    /\ place[t] = "resume"
    /\ suspended' = suspended \ {t}
    /\ Move(t, "ready")
    /\ UNCHANGED <<setup, closing, backups, slot, canBeSuspended, loopVars>>

\* The handle cannot be configured or opened: a new one never enters the slot, one
\* that was reused leaves it.
TaskSetupFails(t) ==
    /\ place[t] = "resume" \/ (place[t] = "share" /\ t \notin slot)
    /\ MemoryFree
    /\ slot' = slot \ {t}
    /\ canBeSuspended' = canBeSuspended \ {t}
    /\ suspended' = suspended \ {t}
    /\ Move(t, "idle")
    /\ UNCHANGED <<setup, closing, backups, loopVars>>

\* checkShouldInterruptWhenClosing: the task returns its handle, or goes on.
Check(t, goesOnTo) ==
    /\ Move(t, IF closing # 0 THEN "return" ELSE goesOnTo)
    /\ UNCHANGED <<setup, closing, backups, slot, canBeSuspended, suspended, loopVars>>

\* markAsCanBeSuspended(true).
Mark(t, goesOnTo) ==
    /\ canBeSuspended' = canBeSuspended \cup {t}
    /\ Move(t, goesOnTo)
    /\ UNCHANGED <<setup, closing, backups, slot, suspended, loopVars>>

BugBackupChecksFirst(t) ==
    \/ place[t] = "ready" /\ Check(t, "between")
    \/ place[t] = "between" /\ Mark(t, "work")

\* backup marks its handle, then tests m_closing.
BackupPrepare(t) ==
    \/ place[t] = "ready" /\ Mark(t, "between")
    \/ place[t] = "between" /\ Check(t, "work")

\* Migration, compression, checkpoint, the integrity check and the merging of
\* indexes test m_closing, then mark the handle.
StepPrepare(t) ==
    \/ place[t] = "ready" /\ Check(t, "between")
    \/ place[t] = "between" /\ Mark(t, "work")

TaskPrepare(t) == IF t \in backups THEN BackupPrepare(t) ELSE StepPrepare(t)

\* The work of the task ends because its handle is suspended, or by itself.
TaskInterrupted(t) ==
    /\ place[t] = "work"
    /\ t \in suspended
    /\ Move(t, "return")
    /\ UNCHANGED <<setup, closing, backups, slot, canBeSuspended, suspended, loopVars>>

TaskFinish(t) ==
    /\ place[t] = "work"
    /\ Move(t, "return")
    /\ UNCHANGED <<setup, closing, backups, slot, canBeSuspended, suspended, loopVars>>

\* flowBack: the handle is free again, with its mark and its suspension.
TaskReturn(t) ==
    /\ place[t] = "return"
    /\ MemoryFree
    /\ Move(t, "idle")
    /\ UNCHANGED <<setup, closing, backups, slot, canBeSuspended, suspended, loopVars>>

-----------------------------------------------------------------------------
CloseBegin(c) ==
    /\ place[c] = "idle"
    /\ c \in setup.holding => \A d \in Closers : place[d] # "drained"
    /\ closing' = closing + 1
    /\ Move(c, "suspend")
    /\ UNCHANGED <<setup, backups, slot, canBeSuspended, suspended, loopVars>>

\* Under shares of both locks close goes through the handles of the slot.
CloseShare(c) ==
    /\ place[c] = "suspend"
    /\ MayShare \/ c \in setup.holding
    /\ \A d \in Closers : place[d] # "drained"
    /\ pending' = [pending EXCEPT ![c] = slot]
    /\ Move(c, "loop")
    /\ UNCHANGED <<setup, closing, backups, slot, canBeSuspended, suspended, reached>>

\* suspend(true) reads the mark of the next handle...
SuspendRead(c) ==
    /\ place[c] = "loop"
    /\ \E t \in pending[c] :
          /\ pending' = [pending EXCEPT ![c] = @ \ {t}]
          /\ reached' = [reached EXCEPT ![c] = {t}]
          /\ Move(c, IF t \in canBeSuspended THEN "suspending" ELSE "resuming")
    /\ UNCHANGED <<setup, closing, backups, slot, canBeSuspended, suspended>>

\* ...and suspends the handle if it was marked, or resumes it.
DoSuspend(c) ==
    /\ place[c] \in {"suspending", "resuming"}
    /\ suspended' = IF place[c] = "suspending" THEN suspended \cup reached[c]
                    ELSE suspended \ reached[c]
    /\ reached' = [reached EXCEPT ![c] = {}]
    /\ Move(c, "loop")
    /\ UNCHANGED <<setup, closing, backups, slot, canBeSuspended, pending>>

\* The shares are given back, and stopAllDatabaseEvent follows.
CloseUnshare(c) ==
    /\ place[c] = "loop"
    /\ pending[c] = {}
    /\ Move(c, "drain")
    /\ UNCHANGED <<setup, closing, backups, slot, canBeSuspended, suspended, loopVars>>

\* The users of other handles give them back in time (HandlePool).
CloseDrain(c) ==
    /\ place[c] = "drain"
    /\ c \notin setup.holding
    /\ Sharing = {} /\ MemoryFree /\ \A d \in setup.holding : place[d] = "idle"
    /\ \A d \in Closers : place[d] # "drained"
    /\ Move(c, "drained")
    /\ slot' = {}
    /\ canBeSuspended' = {}
    /\ suspended' = {}
    /\ UNCHANGED <<setup, closing, backups, loopVars>>

\* drain returns, after its callback or because it refused the thread.
CloseEnd(c) ==
    /\ place[c] = "drained" \/ (place[c] = "drain" /\ c \in setup.holding)
    /\ closing' = closing - 1
    /\ Move(c, "idle")
    /\ UNCHANGED <<setup, backups, slot, canBeSuspended, suspended, loopVars>>

TaskGoesOn(t) ==
    TaskUnmark(t) \/ TaskResume(t) \/ TaskPrepare(t) \/ TaskInterrupted(t)
TaskNext(t) ==
    \/ TaskBegin(t) \/ TaskTake(t) \/ TaskSetupFails(t)
    \/ TaskGoesOn(t) \/ TaskFinish(t) \/ TaskReturn(t)

CloserGoesOn(c) ==
    CloseShare(c) \/ SuspendRead(c) \/ DoSuspend(c) \/ CloseUnshare(c) \/ CloseEnd(c)
CloserNext(c) == CloseBegin(c) \/ CloserGoesOn(c) \/ CloseDrain(c)

ClosingNext == (\E t \in Tasks : TaskNext(t)) \/ (\E c \in Closers : CloserNext(c))

ClosingSpec == ClosingInit /\ [][ClosingNext]_closingVars

\* Threads run, a suspended SQLite handle fails, and the locks serve those that wait
\* to write (SharedLock!WritersNotStarved); nothing says that the work of a task ends
\* by itself, and nothing that a lock serves those that wait for a share.
ClosingFairness ==
    /\ \A t \in Tasks : WF_closingVars(TaskGoesOn(t))
                       /\ SF_closingVars(TaskTake(t) \/ TaskReturn(t))
    /\ \A c \in Closers : WF_closingVars(CloserGoesOn(c)) /\ SF_closingVars(CloseDrain(c))
ClosingFairSpec == ClosingSpec /\ ClosingFairness

-----------------------------------------------------------------------------
\* While a close waits for the tasks that run, every backup at work is suspended:
\* close saw its mark, or the backup saw m_closing.  And no suspension outlives the
\* closes, if drain refuses none of them: a close may act on a mark that was taken
\* back meanwhile, and suspend a task that has only just begun, but then the close
\* has not ended, and the drain that ends it clears the slot.
BackupIsSuspended ==
    /\ \A c \in Closers, t \in backups :
          place[c] = "drain" /\ place[t] = "work" => t \in suspended
    /\ setup.holding = {} /\ closing = 0 => suspended = {}

\* Every close ends, however long the work of the backups would take, if only
\* backups run, unless others drain the pool again and again: the other tasks may
\* miss the suspension.
CloseCompletes ==
    setup.kinds = {"backup"} =>
        \A c \in Closers :
            \/ place[c] = "suspend" ~> place[c] = "idle"
            \/ []<>(\E d \in Closers \ {c} : place[d] = "drained")
=============================================================================
