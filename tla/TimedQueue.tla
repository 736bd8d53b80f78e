----------------------------- MODULE TimedQueue -----------------------------
(* TimedQueue.hpp: a list of keyed entries ordered by the time they expire,  *)
(* filled by callers and emptied by one thread in loop, which sleeps until   *)
(* the first entry expires.  Callers notify after they gave the lock back.   *)
EXTENDS Integers, Sequences, SequencesExt

CONSTANTS
    Keys, Infos,
    Callers,
    Delays,     \* delays an entry is queued with
    MaxTime     \* bound: the clock ends at MaxTime, where nobody queues any more

ASSUME QueueConstants == Keys # {} /\ Infos # {} /\ Delays \subseteq Nat /\ MaxTime \in Nat

VARIABLES
    list,       \* m_list: entries [key, info, order]
    clock,      \* SteadyClock::now()
    stopped,    \* m_stop
    exiting,    \* isExiting()
    pc,         \* the thread in loop: "top", "wait", "run" or "ended"
    deadline,   \* the end of its wait_for, Never for wait
    current,    \* the entry it runs
    notifies    \* callers that have still to notify

vars == <<list, clock, stopped, exiting, pc, deadline, current, notifies>>

Never == MaxTime + 1

Entries == [key : Keys, info : Infos, order : 0..MaxTime]

NoEntry == [key |-> CHOOSE k \in Keys : TRUE, info |-> CHOOSE i \in Infos : TRUE, order |-> 0]

Find(l, key) == {i \in DOMAIN l : l[i].key = key}

Erased(l, key) == IF Find(l, key) = {} THEN l ELSE RemoveAt(l, CHOOSE i \in Find(l, key) : TRUE)

\* The place of the first entry with a greater order, or after the last one.
PlaceFor(l, order) ==
    CHOOSE i \in 1..Len(l) + 1 :
        /\ \A j \in 1..i - 1 : l[j].order <= order
        /\ i <= Len(l) => order < l[i].order

\* UniqueList::insert: the entry of the key is replaced.
Inserted(l, e) ==
    LET rest == Erased(l, e.key)
    IN  InsertAt(rest, PlaceFor(rest, e.order), e)

----------------------------------------------------------------------------
(* Callers.                                                                 *)

BugQueue(c, key, info, delay) ==
    LET expired == clock + delay
    IN  /\ c \notin notifies /\ ~exiting /\ ~stopped /\ clock < MaxTime /\ expired <= MaxTime
        /\ \/ /\ \E i \in Find(list, key) : list[i].order < expired
              /\ list' = [i \in DOMAIN list |->
                            IF list[i].key = key THEN [list[i] EXCEPT !.info = info] ELSE list[i]]
              /\ UNCHANGED notifies
           \/ /\ ~\E i \in Find(list, key) : list[i].order < expired
              /\ list' = Inserted(list, [key |-> key, info |-> info, order |-> expired])
              /\ notifies' = IF list = <<>> THEN notifies \cup {c} ELSE notifies
        /\ UNCHANGED <<clock, stopped, exiting, pc, deadline, current>>

\* queue in mode ForwardOnly, the only one in use: the part under the lock.
Queue(c, key, info, delay) ==
    LET expired == clock + delay
    IN  /\ c \notin notifies /\ ~exiting /\ ~stopped /\ clock < MaxTime /\ expired <= MaxTime
        /\ \/ /\ \E i \in Find(list, key) : list[i].order < expired
              /\ list' = [i \in DOMAIN list |->
                            IF list[i].key = key THEN [list[i] EXCEPT !.info = info] ELSE list[i]]
              /\ UNCHANGED notifies
           \/ /\ ~\E i \in Find(list, key) : list[i].order < expired
              /\ list' = Inserted(list, [key |-> key, info |-> info, order |-> expired])
              /\ notifies' = IF Head(list').key = key THEN notifies \cup {c} ELSE notifies
        /\ UNCHANGED <<clock, stopped, exiting, pc, deadline, current>>

\* notify_one wakes the thread if it waits at this moment.
Notify(c) ==
    /\ c \in notifies
    /\ notifies' = notifies \ {c}
    /\ pc' = IF pc = "wait" THEN "top" ELSE pc
    /\ UNCHANGED <<list, clock, stopped, exiting, deadline, current>>

RemoveEntry(c, key) ==
    /\ c \notin notifies /\ ~stopped /\ Find(list, key) # {}
    /\ list' = Erased(list, key)
    /\ UNCHANGED <<clock, stopped, exiting, pc, deadline, current, notifies>>

BugStop(c) ==
    /\ c \notin notifies /\ ~stopped
    /\ list' = <<>> /\ stopped' = TRUE
    /\ UNCHANGED <<clock, exiting, pc, deadline, current, notifies>>

\* stop; queue and remove call it too once the process exits.
Stop(c) ==
    /\ c \notin notifies /\ ~stopped
    /\ list' = <<>> /\ stopped' = TRUE
    /\ notifies' = notifies \cup {c}
    /\ UNCHANGED <<clock, exiting, pc, deadline, current>>

Exit ==
    /\ ~exiting
    /\ exiting' = TRUE
    /\ UNCHANGED <<list, clock, stopped, pc, deadline, current, notifies>>

----------------------------------------------------------------------------
(* The thread in loop.                                                      *)

End ==
    /\ pc = "top" /\ (exiting \/ stopped)
    /\ pc' = "ended"
    /\ UNCHANGED <<list, clock, stopped, exiting, deadline, current, notifies>>

BugWait ==
    /\ pc = "top" /\ ~exiting /\ ~stopped
    /\ list # <<>> => Head(list).order > clock
    /\ deadline' = Never
    /\ pc' = "wait"
    /\ UNCHANGED <<list, clock, stopped, exiting, current, notifies>>

Wait ==
    /\ pc = "top" /\ ~exiting /\ ~stopped
    /\ list # <<>> => Head(list).order > clock
    /\ deadline' = IF list = <<>> THEN Never ELSE Head(list).order
    /\ pc' = "wait"
    /\ UNCHANGED <<list, clock, stopped, exiting, current, notifies>>

\* The time is over, or a spurious wake-up.
WakeUp ==
    /\ pc = "wait"
    /\ pc' = "top"
    /\ UNCHANGED <<list, clock, stopped, exiting, deadline, current, notifies>>

TakeExpired ==
    /\ pc = "top" /\ ~exiting /\ ~stopped /\ list # <<>>
    /\ Head(list).order <= clock
    /\ current' = Head(list) /\ list' = Tail(list)
    /\ pc' = "run"
    /\ UNCHANGED <<clock, stopped, exiting, deadline, notifies>>

\* onElementExpired returns, or is left out because the process exits.
Expired ==
    /\ pc = "run"
    /\ pc' = "top" /\ current' = NoEntry
    /\ UNCHANGED <<list, clock, stopped, exiting, deadline, notifies>>

Tick ==
    /\ clock < MaxTime
    /\ clock' = clock + 1
    /\ UNCHANGED <<list, stopped, exiting, pc, deadline, current, notifies>>

----------------------------------------------------------------------------
Init ==
    /\ list = <<>> /\ clock = 0
    /\ stopped = FALSE /\ exiting = FALSE
    /\ pc = "top" /\ deadline = Never /\ current = NoEntry
    /\ notifies = {}

Next ==
    \/ \E c \in Callers, key \in Keys, info \in Infos, delay \in Delays :
          Queue(c, key, info, delay)
    \/ \E c \in Callers : Notify(c) \/ Stop(c)
    \/ \E c \in Callers, key \in Keys : RemoveEntry(c, key)
    \/ Exit \/ End \/ Wait \/ WakeUp \/ TakeExpired \/ Expired \/ Tick

Spec == Init /\ [][Next]_vars

TimedOut == WakeUp /\ deadline <= clock

\* Threads go on, time passes, and a wait ends at its deadline.
FairSpec ==
    /\ Spec
    /\ WF_vars(Tick) /\ WF_vars(TimedOut)
    /\ WF_vars(End \/ Wait \/ TakeExpired) /\ WF_vars(Expired)
    /\ \A c \in Callers : WF_vars(Notify(c))

----------------------------------------------------------------------------
(* Properties.                                                              *)

\* Types of the state.
TypeOK ==
    /\ list \in Seq(Entries) /\ clock \in 0..MaxTime
    /\ stopped \in BOOLEAN /\ exiting \in BOOLEAN
    /\ pc \in {"top", "wait", "run", "ended"}
    /\ deadline \in 0..Never /\ current \in Entries /\ notifies \subseteq Callers

\* The thread never sleeps past the first entry, unless a caller is about to
\* wake it: no wake-up is lost between insertion and notification.
SleepsNotTooLong ==
    pc = "wait" /\ notifies = {} /\ list # <<>> => deadline <= Head(list).order

\* Every entry expires or is removed: none is left in the list for ever.
EveryEntryLeaves ==
    \A key \in Keys : [](Find(list, key) # {} => <>(Find(list, key) = {} \/ exiting))

\* After stop the thread in loop ends: it does not sleep on.
StopEnds == stopped ~> pc = "ended"
=============================================================================
