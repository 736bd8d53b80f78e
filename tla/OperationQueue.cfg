CONSTANTS
    Keys = {k1, k2}
    Infos = {i1}
    Callers = {c1, c2}
    Delays = {0, 1, 2}
    MaxTime = 4
    t1 = t1
    t2 = t2
    f1 = f1
    f2 = f2
    Tolerable = 2
    Openers = {t1, t2}
    Files = {f1, f2}
    OperationSetups <- MCSetups
SPECIFICATION MCSpec
INVARIANTS SleepsNotTooLong NotRequiredNotQueued KeepsStepping
PROPERTIES EveryEntryLeaves StopEnds ConfirmedIsNotified
