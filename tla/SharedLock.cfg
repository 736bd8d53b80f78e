CONSTANTS
    Threads = {t1, t2, t3, t4}
    NoThread = NoThread
    NotifyOne = TRUE
    MaxDepth = 2
SPECIFICATION FairSpec
INVARIANT NoLostWakeup
PROPERTIES ImplementsReadWriteLock WritersNotStarved
