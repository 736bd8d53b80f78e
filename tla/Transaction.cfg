CONSTANTS
    m = m
    a = a
    b = b
    Threads = {m, a, b}
    Main = m
    NoThread = NoThread
    Setups <- MCSetups
    Writes = {w1, w2}
    MaxDepth = 3
    MaxFaults = 2
    MaxSaves = 3
    Applications <- MCApplications
SPECIFICATION MCSpec
SYMMETRY Symmetry
INVARIANTS CommittedIsDurable FailedLeavesNothing CleanCallCommits TransactionEnds NoLostWakeup QuietMeansFree HolderSeesMainThread
