CONSTANTS
    c2 = c2
    Tasks = {t1, t2}
    Closers = {c1, c2}
    Setups <- MCSetups
SPECIFICATION ClosingFairSpec
INVARIANT BackupIsSuspended
PROPERTY CloseCompletes
