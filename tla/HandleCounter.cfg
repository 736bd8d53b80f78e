CONSTANTS
    Requesters = {r1, r2, r3, r4}
    MaxHandles = 2
    MaxWriters = 1
    NotifyOne = FALSE
    Spurious = TRUE
SPECIFICATION FairSpec
INVARIANTS WithinLimits NotStranded
PROPERTY EverybodyServed
