CONSTANTS
    d1 = d1
    d2 = d2
    w1 = w1
    w2 = w2
    Data = {d1, d2}
    Workshops = {w1, w2}
    FactorySetups <- MCSetups
SPECIFICATION FactorySpec
VIEW Shared
INVARIANTS DataNeverLost NothingPending
