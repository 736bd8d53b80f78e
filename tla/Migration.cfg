CONSTANTS
    t1 = t1
    t2 = t2
    h1 = h1
    h2 = h2
    s1 = s1
    s2 = s2
    Tables = {t1, t2}
    Handles = {h1, h2}
    Steppers = {s1, s2}
    MaxRows = 1
    Setups <- MCSetups
SPECIFICATION FairSpec
INVARIANTS LifeOfInfo BoundSourceKept
PROPERTIES NeverAgain EverythingMigrates
