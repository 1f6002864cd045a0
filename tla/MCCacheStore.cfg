CONSTANTS
    obj = obj
    other = other
    bun = bun
    d1 = d1
    d2 = d2
    d3 = d3
    c1 = c1
    Runners = {r1, r2}
    Cleaners = {c1}
    Builds <- MCBuilds
    Setups <- MCSetups
    MaxDamage = 1
    NoFile = NoFile
    Torn = Torn
SPECIFICATION Spec
INVARIANTS TypeOK TemporariesAreOwned HitIsWhole PublishedIsComplete WithinSoftLimit
PROPERTY EveryProcessEnds
\* Every process ends.
CHECK_DEADLOCK FALSE
