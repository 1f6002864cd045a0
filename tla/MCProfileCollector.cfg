CONSTANTS
    t1 = t1
    t2 = t2
    c1 = c1
    c2 = c2
    Threads <- MCThreads
    Cells <- MCCells
    Max = 3
    Scripts <- MCScripts
    RunIds = {r1, r2}
    MaxAttempts = 2
    MaxFlushes = 1
    MaxFaults = 2
    NoShard = NoShard
    Foreign = Foreign
SPECIFICATION Spec
INVARIANTS TypeOK FlushedOnce NoTemporaryStays
PROPERTIES CountsSaturate CallsReturn
\* Every job is done and every flush returned, or the process was killed.
CHECK_DEADLOCK FALSE
