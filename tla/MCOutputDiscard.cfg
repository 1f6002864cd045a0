CONSTANTS
    exe = exe
    profile = profile
    header = header
    Destinations <- MCDestinations
    RequestLists <- MCRequestLists
    FaultyOps <- AllOps
    MaxFaults = 1
SPECIFICATION Spec
INVARIANT OutputsMoveTogether
\* The command ends.
CHECK_DEADLOCK FALSE
