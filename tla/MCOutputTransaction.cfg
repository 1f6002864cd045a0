CONSTANTS
    exe = exe
    profile = profile
    header = header
    Destinations <- MCDestinations
    RequestLists <- MCRequestLists
    FaultyOps <- AllOps
    MaxFaults = 3
SPECIFICATION Spec
INVARIANTS SuccessReplacesAll FailureRestoresAll NothingLost
\* The command ends.
CHECK_DEADLOCK FALSE
