CONSTANTS
    Functions0 <- MCTwo
    Loops0 <- Mixed
    SlpLanes <- MCLanes
    Charges <- MCCharges
    Budget <- MCBudget
SPECIFICATION Spec
INVARIANTS KeysAreFresh EveryLoopTriedOnce
\* The frontier ends.
CHECK_DEADLOCK FALSE
