CONSTANTS
    Functions0 <- MCOne
    Loops0 <- Siblings
    SlpLanes <- MCLanes
    Charges <- MCCharges
    Budget <- MCBudget
SPECIFICATION Spec
INVARIANT KeysAreFresh
CHECK_DEADLOCK FALSE
