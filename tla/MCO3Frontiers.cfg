CONSTANTS
    Functions0 <- MCFunctions0
    FunctionIds <- MCFunctionIds
    Entries <- MCEntries
    Units <- MCUnits
    Budget <- MCBudget
    PerOriginal = 1
    PerModule = 2
SPECIFICATION Spec
INVARIANTS TypeOK ClonesShareBudget CloneLimits OnlyExhaustedPacksReturn OneWinnerPerBlock
\* The pipeline ends.
CHECK_DEADLOCK FALSE
