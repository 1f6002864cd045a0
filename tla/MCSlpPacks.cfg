CONSTANTS
    Functions0 <- MCFunctions0
    FunctionIds <- MCFunctionIds
    Entries <- MCMemoryEntries
    Units <- MCUnits
    Budget <- MCAmple
    PerOriginal = 1
    PerModule = 2
SPECIFICATION Spec
INVARIANT OnlyBrokenTrialsEndTheCompile
\* The pipeline ends.
CHECK_DEADLOCK FALSE
