CONSTANTS
    f1 = f1
    f2 = f2
    c = c
    k1 = k1
    k2 = k2
    k3 = k3
    entry = entry
    better = better
    broken = broken
    FunctionIds <- MCFunctionIds
    Functions0 <- MCFunctions0
    Keys <- MCKeys
    Charges <- MCCharges
    Programs <- MCPrograms
    Verified <- MCVerified
    EntryProgram = entry
    Budget <- MCBudget
SPECIFICATION Spec
SYMMETRY Symmetry
INVARIANTS TypeOK ProgramIsVerified NoKeyTwice LedgerBalance
PROPERTIES ProgramMovesOnlyByCommit ExhaustionIsAtomic
\* The pipeline stops on its first CompilerError.
CHECK_DEADLOCK FALSE
