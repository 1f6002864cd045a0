------------------------- MODULE MCOptimizationAudit -------------------------
(* Two functions and a clone slot; charges that fit, that share an owner once *)
(* the clone exists, that span two functions, and a malformed one.            *)
EXTENDS OptimizationAudit, TLC

CONSTANTS f1, f2, c, k1, k2, k3, entry, better, broken

MCFunctionIds == {f1, f2, c}
MCFunctions0 == {f1, f2}
MCKeys == {k1, k2, k3}
MCPrograms == {entry, better, broken}
MCVerified == {entry, better}
MCBudget == [f \in MCFunctions0 |-> IF f = f1 THEN [proposer |-> 3, checker |-> 3]
                                    ELSE [proposer |-> 2, checker |-> 4]]

Ask(functions, proposer, checker) ==
    [functions |-> functions, proposer |-> proposer, checker |-> checker]

MCCharges == {Ask(<<f1>>, 1, 2), Ask(<<f1, f2>>, 2, 1), Ask(<<f1, c>>, 1, 1),
              Ask(<<f2, f2>>, 1, 1)}

\* Keys are interchangeable labels: nothing orders or names one of them.
Symmetry == Permutations(MCKeys)
=============================================================================
