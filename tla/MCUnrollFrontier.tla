-------------------------- MODULE MCUnrollFrontier --------------------------
(* Mixed: loops of every kind, those that can disappear apart from each other.  *)
(* Siblings: two of them side by side.                                          *)
EXTENDS UnrollFrontier

At(header, kind) == [header |-> header, kind |-> kind, unrolled |-> FALSE]

Mixed == <<<<At(10, "full"), At(20, "opaque"), At(30, "full"), At(40, "partial")>>,
           <<At(50, "partial")>>>>

Siblings == <<<<At(10, "full"), At(20, "full")>>>>

MCOne == {1}
MCTwo == {1, 2}
MCLanes == {4}

MCCharges == {[functions |-> <<f>>, proposer |-> 2, checker |-> 1] : f \in Functions0}
MCBudget == [f \in Functions0 |-> [proposer |-> 9, checker |-> 3]]
=============================================================================
