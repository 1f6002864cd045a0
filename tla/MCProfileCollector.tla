------------------------- MODULE MCProfileCollector -------------------------
(* Two threads on two-bit cells: additions that fit, that wrap, that wrap a   *)
(* cell twice, a zero and a trip count too wide; two run ids for everybody.   *)
EXTENDS ProfileCollector

CONSTANTS t1, t2, c1, c2

MCThreads == {t1, t2}
MCCells == {c1, c2}

Job0(cell, value) == [cell |-> cell, value |-> value, wide |-> FALSE]
Wide(cell) == [cell |-> cell, value |-> 1, wide |-> TRUE]

MCScripts ==
    {[t \in MCThreads |-> IF t = t1 THEN <<Job0(c1, 3), Job0(c1, 3)>>
                          ELSE <<Job0(c1, 2), Job0(c1, 1)>>],
     [t \in MCThreads |-> IF t = t1 THEN <<Job0(c1, 2), Wide(c2)>>
                          ELSE <<Job0(c1, 1), Job0(c2, 0)>>]}
=============================================================================
