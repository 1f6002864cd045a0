---------------------------- MODULE ProfileCounts ----------------------------
(***************************************************************************)
(* What profile collection promises: a counter per cell that saturates at  *)
(* the width of the cell and never loses an addition otherwise, and one    *)
(* shard per process that holds the counters as they were at one instant,  *)
(* flagged as soon as a count may be too low.                              *)
(***************************************************************************)
EXTENDS Naturals

CONSTANTS Cells, \* counter cells of the instrumented module
          Max    \* the largest value of a cell, UINT64_MAX in the code

VARIABLES count,      \* cell -> what was added to it, at most Max
          lost,       \* an addition went beyond Max
          incomplete, \* a trip count was too wide for its histogram
          published   \* the shards this process published

countsVars == <<count, lost, incomplete, published>>

Image == [counts : [Cells -> 0 .. Max], overflowed : BOOLEAN, incomplete : BOOLEAN]

CountsInit ==
    /\ count = [c \in Cells |-> 0]
    /\ lost = FALSE
    /\ incomplete = FALSE
    /\ published = {}

Add(c, v) ==
    /\ count' = [count EXCEPT ![c] = IF v <= Max - @ THEN @ + v ELSE Max]
    /\ lost' = (lost \/ v > Max - count[c])
    /\ UNCHANGED <<incomplete, published>>

Widen ==
    /\ incomplete' = TRUE
    /\ UNCHANGED <<count, lost, published>>

\* A shard is published once, whole, with the flags the counts call for.
Publish ==
    /\ published = {}
    /\ published' = {[counts |-> count,
                      overflowed |-> lost \/ \E c \in Cells : count[c] = Max,
                      incomplete |-> incomplete]}
    /\ UNCHANGED <<count, lost, incomplete>>

CountsNext ==
    \/ \E c \in Cells, v \in 1 .. Max : Add(c, v)
    \/ Widen
    \/ Publish

CountsSpec == CountsInit /\ [][CountsNext]_countsVars
=============================================================================
