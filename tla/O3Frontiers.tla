----------------------------- MODULE O3Frontiers -----------------------------
(***************************************************************************)
(* The O3 frontiers of one compile, in the order of the pipeline, over one  *)
(* program and one audit: specialization, then the rewrites of single loops *)
(* or the vector frontiers of the consumer.                                 *)
(***************************************************************************)
EXTENDS SpecializationFrontier, LoopFrontiers, VectorFrontiers

Next == SpecializationStep \/ LoopStep \/ VectorStep

Spec == Init /\ [][Next]_vars

-----------------------------------------------------------------------------
\* The audit keeps its shape, a clone waits for its budget only while it is the
\* newest function, and alternatives are of the place being decided.
TypeOK ==
    /\ Audit!TypeOK
    /\ owing # 0 => owing = Len(program)
    /\ phase \in {"select", "short", "widths", "packs", "decided"}
    /\ phase \in {"select", "short"} => alternatives = {} /\ winner = Nobody
    /\ phase = "decided" => \A a \in alternatives :
          a.function = winner.function /\ a.block = winner.block

\* Every function of the program, clones included, draws on the budget of its
\* original, and a clone that was not committed has no budget
\* (run_specialization_frontier, register_clone_budget).
ClonesShareBudget ==
    ~failed /\ owing = 0 => owners = [f \in DOMAIN program |-> program[f].origin]

\* The limits hold however refused, reused and committed clones alternate:
\* three clones of a function, 24 of a module (kir_pipeline.rs:1381).
CloneLimits ==
    /\ Cardinality(Clones) <= PerModule
    /\ \A f \in Functions0 : Cardinality(ClonesOf(f)) <= PerOriginal

\* Apart from a broken trial only one thing ends a compile: residual SLP meets a
\* pack that Loop SIMD has audited, in a function that ran out of units before
\* its loop had a winner.  A winner closes its loops; no other frontier, no reused
\* and no refused clone comes back under a key or a clone it had.
OnlyExhaustedPacksReturn ==
    failed /\ attempts[Len(attempts)].disposition # "compiler-error" =>
        /\ Head(stages) = "residual-slp"
        /\ \E i, j \in DOMAIN attempts :
              /\ attempts[i].disposition = "budget-exhausted" /\ attempts[j].key.kind = "slp"
              /\ attempts[i].key.function = attempts[j].key.function

\* Loop SIMD, loop SLP and residual SLP together commit at most one winner to a
\* block (kir_pipeline.rs:2452, 2925).
OneWinnerPerBlock ==
    \A i, j \in DOMAIN attempts :
        /\ {attempts[i].key.kind, attempts[j].key.kind} \subseteq {"loop-simd", "slp"}
        /\ attempts[i].disposition = "accepted" /\ attempts[j].disposition = "accepted"
        /\ attempts[i].key.function = attempts[j].key.function
        /\ attempts[i].key.place = attempts[j].key.place
        => i = j

\* Only a broken trial ends a compile: the packs of a place differ in their
\* keys, so that the cheapest commits and the others are logged.
OnlyBrokenTrialsEndTheCompile ==
    failed => /\ attempts # <<>>
              /\ attempts[Len(attempts)].disposition = "compiler-error"
=============================================================================
