---------------------------- MODULE LoopFrontiers ----------------------------
(***************************************************************************)
(* The frontiers of the WebAssembly consumers that rewrite one loop at a    *)
(* time: boundary peeling, invariant loads, runtime unrolling, interior     *)
(* normalization, unswitching and decision trees.  They differ in what they *)
(* discover and check; each tries one candidate a round and discovers       *)
(* again.                                                                   *)
(***************************************************************************)
EXTENDS O3Frontier

\* Decision trees are left alone in a function with vector code.
Offers(kind) ==
    {o \in UNION {UNION {{[function |-> f, block |-> b.id, factor |-> k[2]] :
                            k \in {k \in b.kinds : k[1] = kind}} :
                               b \in program[f].blocks} : f \in DOMAIN program} :
        kind = "decision-tree" => program[o.function].regions = {}}

OfferBefore(o, p) ==
    \/ o.function < p.function
    \/ o.function = p.function /\ o.block < p.block
    \/ o.function = p.function /\ o.block = p.block /\ o.factor < p.factor

NextOffer(kind, o) ==
    /\ o \in Offers(kind) \ seen
    /\ \A p \in Offers(kind) \ seen : p = o \/ OfferBefore(o, p)

LoopKey(kind, o) == [kind |-> kind, function |-> o.function, place |-> o.block,
                     root |-> 0, lanes |-> o.factor]

\* The loop is not offered for the same rewrite again; a tree becomes vector code.
Rewritten(kind, o) ==
    [program EXCEPT
        ![o.function].blocks = {IF b.id # o.block THEN b
                                ELSE [b EXCEPT !.kinds = {k \in @ : k[1] # kind}] : b \in @},
        ![o.function].regions = IF kind = "decision-tree" THEN @ \cup {Added} ELSE @]

\* Mutant: a candidate is remembered only once it was rewritten.
ProposeForgetful(kind) ==
    /\ Stage(kind)
    /\ \E o \in Offers(kind) :
          /\ NextOffer(kind, o)
          /\ \/ Drop(LoopKey(kind, o), <<o.function>>, "rejected")
             \/ Try(LoopKey(kind, o), <<o.function>>, "accepted", Rewritten(kind, o), Unchecked)
          /\ seen' = IF program' = program THEN seen ELSE seen \cup {o}
    /\ UNCHANGED <<consumer, stages, calls, owing, race>>

\* It cannot be prepared, or it goes through the transaction.
Propose(kind) ==
    /\ Stage(kind)
    /\ \E o \in Offers(kind) :
          /\ NextOffer(kind, o)
          /\ seen' = seen \cup {o}
          /\ \/ Drop(LoopKey(kind, o), <<o.function>>, "rejected")
             \/ Try(LoopKey(kind, o), <<o.function>>, "accepted", Rewritten(kind, o), Unchecked)
    /\ UNCHANGED <<consumer, stages, calls, owing, race>>

EndLoops(kind) == Stage(kind) /\ Offers(kind) \subseteq seen /\ NextStage

LoopStep == \E kind \in LoopKinds : Propose(kind) \/ EndLoops(kind)
=============================================================================
