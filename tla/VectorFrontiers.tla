--------------------------- MODULE VectorFrontiers ---------------------------
(***************************************************************************)
(* Loop SIMD (run_loop_simd_frontier) and residual SLP                      *)
(* (run_residual_slp_staging).  Both race the alternatives of one place:    *)
(* each is materialized and checked on the accepted state, the losers are   *)
(* logged, the cheapest goes through the transaction, and discovery starts  *)
(* again.  Loop SIMD lets the packs of the loop body run against its        *)
(* widths, under the keys that residual SLP would use for them.             *)
(***************************************************************************)
EXTENDS O3Frontier, FiniteSets

BlockOf(a) == CHOOSE b \in program[a.function].blocks : b.id = a.block

\* An alternative: a vector width of a loop, or a pack.  The key of a pack does
\* not say whether it covers memory.
KeyOf(a) == [kind |-> a.kind, function |-> a.function, place |-> a.block,
             root |-> a.root, lanes |-> a.lanes]

Width(f, b, w) == [kind |-> "loop-simd", function |-> f, block |-> b.id,
                   root |-> 0, lanes |-> w, memory |-> FALSE]
Packed(f, b, p) == [kind |-> "slp", function |-> f, block |-> b.id,
                    root |-> p.root, lanes |-> p.lanes, memory |-> p.memory]

PacksOf(f, b) == {Packed(f, b, p) : p \in b.packs}

InOrder(a, b) ==
    \/ a.function < b.function
    \/ a.function = b.function /\ a.block < b.block
    \/ a.function = b.function /\ a.block = b.block /\ a.root < b.root
    \/ a.function = b.function /\ a.block = b.block /\ a.root = b.root
       /\ a.lanes < b.lanes

\* Alternatives are taken in that order; two with one key are not ordered.
First(S) == {a \in S : \A b \in S : ~InOrder(b, a)}

Racing(p) == phase = p /\ UNCHANGED <<consumer, stages, calls, owing>>

Charge(a, disposition) == Drop(KeyOf(a), <<a.function>>, disposition)

-----------------------------------------------------------------------------
(* Selection. *)

Widths == UNION {UNION {{Width(f, b, w) : w \in b.widths} :
                            b \in program[f].blocks} : f \in DOMAIN program}

UnseenLoops == {a \in Widths : <<a.function, a.block>> \notin seen}

\* The widths of the first loop not processed yet; a profile that bounds its
\* trips below every threshold leaves it scalar.
SelectLoop ==
    /\ Stage("loop-simd") /\ Racing("select")
    /\ \E a \in First(UnseenLoops) :
          /\ seen' = seen \cup {<<a.function, a.block>>}
          /\ pending' = {b \in Widths : b.function = a.function /\ b.block = a.block}
    /\ phase' \in {"widths", "short"}
    /\ UNCHANGED <<alternatives, winner, audit>>

LeaveScalar ==
    /\ Stage("loop-simd") /\ Racing("short")
    /\ \E a \in First(pending) :
          /\ Charge(a, "non-winner")
          /\ pending' = pending \ {a}
    /\ UNCHANGED <<seen, phase, alternatives, winner>>

LoopBlocks(f) == {b.id : b \in {b \in program[f].blocks : b.loop}}

\* Mutant: only the blocks with vector code are closed.
ClosedRegions(f) == program[f].regions

\* Mutant: a function with vector code closes its loops only.
ClosedLoops(f) == IF program[f].regions = {} THEN {} ELSE LoopBlocks(f)

\* Blocks with vector code are closed to residual packs, and with the first of
\* them every loop of the function.
Closed(f) == program[f].regions \cup (IF program[f].regions = {} THEN {} ELSE LoopBlocks(f))

Residual == UNION {UNION {PacksOf(f, b) : b \in {b \in program[f].blocks : b.id \notin Closed(f)}} :
                      f \in DOMAIN program}

UnseenPacks == {a \in Residual : KeyOf(a) \notin seen}

\* Every unprocessed pack with the root of the first one.
SelectPacks ==
    /\ Stage("residual-slp") /\ Racing("select")
    /\ \E a \in First(UnseenPacks) :
          /\ pending' = {b \in UnseenPacks : b.function = a.function
                                           /\ b.block = a.block /\ b.root = a.root}
          /\ seen' = seen \cup {KeyOf(b) : b \in pending'}
    /\ phase' = "packs"
    /\ UNCHANGED <<alternatives, winner, audit>>

EndVectors ==
    /\ phase = "select"
    /\ \/ Stage("loop-simd") /\ UnseenLoops = {}
       \/ Stage("residual-slp") /\ UnseenPacks = {}
    /\ NextStage

-----------------------------------------------------------------------------
(* Evaluation. *)

Evaluating(a) ==
    /\ Running /\ Racing(phase) /\ phase \in {"widths", "packs"} /\ a \in First(pending)
    /\ pending' = pending \ {a}
    /\ UNCHANGED <<seen, phase, winner>>

\* It cannot be materialized, or the checker turns it down.
TurnDown(a) ==
    /\ Evaluating(a)
    /\ Charge(a, "rejected")
    /\ UNCHANGED alternatives

Keep(a) ==
    /\ Evaluating(a)
    /\ alternatives' = alternatives \cup {a}
    /\ UNCHANGED audit

\* A malformed plan, or a residual pack that fails in an unforeseen way.
VectorError ==
    /\ Running /\ phase \in {"widths", "packs"} /\ pending # {}
    /\ PipelineError

\* No width is left, or the loop stays scalar.
Skip ==
    /\ Running /\ pending = {} /\ alternatives = {}
    /\ phase \in {"widths", "short", "packs"}
    /\ Racing(phase)
    /\ phase' = "select"
    /\ UNCHANGED <<seen, pending, alternatives, winner, audit>>

\* With a width accepted, the packs of the loop body join the race (native).
AddBodyPacks ==
    /\ Stage("loop-simd") /\ Racing("widths")
    /\ pending = {} /\ alternatives # {}
    /\ LET a == CHOOSE a \in alternatives : TRUE
       IN  pending' = IF consumer = "native"
                      THEN PacksOf(a.function, BlockOf(a))
                      ELSE {}
    /\ phase' = "packs"
    /\ UNCHANGED <<seen, alternatives, winner, audit>>

-----------------------------------------------------------------------------
(* Decision. *)

\* Costs decide; any alternative may be the cheapest.
Choose ==
    /\ Running /\ Racing("packs") /\ pending = {}
    /\ \E a \in alternatives : winner' = a /\ alternatives' = alternatives \ {a}
    /\ phase' = "decided"
    /\ UNCHANGED <<seen, pending, audit>>

\* The losers are logged and charged, packs first.
Lose ==
    /\ Running /\ Racing("decided")
    /\ \E a \in alternatives :
          /\ a.kind = "loop-simd" => \A b \in alternatives : b.kind = "loop-simd"
          /\ Charge(a, "non-winner")
          /\ alternatives' = alternatives \ {a}
    /\ UNCHANGED <<seen, phase, pending, winner>>

\* A vectorized loop gets blocks of its own; a pack stays in its block.
Vectorized(a) ==
    [program EXCEPT
        ![a.function].regions = @ \cup {IF a.kind = "slp" THEN a.block ELSE Added},
        ![a.function].blocks = {IF b.id # a.block THEN b
                                ELSE IF a.kind = "loop-simd" THEN [b EXCEPT !.widths = {}]
                                ELSE [b EXCEPT !.packs = {p \in @ : p.root # a.root}] :
                                   b \in @}]

\* The winner goes through the transaction.
Publish ==
    /\ Running /\ Racing("decided") /\ alternatives = {}
    /\ Try(KeyOf(winner), <<winner.function>>, "accepted", Vectorized(winner), Checked)
    /\ phase' = "select" /\ winner' = Nobody
    /\ UNCHANGED <<seen, pending, alternatives>>

VectorStep ==
    \/ SelectLoop \/ LeaveScalar \/ SelectPacks \/ EndVectors
    \/ \E a \in pending : TurnDown(a) \/ Keep(a)
    \/ VectorError \/ Skip \/ AddBodyPacks
    \/ Choose \/ Lose \/ Publish
=============================================================================
