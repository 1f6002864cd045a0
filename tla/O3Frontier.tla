----------------------------- MODULE O3Frontier -----------------------------
(***************************************************************************)
(* What the speculative O3 frontiers of kir_pipeline.rs share: the accepted *)
(* program, the audit they all write (OptimizationAudit) and the keys under *)
(* which candidates are audited.                                            *)
(*                                                                         *)
(* A function is known by what discovery finds in it.  No frontier here     *)
(* makes a loop disappear (full unrolling does: UnrollFrontier), so the     *)
(* block of a loop stands for its LoopId.  Checkers, materialization and    *)
(* costs answer arbitrarily.                                                *)
(***************************************************************************)
EXTENDS Naturals, SequencesExt

CONSTANTS Functions0,  \* functions at the O3 entry, 1 .. n
          FunctionIds, \* with the clones that may be added
          Entries,     \* entry modules, each with its consumer and its calls
          Units,       \* what a candidate costs: [proposer, checker]
          Budget

Consumers == {"native", "deferred", "baseline", "simd128"}

LoopKinds == {"boundary-peel", "invariant-load", "runtime-unroll",
              "interior-normalize", "unswitch", "decision-tree"}

\* A pack covers `lanes` operations from `root` on, with their loads and stores
\* when it is a memory pack.
Pack == [root : Nat, lanes : Nat, memory : BOOLEAN]

\* A block: whether it is the body of a canonical loop, the rewrites offered
\* for that loop with their factor, its vector widths, the packs in it.
Block == [id : Nat, loop : BOOLEAN, kinds : SUBSET (LoopKinds \X Nat),
          widths : SUBSET Nat, packs : SUBSET Pack]

\* Clones name their original and the digest of the facts; regions are the
\* blocks with vector code.
Function == [origin : Functions0, digest : Nat, blocks : SUBSET Block,
             regions : SUBSET Nat]

Call == [id : Nat, caller : Functions0, callee : Functions0, digest : Nat \ {0}]

Program == Seq(Function)

Key == [kind : LoopKinds \cup {"specialization", "loop-simd", "slp"},
        function : FunctionIds, place : Nat, root : Nat, lanes : Nat]

\* At the O3 entry there is no clone yet and calls are between the functions
\* of the module (kir_pipeline.rs:433-442); a function has one block of an id and
\* one call of an id, and vector widths are those of loops.
ASSUME EntryAssumption ==
    \A entry \in Entries :
        /\ entry.consumer \in Consumers
        /\ entry.program \in Program
        /\ DOMAIN entry.program = Functions0
        /\ \A f \in Functions0 :
              /\ entry.program[f].origin = f /\ entry.program[f].digest = 0
              /\ \A b, c \in entry.program[f].blocks :
                    (b.id = c.id => b = c) /\ (b.widths # {} => b.loop)
        /\ entry.calls \in Seq(Call)
        /\ \A i, j \in DOMAIN entry.calls :
              entry.calls[i].id = entry.calls[j].id
                /\ entry.calls[i].caller = entry.calls[j].caller => i = j

ASSUME WorkAssumption ==
    /\ Functions0 \subseteq FunctionIds
    /\ Units \subseteq [proposer : Nat, checker : Nat]
    /\ Budget \in [Functions0 -> [proposer : Nat, checker : Nat]]

VARIABLES consumer,     \* who the module is compiled for
          stages,       \* the frontiers still to run
          calls,        \* specialization candidates still to try
          owing,        \* the clone whose budget is to be registered, 0: none
          seen,         \* what the running frontier has processed
          phase,        \* where the running frontier is
          pending,      \* alternatives to evaluate
          alternatives, \* those the checkers accepted
          winner,       \* the cheapest of them
          remaining, owners, attempts, accepted, rejected, program, failed

Audit == INSTANCE OptimizationAudit
    WITH Keys <- Key, Programs <- Program, Verified <- Program,
         Charges <- [functions : Seq(FunctionIds), proposer : Nat, checker : Nat],
         EntryProgram <- <<>> \* it varies: Init is stated below

audit == <<remaining, owners, attempts, accepted, rejected, program, failed>>
race == <<phase, pending, alternatives, winner>>
vars == <<consumer, stages, calls, owing, seen, race, audit>>

Added == 0  \* the blocks a vectorization adds

Nobody == [function |-> 0]

\* The order of the frontiers (kir_pipeline.rs:422-486, 1022-1260).
StagesOf(c) ==
    <<"specialization">> \o
    CASE c = "native"   -> <<"loop-simd", "residual-slp">>
      [] c = "deferred" -> <<"residual-slp">>
      [] c = "baseline" -> <<"boundary-peel", "invariant-load", "runtime-unroll",
                             "interior-normalize", "unswitch", "decision-tree">>
      [] c = "simd128"  -> <<"boundary-peel", "interior-normalize", "unswitch",
                             "decision-tree", "loop-simd">>

Init ==
    \E entry \in Entries :
        /\ consumer = entry.consumer /\ stages = StagesOf(entry.consumer)
        /\ program = entry.program /\ calls = entry.calls
        /\ owing = 0 /\ seen = {} /\ phase = "select"
        /\ pending = {} /\ alternatives = {} /\ winner = Nobody
        /\ remaining = Budget
        /\ owners = [f \in Functions0 |-> f]
        /\ attempts = <<>> /\ accepted = 0 /\ rejected = 0
        /\ failed = FALSE

Running == ~failed /\ stages # <<>> /\ Head(stages) # "error"

Stage(s) == Running /\ Head(stages) = s

\* The frontier is done: the next one starts with nothing processed.
NextStage ==
    /\ stages' = Tail(stages) /\ seen' = {}
    /\ UNCHANGED <<consumer, calls, owing, race, audit>>

\* An error outside a transaction ends the pipeline without an entry in the log.
PipelineError ==
    /\ stages' = <<"error">>
    /\ UNCHANGED <<consumer, calls, owing, seen, race, audit>>

\* What the checks of a transaction may answer: of a trial nobody has seen, and
\* of one whose deterministic check has already passed.
Unchecked == {"ok", "reject", "compiler"}
Checked == {"ok", "compiler"}

\* Charges, logging and transactions of a candidate, whatever it costs.
Drop(key, functions, disposition) ==
    \E u \in Units :
        Audit!Record(key, [functions |-> functions, proposer |-> u.proposer,
                           checker |-> u.checker], disposition)

Try(key, functions, success, trial, verdicts) ==
    \E u \in Units, verdict \in verdicts :
        Audit!Transact(key, [functions |-> functions, proposer |-> u.proposer,
                             checker |-> u.checker], success, trial, verdict)
=============================================================================
