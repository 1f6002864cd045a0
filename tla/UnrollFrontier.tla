--------------------------- MODULE UnrollFrontier ---------------------------
(***************************************************************************)
(* The O3 unroll frontier (run_unroll_frontier in kir_pipeline.rs): one    *)
(* loop at a time, every alternative of it is evaluated on the accepted    *)
(* state, the losers are logged, the winner goes through the verified      *)
(* transaction of OptimizationAudit, and the candidates are discovered     *)
(* again on the state that results.                                        *)
(*                                                                         *)
(* A program is, per function, the sequence of its natural loops in header *)
(* order.  A LoopId is the position in that sequence: it names a loop only *)
(* until an earlier loop disappears.  What the three independent checkers  *)
(* say of an alternative, and its cost, are arbitrary.                     *)
(***************************************************************************)
EXTENDS Naturals, SequencesExt

CONSTANTS Functions0, \* functions (numbers: they order candidate keys)
          Loops0,     \* function -> its loops at the entry of the frontier
          SlpLanes,   \* SLP widths found in unrolled bodies ({} off native)
          Charges, Budget

\* What discover_unroll_candidates can see of a loop: "full" (exact trip count
\* of at most 8, small body), "partial" (exact, longer) or "opaque".
Kinds == {"full", "partial", "opaque"}
Loop == [header : Nat, kind : Kinds, unrolled : BOOLEAN]

\* A function has one natural loop of a header (loops.rs:403-436), and none is
\* unrolled when the frontier starts.
ASSUME FrontierAssumption ==
    /\ Functions0 \subseteq Nat
    /\ Loops0 \in [Functions0 -> Seq(Loop)]
    /\ \A f \in Functions0 : \A i, j \in DOMAIN Loops0[f] :
          /\ Loops0[f][i].header = Loops0[f][j].header => i = j
          /\ ~Loops0[f][i].unrolled
    /\ SlpLanes \subseteq Nat \ {0, 1}

ASSUME WorkAssumption ==
    /\ Charges \subseteq [functions : Seq(Functions0), proposer : Nat, checker : Nat]
    /\ Budget \in [Functions0 -> [proposer : Nat, checker : Nat]]

VARIABLES remaining, owners, attempts, accepted, rejected, program, failed,
          processed,    \* (function, header) pairs already selected
          pending,      \* alternatives of the selected loop still to evaluate
          alternatives, \* those the checkers accepted, with their charges
          phase         \* "select", "evaluate", "done" or "error"

LoopFrontierKey ==
    [function : Functions0, loop_id : Nat, kind : {"full", "partial"},
     variant : {"scalar", "slp"}, vf : SlpLanes \cup {1}, uf : {1, 2, 4}]

Audit == INSTANCE OptimizationAudit
    WITH FunctionIds <- Functions0, Keys <- LoopFrontierKey, EntryProgram <- Loops0,
         Programs <- [Functions0 -> Seq(Loop)], Verified <- [Functions0 -> Seq(Loop)]

audit == <<remaining, owners, attempts, accepted, rejected, program, failed>>
vars == <<remaining, owners, attempts, accepted, rejected, program, failed,
          processed, pending, alternatives, phase>>

Init ==
    /\ Audit!Init
    /\ processed = {}
    /\ pending = {}
    /\ alternatives = {}
    /\ phase = "select"

-----------------------------------------------------------------------------
(* Discovery. *)

Factors(kind) == CASE kind = "full" -> {1} [] kind = "partial" -> {2, 4} [] OTHER -> {}

Candidates ==
    UNION {UNION {{[function |-> f, loop_id |-> i, header |-> program[f][i].header,
                    full |-> program[f][i].kind = "full", factor |-> u] :
                      u \in Factors(program[f][i].kind)} : i \in DOMAIN program[f]} :
                         f \in Functions0}

\* Mutant: what was processed is remembered by loop id.
UnprocessedById ==
    {c \in Candidates : ~\E i \in DOMAIN Loops0[c.function] :
        i = c.loop_id /\ <<c.function, Loops0[c.function][i].header>> \in processed}

Unprocessed == {c \in Candidates : <<c.function, c.header>> \notin processed}

\* The order of candidate keys, as far as it orders scalar candidates.
KeyBefore(c, d) ==
    \/ c.function < d.function
    \/ c.function = d.function /\ c.loop_id < d.loop_id
    \/ c.function = d.function /\ c.loop_id = d.loop_id /\ c.factor < d.factor

\* An alternative is a candidate with the SLP width tried on top of it (1: none).
Key(a) == [function |-> a.cand.function, loop_id |-> a.cand.loop_id,
           kind |-> IF a.cand.full THEN "full" ELSE "partial",
           variant |-> IF a.vf = 1 THEN "scalar" ELSE "slp",
           vf |-> a.vf, uf |-> a.cand.factor]

ChargesOf(a) == {charge \in Charges : charge.functions = <<a.cand.function>>}

-----------------------------------------------------------------------------
(* The frontier loop. *)

Running == ~failed /\ phase \in {"select", "evaluate"}

\* Every candidate of the loop of c.
Group(c) == {[cand |-> d, vf |-> 1] : d \in {d \in Candidates :
                d.function = c.function /\ d.header = c.header /\ d.loop_id = c.loop_id}}

First(c) == c \in Unprocessed /\ \A d \in Unprocessed \ {c} : KeyBefore(c, d)

\* Mutant: a loop is forgotten as soon as it is selected.
SelectLoopForgetful ==
    /\ Running /\ phase = "select"
    /\ \E c \in Candidates : First(c) /\ pending' = Group(c)
    /\ alternatives' = {}
    /\ phase' = "evaluate"
    /\ UNCHANGED <<audit, processed>>

\* The first candidate of a loop whose header was not processed yet.
SelectLoop ==
    /\ Running /\ phase = "select"
    /\ \E c \in Candidates :
          /\ First(c)
          /\ processed' = processed \cup {<<c.function, c.header>>}
          /\ pending' = Group(c)
    /\ alternatives' = {}
    /\ phase' = "evaluate"
    /\ UNCHANGED audit

Finish ==
    /\ Running /\ phase = "select"
    /\ Unprocessed = {}
    /\ phase' = "done"
    /\ UNCHANGED <<audit, processed, pending, alternatives>>

\* Candidates come in key order, each followed by what is tried on top of it.
Evaluating(a) ==
    /\ Running /\ phase = "evaluate"
    /\ a \in pending /\ \A b \in pending : a.cand.factor <= b.cand.factor

\* The SLP widths found in the materialized body, in the order of the keys of
\* their packs; each is an alternative of its own, whatever the scalar plan check
\* says.
Combined(a) == {[cand |-> a.cand, vf |-> w] : w \in SlpLanes}

Found(a) == IF a.vf = 1 THEN SUBSET Combined(a) ELSE {{}}

\* Materialization or the structure check turns the alternative down: nothing
\* is tried on top of it.
Discard(a) ==
    /\ Evaluating(a)
    /\ \E charge \in ChargesOf(a) : Audit!Record(Key(a), charge, "rejected")
    /\ pending' = pending \ {a}
    /\ UNCHANGED <<processed, alternatives, phase>>

\* The plan check turns it down.
TurnDown(a) ==
    /\ Evaluating(a)
    /\ \E charge \in ChargesOf(a) : Audit!Record(Key(a), charge, "rejected")
    /\ \E found \in Found(a) : pending' = (pending \ {a}) \cup found
    /\ UNCHANGED <<processed, alternatives, phase>>

\* The plan check lets it through; nothing is charged yet.
Keep(a) ==
    /\ Evaluating(a)
    /\ \E charge \in ChargesOf(a) :
          alternatives' = alternatives \cup {[cand |-> a.cand, vf |-> a.vf,
                                               charge |-> charge]}
    /\ \E found \in Found(a) : pending' = (pending \ {a}) \cup found
    /\ UNCHANGED <<audit, processed, phase>>

\* Any other error of materialization, or a malformed plan, ends the pipeline
\* without an entry in the log.
FrontierError ==
    /\ Running /\ phase = "evaluate" /\ pending # {}
    /\ phase' = "error"
    /\ UNCHANGED <<audit, processed, pending, alternatives>>

Deciding == Running /\ phase = "evaluate" /\ pending = {}

\* No alternative was accepted: on to the next loop.
Skip ==
    /\ Deciding
    /\ alternatives = {}
    /\ phase' = "select"
    /\ UNCHANGED <<audit, processed, pending, alternatives>>

\* All but the cheapest are logged, and charged, before the winner is.
Lose ==
    /\ Deciding
    /\ \E a \in alternatives :
          /\ alternatives # {a}
          /\ Audit!Record(Key(a), a.charge, "non-winner")
          /\ alternatives' = alternatives \ {a}
    /\ UNCHANGED <<processed, pending, phase>>

\* A full unroll drops the loop, so that every later loop moves one id down; a
\* partial one leaves it with a shorter trip and a longer body.
Unrolled(c, kind) ==
    [program EXCEPT ![c.function] =
        IF c.full THEN RemoveAt(@, c.loop_id)
        ELSE [@ EXCEPT ![c.loop_id] = [header |-> c.header, kind |-> kind,
                                       unrolled |-> TRUE]]]

\* The checkers are deterministic and have seen this trial, so only
\* revalidation can still refuse it.
Publish ==
    /\ Deciding
    /\ \E a \in alternatives, kind \in Kinds, verdict \in {"ok", "compiler"} :
          /\ alternatives = {a}
          /\ Audit!Transact(Key(a), a.charge, "accepted", Unrolled(a.cand, kind), verdict)
    /\ alternatives' = {}
    /\ phase' = "select"
    /\ UNCHANGED <<processed, pending>>

Next ==
    \/ SelectLoop \/ Finish
    \/ \E a \in pending : Discard(a) \/ TurnDown(a) \/ Keep(a)
    \/ FrontierError \/ Skip \/ Lose \/ Publish

Spec == Init /\ [][Next]_vars

-----------------------------------------------------------------------------
(* Properties. *)

\* What is about to be evaluated or published was never audited: a key stands
\* for one alternative of one loop, so no duplicate key ends a compile.
KeysAreFresh ==
    ~failed =>
        \A a \in pending \cup alternatives : Key(a) \notin Audit!AuditedKeys

\* A loop is rewritten at most once, although a partially unrolled one comes
\* back from discovery with a shorter trip count (the processed set), and the
\* frontier is not done before every loop that was a candidate at its entry has
\* been selected, however the ids moved meanwhile.
EveryLoopTriedOnce ==
    /\ \A a \in pending : \A i \in DOMAIN program[a.cand.function] :
          LET seen == program[a.cand.function][i]
          IN  seen.header = a.cand.header => ~seen.unrolled
    /\ phase = "done" =>
          \A f \in Functions0 : \A i \in DOMAIN Loops0[f] :
              Loops0[f][i].kind # "opaque" => <<f, Loops0[f][i].header>> \in processed
=============================================================================
