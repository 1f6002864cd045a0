----------------------- MODULE SpecializationFrontier -----------------------
(***************************************************************************)
(* The specialization frontier (run_specialization_frontier): for each call *)
(* with known facts the call is redirected to a clone of its callee, an     *)
(* existing one when callee and facts agree.  A new clone draws on the      *)
(* budget of its original.  Redirection of the call is not modelled.        *)
(***************************************************************************)
EXTENDS O3Frontier, FiniteSets

CONSTANTS PerOriginal, \* clones of one function, 3 in the code
          PerModule    \* clones of the module, 24 in the code

\* Every clone within the limits has an identity of its own.
ASSUME LimitAssumption ==
    /\ PerOriginal \in Nat /\ PerModule \in Nat
    /\ FunctionIds = 1 .. Cardinality(Functions0) + PerModule

Current == Head(calls)

CallKey(c) == [kind |-> "specialization", function |-> c.caller, place |-> c.id,
               root |-> c.callee, lanes |-> c.digest]

Charging(c) == <<c.caller, c.callee>>

Clones == {f \in DOMAIN program : program[f].digest # 0}
ClonesOf(original) == {f \in Clones : program[f].origin = original}

Existing(c) == \E f \in ClonesOf(c.callee) : program[f].digest = c.digest

\* Mutant: the limit is noticed one clone late.
AtLimitLate(c) ==
    /\ ~Existing(c)
    /\ \/ Cardinality(ClonesOf(c.callee)) > PerOriginal
       \/ Cardinality(Clones) > PerModule

AtLimit(c) ==
    /\ ~Existing(c)
    /\ \/ Cardinality(ClonesOf(c.callee)) >= PerOriginal
       \/ Cardinality(Clones) >= PerModule

Specializing == Stage("specialization") /\ calls # <<>> /\ owing = 0

Proceed ==
    /\ calls' = Tail(calls)
    /\ UNCHANGED <<consumer, stages, seen, race>>

\* No room for another clone, or facts of a contract a clone cannot carry.
RefuseClone ==
    /\ Specializing
    /\ Drop(CallKey(Current), Charging(Current), "rejected")
    /\ Proceed
    /\ UNCHANGED owing

Reuse ==
    /\ Specializing /\ Existing(Current)
    /\ Try(CallKey(Current), Charging(Current), "reused", program, Unchecked)
    /\ Proceed
    /\ UNCHANGED owing

NewClone(c) == [program[c.callee] EXCEPT !.digest = c.digest]

\* Mutant: a budget is registered whatever became of the transaction.
CloneAlways ==
    /\ Specializing /\ ~Existing(Current) /\ ~AtLimit(Current)
    /\ Try(CallKey(Current), Charging(Current), "accepted",
           Append(program, NewClone(Current)), Unchecked)
    /\ owing' = Len(program) + 1
    /\ Proceed

\* Only a committed clone gets an owner.
Clone ==
    /\ Specializing /\ ~Existing(Current) /\ ~AtLimit(Current)
    /\ Try(CallKey(Current), Charging(Current), "accepted",
           Append(program, NewClone(Current)), Unchecked)
    /\ owing' = IF Len(program') > Len(program) THEN Len(program') ELSE 0
    /\ Proceed

RegisterBudget ==
    /\ Stage("specialization") /\ owing # 0
    /\ Audit!RegisterClone(owing, program[Len(program)].origin)
    /\ owing' = 0
    /\ UNCHANGED <<consumer, stages, calls, seen, race>>

\* Materialization fails for any other reason.
SpecializationError == Specializing /\ ~AtLimit(Current) /\ PipelineError

EndSpecialization == Stage("specialization") /\ calls = <<>> /\ owing = 0 /\ NextStage

SpecializationStep ==
    \/ RefuseClone \/ Reuse \/ Clone \/ RegisterBudget
    \/ SpecializationError \/ EndSpecialization
=============================================================================
