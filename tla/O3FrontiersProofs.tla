-------------------------- MODULE O3FrontiersProofs --------------------------
(***************************************************************************)
(* What holds of a compile for every entry module, every consumer, every   *)
(* budget, every clone limit and whatever the checkers and costs answer:   *)
(* its clones and their budgets, the shape of a race, one vector winner in *)
(* a block, which candidates can come back under a key they had, and that  *)
(* the frontiers change the program through the audit only.                *)
(***************************************************************************)
EXTENDS O3Frontiers, FiniteSetTheorems, TLAPS

\* The functions of the entry module keep their places and clones follow them.
ProgramOK ==
    /\ program \in Program
    /\ Functions0 \subseteq DOMAIN program
    /\ \A f \in Functions0 : program[f].origin = f

\* Only the newest function can lack a budget, and it is a clone.
OwnersFollow ==
    /\ owing = 0 \/ owing = Len(program)
    /\ owing \notin Functions0
    /\ ~failed => owners = [f \in DOMAIN program \ {owing} |-> program[f].origin]

\* The inductive invariant.
CloneInv == ProgramOK /\ calls \in Seq(Call) /\ OwnersFollow /\ CloneLimits

-----------------------------------------------------------------------------
\* A candidate that is logged and not tried changes neither program nor owners.
LEMMA DropLeavesProgram ==
    ASSUME NEW key, NEW functions, NEW disposition, Drop(key, functions, disposition)
    PROVE  ~failed /\ program' = program /\ owners' = owners
  BY DEF Drop, Audit!Record

\* A transaction leaves the program alone or swaps in the whole trial, and never
\* touches the owners.
LEMMA TrySwapsOrLeaves ==
    ASSUME NEW key, NEW functions, NEW success, NEW trial, NEW verdicts,
           Try(key, functions, success, trial, verdicts)
    PROVE  /\ ~failed /\ owners' = owners
           /\ \/ program' = program
              \/ program' = trial /\ trial \in Program /\ failed' = failed
  BY DEF Try, Audit!Transact, Audit!DuplicateKey, Audit!Exhaust, Audit!Reject,
         Audit!Abort, Audit!Commit, Audit!Charging, Audit!audit

\* A program is a sequence of functions with an origin and a digest.
LEMMA Shape ==
    ASSUME ProgramOK
    PROVE  /\ Len(program) \in Nat /\ DOMAIN program = 1 .. Len(program)
           /\ \A f \in DOMAIN program : program[f] \in Function
           /\ \A f \in DOMAIN program : program[f].origin \in Functions0
  <1>1. program \in Seq(Function)
    BY DEF ProgramOK, Program
  <1>2. /\ Len(program) \in Nat /\ DOMAIN program = 1 .. Len(program)
        /\ \A f \in DOMAIN program : program[f] \in Function
    BY <1>1
  <1>3. \A g \in Function : g.origin \in Functions0
    BY DEF Function
  <1> QED BY <1>2, <1>3

\* Clones are finitely many.
LEMMA ClonesAreFinite ==
    ASSUME ProgramOK
    PROVE  /\ IsFiniteSet(Clones) /\ Cardinality(Clones) \in Nat
           /\ \A f : IsFiniteSet(ClonesOf(f)) /\ Cardinality(ClonesOf(f)) \in Nat
  <1>1. IsFiniteSet(DOMAIN program)
    BY Shape, FS_Interval
  <1>2. IsFiniteSet(Clones)
    BY <1>1, FS_Subset, Clones \in SUBSET DOMAIN program DEF Clones
  <1>3. \A f : ClonesOf(f) \in SUBSET Clones
    BY DEF ClonesOf
  <1>4. \A f : IsFiniteSet(ClonesOf(f))
    BY <1>2, <1>3, FS_Subset
  <1> QED BY <1>2, <1>4, FS_CardinalityType

\* A rewrite that keeps the functions with their origins and facts makes no clone.
SameFunctions ==
    /\ program' \in Program
    /\ DOMAIN program' = DOMAIN program
    /\ \A f \in DOMAIN program : program'[f].origin = program[f].origin
                              /\ program'[f].digest = program[f].digest

LEMMA SameFunctionsKeepInv ==
    ASSUME CloneInv, SameFunctions, ~failed, owners' = owners, owing' = owing,
           calls' \in Seq(Call)
    PROVE  CloneInv'
  <1>1. ProgramOK'
    BY DEF CloneInv, ProgramOK, SameFunctions
  <1>2. Len(program') = Len(program)
    <2>1. program \in Seq(Function) /\ program' \in Seq(Function)
      BY DEF CloneInv, ProgramOK, SameFunctions, Program
    <2> QED BY <2>1 DEF SameFunctions
  <1>3. OwnersFollow'
    BY <1>2 DEF CloneInv, OwnersFollow, SameFunctions
  <1>4. Clones' = Clones /\ \A f : ClonesOf(f)' = ClonesOf(f)
    BY DEF SameFunctions, Clones, ClonesOf
  <1>5. CloneLimits'
    BY <1>4 DEF CloneInv, CloneLimits
  <1> QED BY <1>1, <1>3, <1>5 DEF CloneInv

\* So does leaving the program as it is.
LEMMA SameProgramKeepsInv ==
    ASSUME CloneInv, ~failed, program' = program, owners' = owners, owing' = owing,
           calls' \in Seq(Call)
    PROVE  CloneInv'
  BY SameFunctionsKeepInv DEF CloneInv, ProgramOK, SameFunctions

-----------------------------------------------------------------------------
\* A new clone is the newest function, of the original and with the facts of its
\* call.
LEMMA AppendedClone ==
    ASSUME CloneInv, NEW c \in Call, program' = Append(program, NewClone(c)),
           program' \in Program
    PROVE  /\ Len(program') = Len(program) + 1
           /\ DOMAIN program' = DOMAIN program \cup {Len(program) + 1}
           /\ \A f \in DOMAIN program : program'[f] = program[f]
           /\ program'[Len(program) + 1].origin = c.callee
           /\ program'[Len(program) + 1].digest = c.digest
  <1>1. ProgramOK
    BY DEF CloneInv
  <1>2. program \in Seq(Function) /\ c.callee \in Functions0
    BY <1>1 DEF ProgramOK, Program, Call
  <1>3. program[c.callee] \in Function /\ program[c.callee].origin = c.callee
    BY <1>1, <1>2, Shape DEF ProgramOK
  <1>4. NewClone(c).origin = c.callee /\ NewClone(c).digest = c.digest
    BY <1>3 DEF NewClone, Function
  <1>5. /\ Len(program') = Len(program) + 1
        /\ DOMAIN program' = 1 .. Len(program) + 1
        /\ \A f \in 1 .. Len(program) : program'[f] = program[f]
        /\ program'[Len(program) + 1] = NewClone(c)
    BY <1>2
  <1> QED BY <1>1, <1>4, <1>5, Shape

\* Below both limits there is room for one more (kir_pipeline.rs:1381).
LEMMA RoomForOne ==
    ASSUME CloneInv, NEW c \in Call, program' = Append(program, NewClone(c)),
           program' \in Program, ~Existing(c), ~AtLimit(c)
    PROVE  CloneLimits'
  <1> DEFINE new == Len(program) + 1
  <1>1. ProgramOK
    BY DEF CloneInv
  <1>2. /\ Clones' \subseteq Clones \cup {new}
        /\ \A f : ClonesOf(f)' \subseteq ClonesOf(f) \cup {new}
        /\ \A f : f # c.callee => ClonesOf(f)' \subseteq ClonesOf(f)
    BY AppendedClone DEF Clones, ClonesOf
  <1>3. /\ Cardinality(Clones) < PerModule
        /\ Cardinality(ClonesOf(c.callee)) < PerOriginal
    BY <1>1, ClonesAreFinite, LimitAssumption DEF AtLimit
  <1>4. ASSUME NEW S, NEW T, NEW n \in Nat, IsFiniteSet(S), Cardinality(S) < n,
               T \subseteq S \cup {new}
        PROVE  Cardinality(T) <= n
    <2>0. Cardinality(S) \in Nat
      BY <1>4, FS_CardinalityType
    <2> HIDE DEF new
    <2>1. IsFiniteSet(S \cup {new}) /\ Cardinality(S \cup {new}) <= Cardinality(S) + 1
      <3>1. /\ IsFiniteSet(S \cup {new})
            /\ Cardinality(S \cup {new}) =
                  IF new \in S THEN Cardinality(S) ELSE Cardinality(S) + 1
        BY <1>4, FS_AddElement, Zenon
      <3> QED BY <2>0, <3>1
    <2>2. IsFiniteSet(T) /\ Cardinality(T) <= Cardinality(S \cup {new})
      BY <1>4, <2>1, FS_Subset
    <2>3. Cardinality(S) \in Nat /\ Cardinality(T) \in Nat
          /\ Cardinality(S \cup {new}) \in Nat
      BY <1>4, <2>1, <2>2, FS_CardinalityType
    <2> QED BY <1>4, <2>1, <2>2, <2>3
  <1>5. Cardinality(Clones') <= PerModule
    BY <1>1, <1>2, <1>3, <1>4, ClonesAreFinite, LimitAssumption
  <1>6. ASSUME NEW f \in Functions0
        PROVE  Cardinality(ClonesOf(f)') <= PerOriginal
    <2>1. CASE f = c.callee
      BY <1>1, <1>2, <1>3, <1>4, <2>1, ClonesAreFinite, LimitAssumption
    <2>2. CASE f # c.callee
      <3>1. Cardinality(ClonesOf(f)) <= PerOriginal
        BY DEF CloneInv, CloneLimits
      <3>2. IsFiniteSet(ClonesOf(f)) /\ Cardinality(ClonesOf(f)) \in Nat
        BY <1>1, ClonesAreFinite
      <3>3. IsFiniteSet(ClonesOf(f)') /\ Cardinality(ClonesOf(f)') <= Cardinality(ClonesOf(f))
        BY <1>2, <2>2, <3>2, FS_Subset
      <3>4. Cardinality(ClonesOf(f)') \in Nat
        BY <3>3, FS_CardinalityType
      <3> QED BY <3>1, <3>2, <3>3, <3>4, LimitAssumption
    <2> QED BY <2>1, <2>2
  <1> QED BY <1>5, <1>6 DEF CloneLimits

-----------------------------------------------------------------------------
\* Everything but a new clone and its budget leaves the functions as they are.
LEMMA RewrittenKeepsFunctions ==
    ASSUME ProgramOK, NEW kind, NEW o, program' = Rewritten(kind, o), program' \in Program
    PROVE  SameFunctions
  <1>1. DOMAIN program' = DOMAIN program
    BY DEF Rewritten
  <1>2. ASSUME NEW f \in DOMAIN program
        PROVE  program'[f].origin = program[f].origin /\ program'[f].digest = program[f].digest
    BY Shape DEF Rewritten, Function
  <1> QED BY <1>1, <1>2 DEF SameFunctions

LEMMA VectorizedKeepsFunctions ==
    ASSUME ProgramOK, NEW a, program' = Vectorized(a), program' \in Program
    PROVE  SameFunctions
  <1>1. DOMAIN program' = DOMAIN program
    BY DEF Vectorized
  <1>2. ASSUME NEW f \in DOMAIN program
        PROVE  program'[f].origin = program[f].origin /\ program'[f].digest = program[f].digest
    BY Shape DEF Vectorized, Function
  <1> QED BY <1>1, <1>2 DEF SameFunctions

LEMMA InitEstablishes == Init => CloneInv
  <1> SUFFICES ASSUME Init PROVE CloneInv
    OBVIOUS
  <1>1. PICK entry \in Entries : /\ program = entry.program /\ calls = entry.calls
                                /\ owing = 0 /\ owners = [f \in Functions0 |-> f]
    BY DEF Init
  <1>2. /\ ProgramOK /\ calls \in Seq(Call) /\ DOMAIN program = Functions0
        /\ \A f \in Functions0 : program[f].digest = 0
    BY <1>1, EntryAssumption DEF ProgramOK
  <1>3. OwnersFollow
    <2>1. 0 \notin Functions0
      BY <1>2, Shape
    <2>2. [f \in DOMAIN program \ {owing} |-> program[f].origin] = [f \in Functions0 |-> f]
      BY <1>1, <1>2, <2>1 DEF ProgramOK
    <2> QED BY <1>1, <2>2 DEF OwnersFollow
  <1>4. Clones = {} /\ \A f : ClonesOf(f) = {}
    BY <1>2 DEF Clones, ClonesOf
  <1>5. CloneLimits
    BY <1>4, FS_EmptySet, LimitAssumption DEF CloneLimits
  <1> QED BY <1>2, <1>3, <1>5 DEF CloneInv

\* One lemma per frontier, one step per action.
LEMMA SpecializationKeeps == CloneInv /\ SpecializationStep => CloneInv'
  <1> SUFFICES ASSUME CloneInv, SpecializationStep PROVE CloneInv'
    OBVIOUS
  <1>1. ProgramOK /\ calls \in Seq(Call) /\ OwnersFollow /\ CloneLimits
    BY DEF CloneInv
  <1>2. ASSUME Specializing PROVE Tail(calls) \in Seq(Call) /\ Current \in Call /\ owing = 0
    BY <1>1, <1>2 DEF Specializing, Current
  <1>3. CASE RefuseClone
    <2>1. ~failed /\ program' = program /\ owners' = owners
      BY <1>3, DropLeavesProgram DEF RefuseClone
    <2>2. calls' \in Seq(Call) /\ owing' = owing
      BY <1>2, <1>3 DEF RefuseClone, Proceed
    <2> QED BY <2>1, <2>2, SameProgramKeepsInv
  <1>4. CASE Reuse
    <2>1. ~failed /\ program' = program /\ owners' = owners
      BY <1>4, TrySwapsOrLeaves DEF Reuse
    <2>2. calls' \in Seq(Call) /\ owing' = owing
      BY <1>2, <1>4 DEF Reuse, Proceed
    <2> QED BY <2>1, <2>2, SameProgramKeepsInv
  <1>5. CASE Clone
    <2>1. /\ owing = 0 /\ Current \in Call /\ calls' \in Seq(Call)
          /\ ~Existing(Current) /\ ~AtLimit(Current)
          /\ owing' = IF Len(program') > Len(program) THEN Len(program') ELSE 0
      BY <1>2, <1>5 DEF Clone, Proceed
    <2>2. /\ ~failed /\ owners' = owners
          /\ \/ program' = program
             \/ /\ program' = Append(program, NewClone(Current))
                /\ program' \in Program /\ failed' = failed
      BY <1>5, TrySwapsOrLeaves DEF Clone
    <2>3. CASE program' = program
      <3>1. owing' = owing
        BY <1>1, <2>1, <2>3, Shape
      <3> QED BY <2>1, <2>2, <2>3, <3>1, SameProgramKeepsInv
    <2>4. CASE /\ program' = Append(program, NewClone(Current))
               /\ program' \in Program /\ failed' = failed
      <3>1. /\ Len(program') = Len(program) + 1
            /\ DOMAIN program' = DOMAIN program \cup {Len(program) + 1}
            /\ \A f \in DOMAIN program : program'[f] = program[f]
        BY <2>1, <2>4, AppendedClone
      <3>2. ProgramOK'
        BY <1>1, <2>4, <3>1 DEF ProgramOK
      <3>3. owing' = Len(program) + 1 /\ Len(program) \in Nat
            /\ DOMAIN program = 1 .. Len(program)
        BY <1>1, <2>1, <3>1, Shape
      <3>4. Len(program) + 1 \notin DOMAIN program /\ 0 \notin DOMAIN program
        BY <3>3
      <3>5. owing' = Len(program') /\ owing' \notin Functions0
        BY <1>1, <3>1, <3>3, <3>4 DEF ProgramOK
      <3>6. /\ DOMAIN program' \ {owing'} = DOMAIN program
            /\ DOMAIN program \ {owing} = DOMAIN program
        BY <2>1, <3>1, <3>3, <3>4
      <3>7. owners = [f \in DOMAIN program |-> program[f].origin]
        BY <1>1, <2>2, <3>6 DEF OwnersFollow
      <3>8. owners' = [f \in DOMAIN program' \ {owing'} |-> program'[f].origin]
        BY <2>2, <3>1, <3>6, <3>7
      <3>9. CloneLimits'
        BY <2>1, <2>4, RoomForOne
      <3> QED BY <2>1, <3>2, <3>5, <3>8, <3>9 DEF CloneInv, OwnersFollow
    <2> QED BY <2>2, <2>3, <2>4
  <1>6. CASE RegisterBudget
    <2> DEFINE original == program[Len(program)].origin
    <2>1. /\ ~failed /\ program' = program /\ calls' = calls /\ owing' = 0
          /\ owing = Len(program) /\ owing \notin Functions0
          /\ owners = [f \in DOMAIN program \ {owing} |-> program[f].origin]
      BY <1>1, <1>6 DEF RegisterBudget, Audit!RegisterClone, OwnersFollow
    <2>2. /\ owing \in DOMAIN program /\ 0 \notin DOMAIN program
          /\ original \in Functions0 /\ 0 \notin Functions0
      BY <1>1, <1>6, <2>1, Shape DEF RegisterBudget, ProgramOK
    <2>3. original \in DOMAIN owners /\ owners[original] = original
      BY <1>1, <2>1, <2>2 DEF ProgramOK
    <2>4. owners' = [f \in DOMAIN owners \cup {owing} |->
                        IF f = owing THEN owners[original] ELSE owners[f]]
      BY <1>6, <2>3 DEF RegisterBudget, Audit!RegisterClone
    <2>5. owners' = [f \in DOMAIN program |-> program[f].origin]
      BY <2>1, <2>2, <2>3, <2>4
    <2>6. DOMAIN program \ {0} = DOMAIN program
      BY <2>2
    <2>7. OwnersFollow'
      BY <2>1, <2>2, <2>5, <2>6 DEF OwnersFollow
    <2>8. ProgramOK' /\ CloneLimits'
      BY <1>1, <2>1 DEF ProgramOK, CloneLimits, Clones, ClonesOf
    <2> QED BY <1>1, <2>1, <2>7, <2>8 DEF CloneInv
  <1>7. CASE SpecializationError \/ EndSpecialization
    BY <1>1, <1>7, SameProgramKeepsInv
       DEF SpecializationError, EndSpecialization, Specializing, Stage, Running,
           PipelineError, NextStage, audit
  <1> QED BY <1>3, <1>4, <1>5, <1>6, <1>7 DEF SpecializationStep

LEMMA LoopKeeps == CloneInv /\ LoopStep => CloneInv'
  <1> SUFFICES ASSUME CloneInv, NEW kind \in LoopKinds, Propose(kind) \/ EndLoops(kind)
               PROVE  CloneInv'
    BY DEF LoopStep
  <1>1. CASE Propose(kind)
    <2>1. owing' = owing /\ calls' = calls
      BY <1>1 DEF Propose
    <2>2. PICK o \in Offers(kind) :
             \/ Drop(LoopKey(kind, o), <<o.function>>, "rejected")
             \/ Try(LoopKey(kind, o), <<o.function>>, "accepted", Rewritten(kind, o), Unchecked)
      BY <1>1 DEF Propose
    <2>3. /\ ~failed /\ owners' = owners
          /\ \/ program' = program
             \/ program' = Rewritten(kind, o) /\ program' \in Program
      BY <2>2, DropLeavesProgram, TrySwapsOrLeaves
    <2>4. CASE program' = program
      BY <2>1, <2>3, <2>4, SameProgramKeepsInv DEF CloneInv
    <2>5. CASE program' = Rewritten(kind, o) /\ program' \in Program
      BY <2>1, <2>3, <2>5, RewrittenKeepsFunctions, SameFunctionsKeepInv DEF CloneInv
    <2> QED BY <2>3, <2>4, <2>5
  <1>2. CASE EndLoops(kind)
    BY <1>2, SameProgramKeepsInv DEF CloneInv, EndLoops, Stage, Running, NextStage, audit
  <1> QED BY <1>1, <1>2

LEMMA VectorKeeps == CloneInv /\ VectorStep => CloneInv'
  <1> SUFFICES ASSUME CloneInv, VectorStep PROVE CloneInv'
    OBVIOUS
  <1>1. CASE \/ SelectLoop \/ SelectPacks \/ EndVectors \/ VectorError \/ Skip
             \/ AddBodyPacks \/ Choose \/ \E a \in pending : Keep(a)
    <2>1. ~failed /\ program' = program /\ owners' = owners
      BY <1>1 DEF SelectLoop, SelectPacks, EndVectors, Keep, Evaluating, VectorError, Skip,
                  AddBodyPacks, Choose, Stage, Running, NextStage, PipelineError, audit
    <2>2. owing' = owing /\ calls' = calls
      BY <1>1 DEF SelectLoop, SelectPacks, EndVectors, Keep, Evaluating, VectorError, Skip,
                  AddBodyPacks, Choose, Racing, NextStage, PipelineError
    <2> QED BY <2>1, <2>2, SameProgramKeepsInv DEF CloneInv
  <1>2. CASE LeaveScalar \/ Lose \/ \E a \in pending : TurnDown(a)
    <2>1. ~failed /\ program' = program /\ owners' = owners
      BY <1>2, DropLeavesProgram DEF LeaveScalar, TurnDown, Lose, Charge
    <2>2. owing' = owing /\ calls' = calls
      BY <1>2 DEF LeaveScalar, TurnDown, Lose, Evaluating, Racing
    <2> QED BY <2>1, <2>2, SameProgramKeepsInv DEF CloneInv
  <1>3. CASE Publish
    <2>1. owing' = owing /\ calls' = calls
      BY <1>3 DEF Publish, Racing
    <2>2. /\ ~failed /\ owners' = owners
          /\ \/ program' = program
             \/ program' = Vectorized(winner) /\ program' \in Program
      BY <1>3, TrySwapsOrLeaves DEF Publish
    <2>3. CASE program' = program
      BY <2>1, <2>2, <2>3, SameProgramKeepsInv DEF CloneInv
    <2>4. CASE program' = Vectorized(winner) /\ program' \in Program
      BY <2>1, <2>2, <2>4, VectorizedKeepsFunctions, SameFunctionsKeepInv DEF CloneInv
    <2> QED BY <2>2, <2>3, <2>4
  <1> QED BY <1>1, <1>2, <1>3 DEF VectorStep

-----------------------------------------------------------------------------
\* The invariant holds throughout a compile.
THEOREM CloneInvariant == Spec => []CloneInv
  <1>1. Init => CloneInv
    BY InitEstablishes
  <1>2. CloneInv /\ [Next]_vars => CloneInv'
    <2> SUFFICES ASSUME CloneInv, [Next]_vars PROVE CloneInv'
      OBVIOUS
    <2>1. CASE SpecializationStep
      BY <2>1, SpecializationKeeps
    <2>2. CASE LoopStep
      BY <2>2, LoopKeeps
    <2>3. CASE VectorStep
      BY <2>3, VectorKeeps
    <2>4. CASE UNCHANGED vars
      BY <2>4 DEF vars, audit, CloneInv, ProgramOK, OwnersFollow, CloneLimits, Clones, ClonesOf
    <2> QED BY <2>1, <2>2, <2>3, <2>4 DEF Next
  <1> QED BY <1>1, <1>2, PTL DEF Spec

\* No compile exceeds the clone limits, of a function or of the module, whatever
\* is refused, reused, rolled back or committed in between
\* (run_specialization_frontier).
THEOREM CloneLimitsHold == Spec => []CloneLimits
  BY CloneInvariant, PTL DEF CloneInv

\* Once no registration is due every function draws on the budget of its
\* original, clones included, and nothing else has a budget
\* (register_clone_budget).
THEOREM ClonesShareBudgetHolds == Spec => []ClonesShareBudget
  <1>1. CloneInv => ClonesShareBudget
    <2> SUFFICES ASSUME CloneInv, ~failed, owing = 0
                 PROVE  owners = [f \in DOMAIN program |-> program[f].origin]
      BY DEF ClonesShareBudget
    <2>1. DOMAIN program \ {owing} = DOMAIN program
      BY Shape DEF CloneInv
    <2> QED BY <2>1 DEF CloneInv, OwnersFollow
  <1> QED BY <1>1, CloneInvariant, PTL

-----------------------------------------------------------------------------
(* The races.  An alternative is raced from its selection to the decision;   *)
(* the audited keys say which places and which packs had their turn.         *)

VectorKinds == {"loop-simd", "slp"}
Alternative == [kind : VectorKinds, function : FunctionIds, block : Nat, root : Nat,
                lanes : Nat, memory : BOOLEAN]

Raced == pending \cup alternatives \cup (IF phase = "decided" THEN {winner} ELSE {})

Place(a) == <<a.function, a.block>>
KeyPlace(k) == <<k.function, k.place>>

AuditedVectors == {k \in Audit!AuditedKeys : k.kind \in VectorKinds}

\* The places with a vector winner, and the functions that ran out of units.
Won == {KeyPlace(attempts[i].key) :
           i \in {j \in DOMAIN attempts : /\ attempts[j].disposition = "accepted"
                                          /\ attempts[j].key.kind \in VectorKinds}}
Exhausted == {attempts[i].key.function :
                 i \in {j \in DOMAIN attempts : attempts[j].disposition = "budget-exhausted"}}

InStage(s) == stages # <<>> /\ stages[1] = s
Ahead == {stages[i] : i \in 2 .. Len(stages)}
Over == failed \/ stages = <<>> \/ InStage("error")

StagesFit ==
    /\ stages \in Seq({"specialization", "loop-simd", "residual-slp", "error"} \cup LoopKinds)
    /\ \A i, j \in DOMAIN stages :
          /\ stages[i] = stages[j] => i = j
          /\ i < j => /\ stages[i] # "residual-slp"
                      /\ stages[i] = "loop-simd" => stages[j] = "residual-slp"

\* Alternatives are of one place, and there are none between two races.
RaceTypes ==
    /\ phase \in {"select", "short", "widths", "packs", "decided"}
    /\ phase # "decided" => winner = Nobody
    /\ phase \in {"select", "short"} => alternatives = {}
    /\ Raced \subseteq Alternative
    /\ \A a, b \in Raced : Place(a) = Place(b)

\* Which phase goes with which alternatives.
PhaseFits ==
    /\ phase \in {"select", "decided"} => pending = {}
    /\ phase # "select" => InStage("loop-simd") \/ InStage("residual-slp")
    /\ phase \in {"short", "widths"} => InStage("loop-simd") /\ \A a \in Raced : a.kind = "loop-simd"
    /\ phase = "packs" /\ InStage("loop-simd") => alternatives # {}

\* What is raced is of one place that has not been won.
RacedFit ==
    /\ \A a \in Raced : /\ a.function \in DOMAIN program /\ Place(a) \notin Won
                        /\ a.kind = "loop-simd" => a.block \in LoopBlocks(a.function)
    /\ InStage("loop-simd") => \A a \in Raced : Place(a) \in seen
    /\ InStage("residual-slp") => \A a \in Raced : a.kind = "slp" /\ KeyOf(a) \in seen

\* What vector code was tried and where it won.
VectorsFit ==
    /\ AuditedVectors # {} => /\ "loop-simd" \notin Ahead
                              /\ InStage("loop-simd") \/ InStage("residual-slp")
    /\ InStage("loop-simd") => \A k \in AuditedVectors : KeyPlace(k) \in seen
    /\ \A p \in Won : p[1] \in DOMAIN program /\ p[2] \in Closed(p[1])

LoopsHaveWidths ==
    \A f \in DOMAIN program : \A b \in program[f].blocks : b.widths # {} => b.loop

RaceLives == StagesFit /\ PhaseFits /\ RacedFit /\ VectorsFit /\ LoopsHaveWidths

\* Candidates are told apart by their keys.
BlocksApart ==
    \A f \in DOMAIN program : \A b, c \in program[f].blocks : b.id = c.id => b = c
PacksApart ==
    \A f \in DOMAIN program : \A b \in program[f].blocks : \A p, q \in b.packs :
        p.root = q.root /\ p.lanes = q.lanes => p = q
CallsApart ==
    /\ \A i, j \in DOMAIN calls : calls[i].id = calls[j].id /\ calls[i].caller = calls[j].caller => i = j
    /\ \A i \in DOMAIN calls : CallKey(calls[i]) \notin Audit!AuditedKeys

LoopsTried ==
    \A k \in Audit!AuditedKeys : k.kind \in LoopKinds =>
        /\ k.kind \notin Ahead
        /\ InStage(k.kind) => [function |-> k.function, block |-> k.place, factor |-> k.lanes] \in seen

PacksTried ==
    \A k \in Audit!AuditedKeys : k.kind = "slp" =>
        \/ k.function \in DOMAIN program /\ k.place \in Closed(k.function)
        \/ k.function \in Exhausted
        \/ /\ InStage("loop-simd") /\ phase \in {"packs", "decided"}
           /\ \E a \in Raced : Place(a) = KeyPlace(k)
        \/ InStage("residual-slp") /\ k \in seen

RacedFresh ==
    /\ pending \cap alternatives = {} /\ (phase = "decided" => winner \notin alternatives)
    /\ \A a, b \in Raced : KeyOf(a) = KeyOf(b) => a = b
    /\ InStage("loop-simd") => \A a \in Raced : KeyOf(a) \notin Audit!AuditedKeys
    /\ phase \in {"short", "widths"} =>
          \A a \in Raced, k \in Audit!AuditedKeys : k.kind = "slp" => KeyPlace(k) # Place(a)
    /\ InStage("residual-slp") =>
          \A a \in Raced : KeyOf(a) \in Audit!AuditedKeys => a.function \in Exhausted

KeysLive == BlocksApart /\ PacksApart /\ CallsApart /\ LoopsTried /\ PacksTried /\ RacedFresh

-----------------------------------------------------------------------------
(* What a candidate leaves in the log. *)

\* What is proved of the transaction.
AuditProofs == INSTANCE OptimizationAuditProofs
    WITH Keys <- Key, Programs <- Program, Verified <- Program,
         Charges <- [functions : Seq(FunctionIds), proposer : Nat, checker : Nat],
         EntryProgram <- <<>>

LEMMA AuditAssumed == AuditProofs!AuditAssumption
  <1>1. <<>> \in Program
    BY DEF Program
  <1> QED BY <1>1, WorkAssumption
             DEF AuditProofs!AuditAssumption, AuditProofs!Charge, AuditProofs!Work

\* The two instances of the transaction are one.
LEMMA SameAudit ==
    ASSUME NEW key, NEW charge
    PROVE  /\ \A d : Audit!Record(key, charge, d) <=> AuditProofs!Record(key, charge, d)
           /\ \A success, trial, verdict :
                 Audit!Transact(key, charge, success, trial, verdict)
                   <=> AuditProofs!Transact(key, charge, success, trial, verdict)
           /\ \A clone, original :
                 Audit!RegisterClone(clone, original) <=> AuditProofs!RegisterClone(clone, original)
  <1>1. /\ Audit!CanDebit(charge) <=> AuditProofs!CanDebit(charge)
        /\ Audit!Debited(charge) = AuditProofs!Debited(charge)
        /\ Audit!AuditedKeys = AuditProofs!AuditedKeys
        /\ \A d : Audit!AppendAttempt(key, charge, d) <=> AuditProofs!AppendAttempt(key, charge, d)
    BY DEF Audit!CanDebit, AuditProofs!CanDebit, Audit!Debited, AuditProofs!Debited,
           Audit!ChargedOwners, AuditProofs!ChargedOwners, Audit!Charged, AuditProofs!Charged,
           Audit!AuditedKeys, AuditProofs!AuditedKeys,
           Audit!AppendAttempt, AuditProofs!AppendAttempt
  <1>2. \A d : Audit!Record(key, charge, d) <=> AuditProofs!Record(key, charge, d)
    BY <1>1 DEF Audit!Record, AuditProofs!Record
  <1>3. /\ Audit!DuplicateKey(key) <=> AuditProofs!DuplicateKey(key)
        /\ Audit!Exhaust(key, charge) <=> AuditProofs!Exhaust(key, charge)
        /\ Audit!Reject(key, charge) <=> AuditProofs!Reject(key, charge)
        /\ Audit!Abort(key, charge) <=> AuditProofs!Abort(key, charge)
        /\ \A success, trial : Audit!Commit(key, charge, success, trial)
                                 <=> AuditProofs!Commit(key, charge, success, trial)
    BY <1>1 DEF Audit!DuplicateKey, AuditProofs!DuplicateKey, Audit!Exhaust, AuditProofs!Exhaust,
                Audit!Reject, AuditProofs!Reject, Audit!Abort, AuditProofs!Abort,
                Audit!Commit, AuditProofs!Commit, Audit!Charging, AuditProofs!Charging,
                Audit!audit, AuditProofs!audit
  <1>4. \A success, trial, verdict :
            Audit!Transact(key, charge, success, trial, verdict)
              <=> AuditProofs!Transact(key, charge, success, trial, verdict)
    BY <1>3 DEF Audit!Transact, AuditProofs!Transact
  <1>5. \A clone, original :
            Audit!RegisterClone(clone, original) <=> AuditProofs!RegisterClone(clone, original)
    BY DEF Audit!RegisterClone, AuditProofs!RegisterClone
  <1> QED BY <1>2, <1>4, <1>5

\* The log got one entry.
Logged(key, disposition) ==
    \E charge : attempts' = Append(attempts, [key |-> key, disposition |-> disposition,
                                              charge |-> charge])

\* The key was audited before, which ends the compile.
Repeated(key) == key \in Audit!AuditedKeys /\ failed' = TRUE /\ attempts' = attempts

\* A candidate that is dropped repeats a key or is logged, with what is said of it
\* or as exhausted (audit.rs, record_noncommitting_attempt).
LEMMA DropOutcome ==
    ASSUME AuditProofs!Inv, NEW key \in Key, NEW functions \in Seq(FunctionIds),
           NEW d \in {"rejected", "reused", "non-winner"}, Drop(key, functions, d)
    PROVE  /\ AuditProofs!Inv' /\ ~failed /\ program' = program /\ owners' = owners
           /\ \/ Repeated(key)
              \/ /\ key \notin Audit!AuditedKeys /\ failed' = failed
                 /\ Logged(key, d) \/ Logged(key, "budget-exhausted")
  <1>1. PICK u \in Units :
           Audit!Record(key, [functions |-> functions, proposer |-> u.proposer,
                              checker |-> u.checker], d)
    BY DEF Drop
  <1> DEFINE charge == [functions |-> functions, proposer |-> u.proposer, checker |-> u.checker]
  <1>2. charge \in [functions : Seq(FunctionIds), proposer : Nat, checker : Nat]
    BY WorkAssumption
  <1>3. Audit!Record(key, charge, d)
    BY <1>1
  <1> HIDE DEF charge
  <1>4. AuditProofs!Record(key, charge, d)
    BY <1>3, SameAudit
  <1>5. AuditProofs!Inv'
    BY <1>2, <1>4, AuditAssumed, AuditProofs!RecordInv DEF AuditProofs!NonCommitting
  <1>6. \/ Repeated(key)
        \/ /\ key \notin Audit!AuditedKeys /\ failed' = failed
           /\ Logged(key, d) \/ Logged(key, "budget-exhausted")
    BY <1>3 DEF Audit!Record, Audit!AppendAttempt, Repeated, Logged
  <1> QED BY <1>3, <1>5, <1>6 DEF Audit!Record

\* A candidate that is tried repeats a key, or is logged as what became of it, and
\* the program moves with a success only (transaction.rs).
LEMMA TryOutcome ==
    ASSUME AuditProofs!Inv, NEW key \in Key, NEW functions \in Seq(FunctionIds),
           NEW success \in {"accepted", "reused"}, NEW trial \in Program,
           NEW verdicts \in SUBSET {"ok", "reject", "compiler"},
           Try(key, functions, success, trial, verdicts)
    PROVE  /\ AuditProofs!Inv' /\ ~failed /\ owners' = owners
           /\ \/ Repeated(key) /\ program' = program
              \/ /\ key \notin Audit!AuditedKeys
                 /\ \/ Logged(key, "budget-exhausted") /\ failed' = failed /\ program' = program
                    \/ /\ "reject" \in verdicts
                       /\ Logged(key, "rejected") /\ failed' = failed /\ program' = program
                    \/ Logged(key, "compiler-error") /\ failed' = TRUE /\ program' = program
                    \/ Logged(key, success) /\ failed' = failed /\ program' = trial
  <1>1. PICK u \in Units, verdict \in verdicts :
           Audit!Transact(key, [functions |-> functions, proposer |-> u.proposer,
                                checker |-> u.checker], success, trial, verdict)
    BY DEF Try
  <1> DEFINE charge == [functions |-> functions, proposer |-> u.proposer, checker |-> u.checker]
  <1>2. charge \in [functions : Seq(FunctionIds), proposer : Nat, checker : Nat]
    BY WorkAssumption
  <1>3. Audit!Transact(key, charge, success, trial, verdict)
    BY <1>1
  <1> HIDE DEF charge
  <1>4. AuditProofs!Transact(key, charge, success, trial, verdict)
    BY <1>3, SameAudit
  <1>5. verdict \in {"ok", "reject", "compiler"}
    OBVIOUS
  <1>6. AuditProofs!Inv'
    BY <1>2, <1>4, <1>5, AuditAssumed, AuditProofs!TransactInv
  <1>7. ~failed /\ owners' = owners
    BY <1>3 DEF Audit!Transact, Audit!DuplicateKey, Audit!Exhaust, Audit!Reject, Audit!Abort,
                Audit!Commit, Audit!Charging, Audit!audit
  <1>8. \/ Repeated(key) /\ program' = program
        \/ /\ key \notin Audit!AuditedKeys
           /\ \/ Logged(key, "budget-exhausted") /\ failed' = failed /\ program' = program
              \/ /\ "reject" \in verdicts
                 /\ Logged(key, "rejected") /\ failed' = failed /\ program' = program
              \/ Logged(key, "compiler-error") /\ failed' = TRUE /\ program' = program
              \/ Logged(key, success) /\ failed' = failed /\ program' = trial
    BY <1>3 DEF Audit!Transact, Audit!DuplicateKey, Audit!Exhaust, Audit!Reject, Audit!Abort,
                Audit!Commit, Audit!Charging, Audit!audit, Audit!AppendAttempt, Repeated, Logged
  <1> QED BY <1>6, <1>7, <1>8

\* What an entry adds to what the log says.
LEMMA LoggedFacts ==
    ASSUME AuditProofs!Inv, NEW key, NEW d, Logged(key, d)
    PROVE  /\ Len(attempts) \in Nat /\ DOMAIN attempts = 1 .. Len(attempts)
           /\ Len(attempts') = Len(attempts) + 1
           /\ DOMAIN attempts' = DOMAIN attempts \cup {Len(attempts) + 1}
           /\ \A i \in DOMAIN attempts : attempts'[i] = attempts[i]
           /\ attempts'[Len(attempts) + 1].key = key
           /\ attempts'[Len(attempts) + 1].disposition = d
           /\ Audit!AuditedKeys' = Audit!AuditedKeys \cup {key}
           /\ AuditedVectors' = AuditedVectors \cup {k \in {key} : k.kind \in VectorKinds}
           /\ Won' = Won \cup {KeyPlace(k) : k \in {l \in {key} : d = "accepted" /\ l.kind \in VectorKinds}}
           /\ Exhausted' = Exhausted \cup {k.function : k \in {l \in {key} : d = "budget-exhausted"}}
  <1>1. attempts \in Seq(AuditProofs!Attempt)
    BY DEF AuditProofs!Inv
  <1>2. PICK charge : attempts' = Append(attempts, [key |-> key, disposition |-> d, charge |-> charge])
    BY DEF Logged
  <1>3. /\ Len(attempts) \in Nat /\ DOMAIN attempts = 1 .. Len(attempts)
        /\ Len(attempts') = Len(attempts) + 1
        /\ DOMAIN attempts' = 1 .. Len(attempts) + 1
        /\ \A i \in DOMAIN attempts : attempts'[i] = attempts[i]
        /\ attempts'[Len(attempts) + 1] = [key |-> key, disposition |-> d, charge |-> charge]
    BY <1>1, <1>2
  <1>4. DOMAIN attempts' = DOMAIN attempts \cup {Len(attempts) + 1}
    BY <1>3
  <1>5. /\ attempts'[Len(attempts) + 1].key = key
        /\ attempts'[Len(attempts) + 1].disposition = d
    BY <1>3
  <1>6. Audit!AuditedKeys' = Audit!AuditedKeys \cup {key}
    BY <1>3, <1>4, <1>5 DEF Audit!AuditedKeys
  <1>7. AuditedVectors' = AuditedVectors \cup {k \in {key} : k.kind \in VectorKinds}
    BY <1>6 DEF AuditedVectors
  <1>8. Won' = Won \cup {KeyPlace(k) : k \in {l \in {key} : d = "accepted" /\ l.kind \in VectorKinds}}
    BY <1>3, <1>4, <1>5 DEF Won
  <1>9. Exhausted' = Exhausted \cup {k.function : k \in {l \in {key} : d = "budget-exhausted"}}
    BY <1>3, <1>4, <1>5 DEF Exhausted
  <1> QED BY <1>3, <1>4, <1>5, <1>6, <1>7, <1>8, <1>9

-----------------------------------------------------------------------------
(* Functions, keys and trials. *)

\* The functions of the entry module are numbered from one, and what follows them
\* are clones.
IdentitiesFit ==
    /\ IsFiniteSet(Functions0) /\ Functions0 = 1 .. Cardinality(Functions0)
    /\ \A f \in DOMAIN program : f \in Functions0 \/ program[f].digest # 0

\* The limits leave every function an identity (kir_pipeline.rs:1381).
LEMMA IdentitiesInRange ==
    ASSUME CloneInv, IdentitiesFit
    PROVE  DOMAIN program \subseteq FunctionIds /\ Functions0 \subseteq Nat
  <1> DEFINE n == Cardinality(Functions0)
             added == n + 1 .. Len(program)
  <1>1. n \in Nat /\ PerModule \in Nat /\ FunctionIds = 1 .. n + PerModule
    BY FS_CardinalityType, LimitAssumption DEF IdentitiesFit
  <1>2. Len(program) \in Nat /\ DOMAIN program = 1 .. Len(program)
    BY Shape DEF CloneInv
  <1>3. added \subseteq Clones
    BY <1>1, <1>2 DEF IdentitiesFit, Clones
  <1>4. IsFiniteSet(Clones) /\ Cardinality(Clones) \in Nat /\ Cardinality(Clones) <= PerModule
    BY ClonesAreFinite DEF CloneInv, CloneLimits
  <1>5. Cardinality(added) <= Cardinality(Clones)
    BY <1>3, <1>4, FS_Subset
  <1>6. Len(program) > n => Cardinality(added) = Len(program) - n
    BY <1>1, <1>2, FS_Interval
  <1>7. Len(program) <= n + PerModule
    BY <1>1, <1>2, <1>4, <1>5, <1>6
  <1>8. DOMAIN program \subseteq FunctionIds
    BY <1>1, <1>2, <1>7
  <1>9. Functions0 \subseteq Nat
    BY <1>1 DEF IdentitiesFit
  <1> QED BY <1>8, <1>9

\* What discovery finds is well-formed, and so are its keys.
LEMMA CallKeyTyped ==
    ASSUME CloneInv, IdentitiesFit, NEW c \in Call
    PROVE  CallKey(c) \in Key /\ Charging(c) \in Seq(FunctionIds)
  <1>1. c.caller \in FunctionIds /\ c.callee \in FunctionIds /\ c.callee \in Nat
        /\ c.id \in Nat /\ c.digest \in Nat
    BY IdentitiesInRange, WorkAssumption DEF Call
  <1> QED BY <1>1 DEF CallKey, Charging, Key

LEMMA BlocksTyped ==
    ASSUME CloneInv, NEW f \in DOMAIN program
    PROVE  /\ program[f] \in Function /\ program[f].regions \subseteq Nat
           /\ \A b \in program[f].blocks :
                 /\ b \in Block /\ b.id \in Nat /\ b.loop \in BOOLEAN
                 /\ b.kinds \subseteq LoopKinds \X Nat /\ b.widths \subseteq Nat
                 /\ b.packs \subseteq Pack
  <1>1. program[f] \in Function
    BY Shape DEF CloneInv
  <1>2. program[f].blocks \subseteq Block /\ program[f].regions \subseteq Nat
    BY <1>1 DEF Function
  <1> QED BY <1>1, <1>2 DEF Block

LEMMA LoopKeyTyped ==
    ASSUME CloneInv, IdentitiesFit, NEW kind \in LoopKinds, NEW o \in Offers(kind)
    PROVE  /\ o.function \in DOMAIN program
           /\ o = [function |-> o.function, block |-> o.block, factor |-> o.factor]
           /\ LoopKey(kind, o) \in Key /\ <<o.function>> \in Seq(FunctionIds)
  <1>1. PICK f \in DOMAIN program : \E b \in program[f].blocks : \E k \in b.kinds :
           o = [function |-> f, block |-> b.id, factor |-> k[2]]
    BY DEF Offers
  <1>2. PICK b \in program[f].blocks : \E k \in b.kinds :
           o = [function |-> f, block |-> b.id, factor |-> k[2]]
    BY <1>1
  <1>3. PICK k \in b.kinds : o = [function |-> f, block |-> b.id, factor |-> k[2]]
    BY <1>2
  <1>4. f \in FunctionIds /\ b.id \in Nat /\ k[2] \in Nat
    BY BlocksTyped, IdentitiesInRange
  <1>5. o.function = f /\ o.block = b.id /\ o.factor = k[2]
    BY <1>3
  <1>6. LoopKey(kind, o) \in Key
    BY <1>4, <1>5 DEF LoopKey, Key
  <1> QED BY <1>3, <1>4, <1>5, <1>6

LEMMA AlternativeKeyTyped ==
    ASSUME NEW a \in Alternative
    PROVE  /\ KeyOf(a) \in Key /\ <<a.function>> \in Seq(FunctionIds)
           /\ KeyOf(a).kind = a.kind /\ KeyOf(a).kind \in VectorKinds
           /\ KeyOf(a).function = a.function /\ KeyPlace(KeyOf(a)) = Place(a)
  BY DEF Alternative, KeyOf, Key, VectorKinds, KeyPlace, Place

LEMMA WidthsTyped ==
    ASSUME CloneInv, IdentitiesFit, NEW a \in Widths
    PROVE  /\ a \in Alternative /\ a.function \in DOMAIN program /\ a.kind = "loop-simd"
           /\ LoopsHaveWidths => a.block \in LoopBlocks(a.function)
           /\ \A c \in Widths : KeyOf(a) = KeyOf(c) => a = c
  <1>1. \A c \in Widths : \E f \in DOMAIN program : \E b \in program[f].blocks : \E w \in b.widths :
            c = Width(f, b, w)
    BY DEF Widths
  <1>2. PICK f \in DOMAIN program : \E b \in program[f].blocks : \E w \in b.widths : a = Width(f, b, w)
    BY <1>1
  <1>3. PICK b \in program[f].blocks : \E w \in b.widths : a = Width(f, b, w)
    BY <1>2
  <1>4. PICK w \in b.widths : a = Width(f, b, w)
    BY <1>3
  <1>5. f \in FunctionIds /\ b.id \in Nat /\ w \in Nat
    BY BlocksTyped, IdentitiesInRange
  <1>6. a \in Alternative
    BY <1>4, <1>5 DEF Width, Alternative, VectorKinds
  <1>7. a.function = f /\ a.kind = "loop-simd" /\ a.block = b.id
    BY <1>4 DEF Width
  <1>8. LoopsHaveWidths => a.block \in LoopBlocks(a.function)
    BY <1>7 DEF LoopsHaveWidths, LoopBlocks
  <1>9. ASSUME NEW c \in Widths, KeyOf(a) = KeyOf(c)
        PROVE  a = c
    <2>1. PICK g \in DOMAIN program : \E d \in program[g].blocks : \E v \in d.widths : c = Width(g, d, v)
      BY <1>1
    <2>2. PICK d \in program[g].blocks : \E v \in d.widths : c = Width(g, d, v)
      BY <2>1
    <2>3. PICK v \in d.widths : c = Width(g, d, v)
      BY <2>2
    <2>4. f = g /\ b.id = d.id /\ w = v
      BY <1>4, <1>9, <2>3 DEF KeyOf, Width
    <2> QED BY <1>4, <2>3, <2>4 DEF Width
  <1> QED BY <1>6, <1>7, <1>8, <1>9

\* The packs of a block, and among them two with one key.
LEMMA PacksTyped ==
    ASSUME CloneInv, IdentitiesFit, NEW f \in DOMAIN program, NEW b \in program[f].blocks,
           NEW a \in PacksOf(f, b)
    PROVE  /\ a \in Alternative /\ a.function = f /\ a.block = b.id /\ a.kind = "slp"
           /\ PacksApart => \A c \in PacksOf(f, b) : KeyOf(a) = KeyOf(c) => a = c
  <1>1. PICK p \in b.packs : a = Packed(f, b, p)
    BY DEF PacksOf
  <1>2. f \in FunctionIds /\ b.id \in Nat /\ p \in Pack
    BY BlocksTyped, IdentitiesInRange
  <1>3. a \in Alternative
    BY <1>1, <1>2 DEF Packed, Pack, Alternative, VectorKinds
  <1>4. a.function = f /\ a.block = b.id /\ a.kind = "slp"
    BY <1>1 DEF Packed
  <1>5. ASSUME PacksApart, NEW c \in PacksOf(f, b), KeyOf(a) = KeyOf(c)
        PROVE  a = c
    <2>1. PICK q \in b.packs : c = Packed(f, b, q)
      BY DEF PacksOf
    <2>2. p.root = q.root /\ p.lanes = q.lanes
      BY <1>1, <1>5, <2>1 DEF KeyOf, Packed
    <2>3. p = q
      BY <1>5, <2>2 DEF PacksApart
    <2> QED BY <1>1, <2>1, <2>3
  <1> QED BY <1>3, <1>4, <1>5

LEMMA ResidualTyped ==
    ASSUME CloneInv, IdentitiesFit, NEW a \in Residual
    PROVE  /\ a \in Alternative /\ a.function \in DOMAIN program /\ a.kind = "slp"
           /\ a.block \notin Closed(a.function)
           /\ BlocksApart /\ PacksApart => \A c \in Residual : KeyOf(a) = KeyOf(c) => a = c
  <1>1. \A c \in Residual : \E f \in DOMAIN program :
            \E b \in {b \in program[f].blocks : b.id \notin Closed(f)} : c \in PacksOf(f, b)
    BY DEF Residual
  <1>2. PICK f \in DOMAIN program : \E b \in program[f].blocks :
            b.id \notin Closed(f) /\ a \in PacksOf(f, b)
    BY <1>1
  <1>3. PICK b \in program[f].blocks : b.id \notin Closed(f) /\ a \in PacksOf(f, b)
    BY <1>2
  <1>4. /\ a \in Alternative /\ a.function = f /\ a.block = b.id /\ a.kind = "slp"
        /\ PacksApart => \A c \in PacksOf(f, b) : KeyOf(a) = KeyOf(c) => a = c
    BY <1>3, PacksTyped
  <1>5. ASSUME BlocksApart, PacksApart, NEW c \in Residual, KeyOf(a) = KeyOf(c)
        PROVE  a = c
    <2>1. PICK g \in DOMAIN program : \E d \in program[g].blocks : c \in PacksOf(g, d)
      BY <1>1
    <2>2. PICK d \in program[g].blocks : c \in PacksOf(g, d)
      BY <2>1
    <2>3. c.function = g /\ c.block = d.id
      BY <2>2, PacksTyped
    <2>4. f = g /\ b.id = d.id
      BY <1>4, <1>5, <2>3 DEF KeyOf
    <2>5. b = d
      BY <1>5, <2>4 DEF BlocksApart
    <2> QED BY <1>4, <1>5, <2>2, <2>4, <2>5
  <1> QED BY <1>3, <1>4, <1>5

-----------------------------------------------------------------------------
(* What becomes of the blocks. *)

\* Every block descends from one block, with no more widths and packs than it had.
From(new, old) ==
    \A b, c \in new : \E d, e \in old :
        /\ b.id = d.id /\ c.id = e.id /\ (d = e => b = c)
        /\ b.loop = d.loop /\ b.widths \subseteq d.widths /\ b.packs \subseteq d.packs

Descends ==
    \A f \in DOMAIN program' : \E g \in DOMAIN program : From(program'[f].blocks, program[g].blocks)

LEMMA DescendsKeeps ==
    ASSUME Descends
    PROVE  /\ LoopsHaveWidths => LoopsHaveWidths'
           /\ BlocksApart => BlocksApart'
           /\ PacksApart => PacksApart'
  <1>1. ASSUME LoopsHaveWidths, NEW f \in DOMAIN program', NEW b \in program'[f].blocks,
               b.widths # {}
        PROVE  b.loop
    BY <1>1 DEF Descends, From, LoopsHaveWidths
  <1>2. ASSUME BlocksApart, NEW f \in DOMAIN program', NEW b \in program'[f].blocks,
               NEW c \in program'[f].blocks, b.id = c.id
        PROVE  b = c
    BY <1>2 DEF Descends, From, BlocksApart
  <1>3. ASSUME PacksApart, NEW f \in DOMAIN program', NEW b \in program'[f].blocks,
               NEW p \in b.packs, NEW q \in b.packs, p.root = q.root /\ p.lanes = q.lanes
        PROVE  p = q
    BY <1>3 DEF Descends, From, PacksApart
  <1> QED BY <1>1, <1>2, <1>3 DEF LoopsHaveWidths, BlocksApart, PacksApart

LEMMA FromItself == ASSUME NEW S PROVE From(S, S)
  BY DEF From

LEMMA SameBlocks == program' = program => Descends
  BY FromItself DEF Descends

\* A rewrite of one function, block by block.
LEMMA OneFunctionRewritten ==
    ASSUME CloneInv, NEW f \in DOMAIN program, NEW new \in Function,
           program' = [program EXCEPT ![f] = new], From(new.blocks, program[f].blocks)
    PROVE  program' \in Program /\ Descends
  <1>1. program \in Seq(Function)
    BY DEF CloneInv, ProgramOK, Program
  <1>2. program' \in Program
    BY <1>1 DEF Program
  <1>3. /\ DOMAIN program' = DOMAIN program /\ program'[f] = new
        /\ \A g \in DOMAIN program : g # f => program'[g] = program[g]
    OBVIOUS
  <1>4. ASSUME NEW g \in DOMAIN program'
        PROVE  g \in DOMAIN program /\ From(program'[g].blocks, program[g].blocks)
    BY <1>3, FromItself
  <1> QED BY <1>2, <1>4, Zenon DEF Descends

\* The blocks of a function, each rewritten in its own way.
LEMMA BlocksRewritten ==
    ASSUME NEW S \in SUBSET Block, NEW m \in [S -> Block],
           \A b \in S : /\ m[b].id = b.id /\ m[b].loop = b.loop
                        /\ m[b].widths \subseteq b.widths /\ m[b].packs \subseteq b.packs
    PROVE  {m[b] : b \in S} \in SUBSET Block /\ From({m[b] : b \in S}, S)
  BY DEF From

LEMMA RewrittenMoves ==
    ASSUME CloneInv, NEW kind \in LoopKinds, NEW o \in Offers(kind),
           o.function \in DOMAIN program
    PROVE  /\ Rewritten(kind, o) \in Program
           /\ program' = Rewritten(kind, o) => Descends
  <1> DEFINE f == o.function
             S == program[f].blocks
             m == [b \in S |-> IF b.id # o.block THEN b
                               ELSE [b EXCEPT !.kinds = {k \in @ : k[1] # kind}]]
             B == {IF b.id # o.block THEN b
                   ELSE [b EXCEPT !.kinds = {k \in @ : k[1] # kind}] : b \in S}
             R == IF kind = "decision-tree" THEN program[f].regions \cup {Added}
                  ELSE program[f].regions
             new == [program[f] EXCEPT !.blocks = B, !.regions = R]
  <1>1. program[f] \in Function /\ S \in SUBSET Block /\ program[f].regions \subseteq Nat
    BY BlocksTyped
  <1>2. m \in [S -> Block]
    <2>1. ASSUME NEW b \in S PROVE m[b] \in Block
      BY <1>1 DEF Block
    <2> QED BY <2>1
  <1>3. \A b \in S : /\ m[b].id = b.id /\ m[b].loop = b.loop
                     /\ m[b].widths \subseteq b.widths /\ m[b].packs \subseteq b.packs
    BY <1>1 DEF Block
  <1>4. B \in SUBSET Block /\ From(B, S)
    <2>1. B = {m[b] : b \in S}
      OBVIOUS
    <2> HIDE DEF m, S, B
    <2>2. {m[b] : b \in S} \in SUBSET Block /\ From({m[b] : b \in S}, S)
      BY <1>1, <1>2, <1>3, BlocksRewritten
    <2> QED BY <2>1, <2>2
  <1>5. new \in Function /\ new.blocks = B
    <2>1. R \in SUBSET Nat
      BY <1>1 DEF Added
    <2> HIDE DEF m, S, B, R
    <2> QED BY <1>1, <1>4, <2>1 DEF Function
  <1>6. Rewritten(kind, o) = [program EXCEPT ![f] = new]
    BY Zenon DEF Rewritten
  <1>7. program \in Seq(Function)
    BY DEF CloneInv, ProgramOK, Program
  <1>8. From(new.blocks, program[f].blocks)
    BY <1>4, <1>5
  <1> HIDE DEF new, m, S, B, R
  <1>9. Rewritten(kind, o) \in Program
    BY <1>5, <1>6, <1>7 DEF Program
  <1> QED BY <1>5, <1>6, <1>8, <1>9, OneFunctionRewritten

LEMMA VectorizedMoves ==
    ASSUME CloneInv, NEW a \in Alternative, a.function \in DOMAIN program
    PROVE  /\ Vectorized(a) \in Program
           /\ program' = Vectorized(a) =>
                 /\ Descends
                 /\ \A f \in DOMAIN program : Closed(f) \subseteq Closed(f)'
                 /\ a.kind = "slp" => a.block \in Closed(a.function)'
                 /\ a.block \in LoopBlocks(a.function) => a.block \in Closed(a.function)'
  <1> DEFINE f == a.function
             S == program[f].blocks
             m == [b \in S |-> IF b.id # a.block THEN b
                               ELSE IF a.kind = "loop-simd" THEN [b EXCEPT !.widths = {}]
                               ELSE [b EXCEPT !.packs = {p \in @ : p.root # a.root}]]
             B == {IF b.id # a.block THEN b
                   ELSE IF a.kind = "loop-simd" THEN [b EXCEPT !.widths = {}]
                   ELSE [b EXCEPT !.packs = {p \in @ : p.root # a.root}] : b \in S}
             R == program[f].regions \cup {IF a.kind = "slp" THEN a.block ELSE Added}
             new == [program[f] EXCEPT !.regions = R, !.blocks = B]
  <1>1. /\ program[f] \in Function /\ S \in SUBSET Block /\ a.block \in Nat
        /\ program[f].regions \subseteq Nat
    BY BlocksTyped DEF Alternative
  <1>2. m \in [S -> Block]
    <2>1. ASSUME NEW b \in S PROVE m[b] \in Block
      BY <1>1 DEF Block
    <2> QED BY <2>1
  <1>3. \A b \in S : /\ m[b].id = b.id /\ m[b].loop = b.loop
                     /\ m[b].widths \subseteq b.widths /\ m[b].packs \subseteq b.packs
    BY <1>1 DEF Block
  <1>4. B \in SUBSET Block /\ From(B, S)
    <2>1. B = {m[b] : b \in S}
      OBVIOUS
    <2> HIDE DEF m, S, B
    <2>2. {m[b] : b \in S} \in SUBSET Block /\ From({m[b] : b \in S}, S)
      BY <1>1, <1>2, <1>3, BlocksRewritten
    <2> QED BY <2>1, <2>2
  <1>5. new \in Function /\ new.blocks = B /\ new.regions = R
    <2>1. R \in SUBSET Nat
      BY <1>1 DEF Added
    <2> HIDE DEF m, S, B, R
    <2> QED BY <1>1, <1>4, <2>1 DEF Function
  <1>6. Vectorized(a) = [program EXCEPT ![f] = new]
    BY Zenon DEF Vectorized
  <1>7. program \in Seq(Function)
    BY DEF CloneInv, ProgramOK, Program
  <1>8. From(new.blocks, program[f].blocks)
    BY <1>4, <1>5
  <1>9. ASSUME program' = Vectorized(a), NEW g \in DOMAIN program
        PROVE  /\ program[g].regions \subseteq program'[g].regions
               /\ LoopBlocks(g) \subseteq LoopBlocks(g)'
    <2>1. CASE g = f
      <3>1. program'[g] = new
        BY <1>6, <1>9, <2>1
      <3>2. \A b \in S : b.loop => \E c \in new.blocks : c.loop /\ c.id = b.id
        <4>1. B = {m[b] : b \in S}
          OBVIOUS
        <4> HIDE DEF m, new, S, B
        <4> QED BY <1>3, <1>5, <4>1
      <3> HIDE DEF new, B
      <3>3. program[f].regions \subseteq program'[f].regions
        BY <1>5, <2>1, <3>1
      <3>4. ASSUME NEW id \in LoopBlocks(f) PROVE id \in LoopBlocks(f)'
        BY <1>5, <2>1, <3>1, <3>2, <3>4 DEF LoopBlocks
      <3> QED BY <2>1, <3>3, <3>4
    <2>2. CASE g # f
      BY <1>6, <1>9, <2>2 DEF LoopBlocks
    <2> QED BY <2>1, <2>2
  <1>10. program' = Vectorized(a) =>
             program'[f].regions = R
    <2> HIDE DEF new, R
    <2> QED BY <1>5, <1>6
  <1> HIDE DEF new, m, S, B
  <1>11. Vectorized(a) \in Program
    BY <1>5, <1>6, <1>7 DEF Program
  <1>12. program' = Vectorized(a) => Descends
    BY <1>5, <1>6, <1>8, OneFunctionRewritten
  <1>13. program' = Vectorized(a) => \A g \in DOMAIN program : Closed(g) \subseteq Closed(g)'
    BY <1>9 DEF Closed
  <1>14. ASSUME program' = Vectorized(a)
         PROVE  /\ a.kind = "slp" => a.block \in Closed(f)'
                /\ a.block \in LoopBlocks(f) => a.block \in Closed(f)'
    BY <1>9, <1>10, <1>14 DEF Closed
  <1> QED BY <1>11, <1>12, <1>13, <1>14

LEMMA CloneMoves ==
    ASSUME CloneInv, NEW c \in Call
    PROVE  /\ Append(program, NewClone(c)) \in Program
           /\ program' = Append(program, NewClone(c)) => Descends
  <1>1. program \in Seq(Function) /\ c.callee \in DOMAIN program /\ c.digest \in Nat
    BY DEF CloneInv, ProgramOK, Program, Call
  <1>2. program[c.callee] \in Function
    BY <1>1
  <1>3. NewClone(c) \in Function /\ NewClone(c).blocks = program[c.callee].blocks
    BY <1>1, <1>2 DEF NewClone, Function
  <1>4. Append(program, NewClone(c)) \in Program
    BY <1>1, <1>3 DEF Program
  <1>5. ASSUME program' = Append(program, NewClone(c)), NEW f \in DOMAIN program'
        PROVE  \E g \in DOMAIN program : From(program'[f].blocks, program[g].blocks)
    <2> DEFINE n == NewClone(c)
    <2> HIDE DEF n
    <2>1. \/ f \in DOMAIN program /\ program'[f] = program[f]
          \/ program'[f] = n
      BY <1>1, <1>5 DEF n
    <2> QED BY <1>1, <1>3, <2>1, FromItself DEF n
  <1> QED BY <1>4, <1>5 DEF Descends

-----------------------------------------------------------------------------
(* The log through a race. *)

\* Nothing is won that was not audited.
LEMMA WonWasAudited == \A p \in Won : \E k \in AuditedVectors : KeyPlace(k) = p
  BY DEF Won, AuditedVectors, Audit!AuditedKeys

\* A step that leaves the log alone.
LEMMA SameLog ==
    ASSUME attempts' = attempts
    PROVE  /\ Audit!AuditedKeys' = Audit!AuditedKeys /\ AuditedVectors' = AuditedVectors
           /\ Won' = Won /\ Exhausted' = Exhausted /\ (OneWinnerPerBlock <=> OneWinnerPerBlock')
  BY DEF Audit!AuditedKeys, AuditedVectors, Won, Exhausted, OneWinnerPerBlock

\* An entry adds a second winner to a block only if it wins a block that was won.
LEMMA LoggedKeepsWinners ==
    ASSUME AuditProofs!Inv, OneWinnerPerBlock, NEW key, NEW d, Logged(key, d),
           d = "accepted" /\ key.kind \in VectorKinds => KeyPlace(key) \notin Won
    PROVE  OneWinnerPerBlock'
  <1> DEFINE n == Len(attempts) + 1
  <1>1. /\ Len(attempts) \in Nat /\ DOMAIN attempts = 1 .. Len(attempts)
        /\ DOMAIN attempts' = DOMAIN attempts \cup {n}
        /\ \A i \in DOMAIN attempts : attempts'[i] = attempts[i]
        /\ attempts'[n].key = key /\ attempts'[n].disposition = d
    BY LoggedFacts
  <1>2. ASSUME NEW i \in DOMAIN attempts, attempts[i].key.kind \in VectorKinds,
               attempts[i].disposition = "accepted", d = "accepted", key.kind \in VectorKinds,
               attempts[i].key.function = key.function, attempts[i].key.place = key.place
        PROVE  FALSE
    BY <1>2 DEF Won, KeyPlace
  <1>3. ASSUME NEW i \in DOMAIN attempts', NEW j \in DOMAIN attempts',
               {attempts'[i].key.kind, attempts'[j].key.kind} \subseteq {"loop-simd", "slp"},
               attempts'[i].disposition = "accepted", attempts'[j].disposition = "accepted",
               attempts'[i].key.function = attempts'[j].key.function,
               attempts'[i].key.place = attempts'[j].key.place
        PROVE  i = j
    <2> HIDE DEF n
    <2>1. attempts'[i].key.kind \in VectorKinds /\ attempts'[j].key.kind \in VectorKinds
      BY <1>3 DEF VectorKinds
    <2>2. CASE i \in DOMAIN attempts /\ j \in DOMAIN attempts
      BY <1>1, <1>3, <2>2 DEF OneWinnerPerBlock
    <2>3. CASE i = n /\ j \in DOMAIN attempts
      BY <1>1, <1>2, <1>3, <2>1, <2>3
    <2>4. CASE i \in DOMAIN attempts /\ j = n
      BY <1>1, <1>2, <1>3, <2>1, <2>4
    <2> QED BY <1>1, <2>2, <2>3, <2>4
  <1> QED BY <1>3 DEF OneWinnerPerBlock

\* The log has one more entry, or the compile is over.
Audited(key) ==
    /\ key \notin Audit!AuditedKeys
    /\ Audit!AuditedKeys' = Audit!AuditedKeys \cup {key}
    /\ AuditedVectors' = AuditedVectors \cup {k \in {key} : k.kind \in VectorKinds}
    /\ Exhausted \subseteq Exhausted'

\* A candidate that is dropped wins nothing.
LEMMA Dropped ==
    ASSUME AuditProofs!Inv, NEW key \in Key, NEW functions \in Seq(FunctionIds),
           NEW d \in {"rejected", "reused", "non-winner"}, Drop(key, functions, d)
    PROVE  /\ AuditProofs!Inv' /\ ~failed /\ program' = program /\ owners' = owners
           /\ Won' = Won /\ (OneWinnerPerBlock => OneWinnerPerBlock')
           /\ Repeated(key) \/ (failed' = FALSE /\ Audited(key))
  <1>1. /\ AuditProofs!Inv' /\ ~failed /\ program' = program /\ owners' = owners
        /\ \/ Repeated(key)
           \/ /\ key \notin Audit!AuditedKeys /\ failed' = failed
              /\ Logged(key, d) \/ Logged(key, "budget-exhausted")
    BY DropOutcome
  <1>2. failed = FALSE
    BY <1>1 DEF AuditProofs!Inv
  <1>3. CASE Repeated(key)
    BY <1>1, <1>3, SameLog DEF Repeated
  <1>4. ASSUME NEW e \in {d, "budget-exhausted"}, Logged(key, e), key \notin Audit!AuditedKeys
        PROVE  /\ Won' = Won /\ (OneWinnerPerBlock => OneWinnerPerBlock')
               /\ Audited(key)
    <2>1. e # "accepted"
      OBVIOUS
    <2>2. OneWinnerPerBlock => OneWinnerPerBlock'
      BY <1>4, <2>1, LoggedKeepsWinners
    <2>3. /\ Audit!AuditedKeys' = Audit!AuditedKeys \cup {key}
          /\ AuditedVectors' = AuditedVectors \cup {k \in {key} : k.kind \in VectorKinds}
          /\ Won' = Won \cup {KeyPlace(k) : k \in {l \in {key} : e = "accepted" /\ l.kind \in VectorKinds}}
          /\ Exhausted' = Exhausted \cup {k.function : k \in {l \in {key} : e = "budget-exhausted"}}
      BY <1>4, LoggedFacts
    <2> QED BY <1>4, <2>1, <2>2, <2>3 DEF Audited
  <1> QED BY <1>1, <1>2, <1>3, <1>4

\* A candidate that is tried wins with its trial, or nothing.
LEMMA Tried ==
    ASSUME AuditProofs!Inv, NEW key \in Key, NEW functions \in Seq(FunctionIds),
           NEW success \in {"accepted", "reused"}, NEW trial \in Program,
           NEW verdicts \in SUBSET {"ok", "reject", "compiler"},
           Try(key, functions, success, trial, verdicts)
    PROVE  /\ AuditProofs!Inv' /\ ~failed /\ owners' = owners
           /\ \/ /\ program' = program /\ Won' = Won
                 /\ OneWinnerPerBlock => OneWinnerPerBlock'
                 /\ \/ Repeated(key)
                    \/ failed' = TRUE /\ attempts'[Len(attempts')].disposition = "compiler-error"
                    \/ /\ failed' = FALSE /\ Audited(key)
                       /\ "reject" \in verdicts \/ key.function \in Exhausted'
              \/ /\ program' = trial /\ failed' = FALSE /\ Audited(key)
                 /\ Won' = Won \cup {KeyPlace(k) : k \in {l \in {key} : success = "accepted"
                                                                       /\ l.kind \in VectorKinds}}
                 /\ OneWinnerPerBlock /\ (key.kind \in VectorKinds => KeyPlace(key) \notin Won)
                       => OneWinnerPerBlock'
  <1>1. /\ AuditProofs!Inv' /\ ~failed /\ owners' = owners
        /\ \/ Repeated(key) /\ program' = program
           \/ /\ key \notin Audit!AuditedKeys
              /\ \/ Logged(key, "budget-exhausted") /\ failed' = failed /\ program' = program
                 \/ /\ "reject" \in verdicts
                    /\ Logged(key, "rejected") /\ failed' = failed /\ program' = program
                 \/ Logged(key, "compiler-error") /\ failed' = TRUE /\ program' = program
                 \/ Logged(key, success) /\ failed' = failed /\ program' = trial
    BY TryOutcome
  <1>2. failed = FALSE
    BY <1>1 DEF AuditProofs!Inv
  <1>3. CASE Repeated(key) /\ program' = program
    BY <1>1, <1>3, SameLog DEF Repeated
  <1>4. ASSUME NEW e, Logged(key, e), key \notin Audit!AuditedKeys
        PROVE  /\ Audited(key) /\ attempts'[Len(attempts')].disposition = e
               /\ e # "accepted" => Won' = Won
               /\ Won' = Won \cup {KeyPlace(k) : k \in {l \in {key} : e = "accepted" /\ l.kind \in VectorKinds}}
               /\ e = "budget-exhausted" => key.function \in Exhausted'
    <2>1. /\ Len(attempts') = Len(attempts) + 1
          /\ attempts'[Len(attempts) + 1].disposition = e
          /\ Audit!AuditedKeys' = Audit!AuditedKeys \cup {key}
          /\ AuditedVectors' = AuditedVectors \cup {k \in {key} : k.kind \in VectorKinds}
          /\ Won' = Won \cup {KeyPlace(k) : k \in {l \in {key} : e = "accepted" /\ l.kind \in VectorKinds}}
          /\ Exhausted' = Exhausted \cup {k.function : k \in {l \in {key} : e = "budget-exhausted"}}
      BY <1>4, LoggedFacts
    <2>2. e # "accepted" => Won' = Won
      BY <2>1
    <2>3. Exhausted \subseteq Exhausted'
      BY <2>1
    <2>4. e = "budget-exhausted" => key.function \in Exhausted'
      BY <2>1
    <2> QED BY <1>4, <2>1, <2>2, <2>3, <2>4 DEF Audited
  <1>5. CASE /\ key \notin Audit!AuditedKeys /\ program' = program
             /\ Logged(key, "budget-exhausted") /\ failed' = failed
    <2>1. OneWinnerPerBlock => OneWinnerPerBlock'
      BY <1>5, LoggedKeepsWinners
    <2>2. Audited(key) /\ Won' = Won /\ key.function \in Exhausted'
      BY <1>4, <1>5
    <2> QED BY <1>1, <1>2, <1>5, <2>1, <2>2
  <1>6. CASE /\ key \notin Audit!AuditedKeys /\ program' = program /\ "reject" \in verdicts
             /\ Logged(key, "rejected") /\ failed' = failed
    <2>1. OneWinnerPerBlock => OneWinnerPerBlock'
      BY <1>6, LoggedKeepsWinners
    <2>2. Audited(key) /\ Won' = Won
      BY <1>4, <1>6
    <2> QED BY <1>1, <1>2, <1>6, <2>1, <2>2
  <1>7. CASE /\ key \notin Audit!AuditedKeys /\ program' = program
             /\ Logged(key, "compiler-error") /\ failed' = TRUE
    <2>1. OneWinnerPerBlock => OneWinnerPerBlock'
      BY <1>7, LoggedKeepsWinners
    <2>2. Won' = Won /\ attempts'[Len(attempts')].disposition = "compiler-error"
      BY <1>4, <1>7
    <2> QED BY <1>1, <1>7, <2>1, <2>2
  <1>8. CASE /\ key \notin Audit!AuditedKeys /\ program' = trial
             /\ Logged(key, success) /\ failed' = failed
    <2>1. OneWinnerPerBlock /\ (key.kind \in VectorKinds => KeyPlace(key) \notin Won)
             => OneWinnerPerBlock'
      BY <1>8, LoggedKeepsWinners
    <2>2. Audited(key)
          /\ Won' = Won \cup {KeyPlace(k) : k \in {l \in {key} : success = "accepted"
                                                                 /\ l.kind \in VectorKinds}}
      BY <1>4, <1>8
    <2> QED BY <1>1, <1>2, <1>8, <2>1, <2>2
  <1> QED BY <1>1, <1>3, <1>5, <1>6, <1>7, <1>8

-----------------------------------------------------------------------------
(* One winner in a block. *)

RaceInv ==
    /\ CloneInv /\ IdentitiesFit /\ AuditProofs!Inv
    /\ RaceTypes /\ OneWinnerPerBlock
    /\ ~Over => RaceLives

\* A compile that is over stays as it is.
LEMMA OverStutters == Over /\ [Next]_vars => UNCHANGED vars
  <1> SUFFICES ASSUME Over, Next PROVE FALSE
    OBVIOUS
  <1>1. ~Running
    BY DEF Over, InStage, Running
  <1>2. ~SpecializationStep
    BY <1>1 DEF SpecializationStep, RefuseClone, Reuse, Clone, RegisterBudget,
       SpecializationError, EndSpecialization, Specializing, Stage
  <1>3. ~LoopStep
    BY <1>1 DEF LoopStep, Propose, EndLoops, Stage
  <1>4. ~VectorStep
    BY <1>1 DEF VectorStep, SelectLoop, LeaveScalar, SelectPacks, EndVectors, TurnDown, Keep,
       Evaluating, VectorError, Skip, AddBodyPacks, Choose, Lose, Publish, Stage
  <1> QED BY <1>2, <1>3, <1>4 DEF Next

\* Where a frontier stands in the order.
LEMMA StageFacts ==
    ASSUME StagesFit
    PROVE  /\ \A s : InStage(s) => s \notin Ahead
           /\ InStage("residual-slp") => Ahead = {}
           /\ InStage("loop-simd") => Ahead \subseteq {"residual-slp"}
           /\ \A s, t : InStage(s) /\ InStage(t) => s = t
  BY DEF StagesFit, InStage, Ahead

LEMMA NextStageFacts ==
    ASSUME StagesFit, stages # <<>>, stages' = Tail(stages)
    PROVE  /\ StagesFit' /\ Ahead' \subseteq Ahead
           /\ stages' # <<>> => \E s \in Ahead : InStage(s)'
           /\ \A s : InStage(s)' => s \in Ahead
  <1> DEFINE S == {"specialization", "loop-simd", "residual-slp", "error"} \cup LoopKinds
  <1>1. stages \in Seq(S)
    BY DEF StagesFit
  <1> HIDE DEF S
  <1>2. /\ Len(stages) \in Nat /\ Len(stages) > 0 /\ DOMAIN stages = 1 .. Len(stages)
        /\ stages' \in Seq(S) /\ Len(stages') = Len(stages) - 1
        /\ DOMAIN stages' = 1 .. Len(stages) - 1
        /\ \A i \in DOMAIN stages' : stages'[i] = stages[i + 1]
    BY <1>1
  <1>3. StagesFit'
    <2>1. ASSUME NEW i \in DOMAIN stages', NEW j \in DOMAIN stages'
          PROVE  /\ stages'[i] = stages'[j] => i = j
                 /\ i < j => /\ stages'[i] # "residual-slp"
                             /\ stages'[i] = "loop-simd" => stages'[j] = "residual-slp"
      <3>1. /\ i + 1 \in DOMAIN stages /\ j + 1 \in DOMAIN stages
            /\ i < j => i + 1 < j + 1
            /\ i + 1 = j + 1 => i = j
        BY <1>2
      <3> QED BY <1>2, <3>1 DEF StagesFit
    <2> QED BY <1>2, <2>1 DEF StagesFit, S
  <1>4. Ahead' \subseteq Ahead
    BY <1>2 DEF Ahead
  <1>5. stages' # <<>> => 1 \in DOMAIN stages'
    BY <1>2
  <1>6. 1 \in DOMAIN stages' => stages'[1] \in Ahead
    BY <1>2 DEF Ahead
  <1> QED BY <1>3, <1>4, <1>5, <1>6 DEF InStage

\* The program keeps its functions or gets a clone.
LEMMA IdentitiesKeep ==
    ASSUME CloneInv, IdentitiesFit,
           \/ program' = program
           \/ SameFunctions
           \/ \E c \in Call : program' = Append(program, NewClone(c)) /\ program' \in Program
    PROVE  IdentitiesFit'
  <1>1. CASE program' = program \/ SameFunctions
    BY <1>1 DEF IdentitiesFit, SameFunctions
  <1>2. ASSUME NEW c \in Call, program' = Append(program, NewClone(c)), program' \in Program
        PROVE  IdentitiesFit'
    <2>1. c.digest # 0
      BY DEF Call
    <2> QED BY <1>2, <2>1, AppendedClone DEF IdentitiesFit
  <1> QED BY <1>1, <1>2

LEMMA SameAuditState ==
    ASSUME AuditProofs!Inv, UNCHANGED audit
    PROVE  AuditProofs!Inv' /\ program' = program /\ failed' = failed /\ attempts' = attempts
  BY DEF audit, AuditProofs!Inv, AuditProofs!OwnersOK

\* In a frontier that is not a vector one nothing is raced and nothing was won.
LEMMA NothingRaced ==
    ASSUME RaceInv, ~Over, ~InStage("loop-simd"), ~InStage("residual-slp")
    PROVE  /\ phase = "select" /\ pending = {} /\ alternatives = {} /\ Raced = {}
           /\ AuditedVectors = {} /\ Won = {}
  <1>1. PhaseFits /\ VectorsFit /\ RaceTypes
    BY DEF RaceInv, RaceLives
  <1>2. phase = "select" /\ pending = {} /\ alternatives = {}
    BY <1>1 DEF PhaseFits, RaceTypes
  <1>3. AuditedVectors = {}
    BY <1>1 DEF VectorsFit
  <1> QED BY <1>2, <1>3, WonWasAudited DEF Raced

LEMMA NextStageKeeps ==
    ASSUME RaceInv, ~Over, phase = "select", NextStage, CloneInv'
    PROVE  RaceInv'
  <1>1. /\ CloneInv /\ IdentitiesFit /\ AuditProofs!Inv /\ RaceTypes /\ OneWinnerPerBlock
        /\ StagesFit /\ PhaseFits /\ VectorsFit /\ LoopsHaveWidths
    BY DEF RaceInv, RaceLives
  <1>2. /\ stages' = Tail(stages) /\ seen' = {} /\ UNCHANGED <<phase, pending, alternatives, winner>>
        /\ UNCHANGED audit /\ stages # <<>>
    BY DEF NextStage, race, Over
  <1>3. pending = {} /\ alternatives = {} /\ Raced = {} /\ Raced' = {}
    BY <1>1, <1>2 DEF PhaseFits, RaceTypes, Raced
  <1>4. AuditProofs!Inv' /\ program' = program /\ failed' = failed /\ attempts' = attempts
    BY <1>1, <1>2, SameAuditState
  <1>5. /\ AuditedVectors' = AuditedVectors /\ Won' = Won /\ OneWinnerPerBlock'
    BY <1>1, <1>4, SameLog
  <1>6. IdentitiesFit' /\ RaceTypes'
    BY <1>1, <1>2, <1>3, <1>4, IdentitiesKeep DEF RaceTypes
  <1>7. StagesFit' /\ PhaseFits' /\ RacedFit' /\ LoopsHaveWidths'
    BY <1>1, <1>2, <1>3, <1>4, NextStageFacts DEF PhaseFits, RacedFit, LoopsHaveWidths
  <1>8. ASSUME ~Over' PROVE VectorsFit'
    <2>1. stages' # <<>>
      BY <1>8 DEF Over
    <2>2. PICK s \in Ahead : InStage(s)'
      BY <1>1, <1>2, <2>1, NextStageFacts
    <2>3. CASE AuditedVectors = {}
      BY <1>4, <1>5, <2>3, WonWasAudited DEF VectorsFit
    <2>4. CASE AuditedVectors # {}
      <3>1. "loop-simd" \notin Ahead /\ (InStage("loop-simd") \/ InStage("residual-slp"))
        BY <1>1, <2>4 DEF VectorsFit
      <3>2. s = "residual-slp"
        BY <1>1, <2>2, <3>1, StageFacts
      <3>3. InStage("residual-slp")' /\ ~InStage("loop-simd")' /\ "loop-simd" \notin Ahead'
        BY <1>1, <1>2, <2>2, <3>1, <3>2, NextStageFacts
      <3> QED BY <1>1, <1>4, <1>5, <3>3 DEF VectorsFit, Closed, LoopBlocks
    <2> QED BY <2>3, <2>4
  <1> QED BY <1>4, <1>5, <1>6, <1>7, <1>8 DEF RaceInv, RaceLives

\* Outside the vector frontiers there is nothing to disturb but the program.
LEMMA QuietKeeps ==
    ASSUME RaceInv, ~Over, ~InStage("loop-simd"), ~InStage("residual-slp"),
           UNCHANGED <<stages, race>>, CloneInv', IdentitiesFit', AuditProofs!Inv',
           OneWinnerPerBlock', Descends, failed' \/ AuditedVectors' = AuditedVectors
    PROVE  RaceInv'
  <1>1. /\ StagesFit /\ PhaseFits /\ VectorsFit /\ LoopsHaveWidths /\ RaceTypes
    BY DEF RaceInv, RaceLives
  <1>2. UNCHANGED <<phase, pending, alternatives, winner>>
    BY DEF race
  <1>3. phase = "select" /\ pending = {} /\ Raced = {} /\ Raced' = {}
    BY <1>2, NothingRaced DEF Raced
  <1>4. RaceTypes'
    BY <1>1, <1>2, <1>3 DEF RaceTypes
  <1>5. StagesFit' /\ PhaseFits' /\ RacedFit' /\ LoopsHaveWidths'
    BY <1>1, <1>2, <1>3, DescendsKeeps DEF StagesFit, PhaseFits, RacedFit, InStage
  <1>6. ASSUME ~Over' PROVE VectorsFit'
    <2>1. AuditedVectors' = {}
      BY <1>6, NothingRaced DEF Over
    <2>2. Won' = {}
      BY <2>1 DEF Won, AuditedVectors, Audit!AuditedKeys
    <2>3. ~InStage("loop-simd")'
      BY DEF InStage
    <2> QED BY <2>1, <2>2, <2>3 DEF VectorsFit
  <1> QED BY <1>4, <1>5, <1>6 DEF RaceInv, RaceLives

\* An error leaves the log and what is raced as they were.
LEMMA ErrorKeeps ==
    ASSUME RaceInv, PipelineError, CloneInv'
    PROVE  RaceInv'
  <1>1. /\ UNCHANGED <<phase, pending, alternatives, winner>> /\ UNCHANGED audit
    BY DEF PipelineError, race
  <1>2. /\ CloneInv /\ IdentitiesFit /\ AuditProofs!Inv /\ RaceTypes /\ OneWinnerPerBlock
    BY DEF RaceInv
  <1>3. AuditProofs!Inv' /\ program' = program /\ attempts' = attempts
    BY <1>1, <1>2, SameAuditState
  <1>4. IdentitiesFit' /\ OneWinnerPerBlock'
    BY <1>2, <1>3, IdentitiesKeep, SameLog
  <1>5. RaceTypes'
    BY <1>1, <1>2 DEF RaceTypes, Raced
  <1>6. Over'
    BY DEF PipelineError, Over, InStage
  <1> QED BY <1>3, <1>4, <1>5, <1>6 DEF RaceInv

LEMMA StageIsHead ==
    ASSUME NEW s, Stage(s) PROVE InStage(s) /\ stages # <<>> /\ ~failed
  BY DEF Stage, Running, InStage

\* A key that is no vector candidate's leaves those alone.
LEMMA OtherAudited ==
    ASSUME NEW key, Audited(key), key.kind \notin VectorKinds
    PROVE  AuditedVectors' = AuditedVectors
  BY DEF Audited

LEMMA SpecializationRaces == RaceInv /\ ~Over /\ SpecializationStep => RaceInv'
  <1> SUFFICES ASSUME RaceInv, ~Over, SpecializationStep PROVE RaceInv'
    OBVIOUS
  <1>1. /\ CloneInv /\ IdentitiesFit /\ AuditProofs!Inv /\ OneWinnerPerBlock /\ StagesFit
        /\ calls \in Seq(Call)
    BY DEF RaceInv, RaceLives, CloneInv
  <1>2. CloneInv'
    BY <1>1, SpecializationKeeps
  <1>3. Stage("specialization")
    BY DEF SpecializationStep, RefuseClone, Reuse, Clone, RegisterBudget,
           SpecializationError, EndSpecialization, Specializing
  <1>4. ~InStage("loop-simd") /\ ~InStage("residual-slp")
    BY <1>3, StageIsHead DEF InStage
  <1>5. phase = "select"
    BY <1>4, NothingRaced
  <1>6. ASSUME Specializing
        PROVE  /\ Current \in Call
               /\ CallKey(Current) \in Key /\ Charging(Current) \in Seq(FunctionIds)
               /\ CallKey(Current).kind \notin VectorKinds
    <2>1. Current \in Call
      BY <1>1, <1>6 DEF Specializing, Current
    <2>2. CallKey(Current).kind \notin VectorKinds
      BY DEF CallKey, VectorKinds
    <2> QED BY <1>1, <2>1, <2>2, CallKeyTyped
  <1>7. CASE RefuseClone
    <2>1. Specializing /\ Drop(CallKey(Current), Charging(Current), "rejected")
          /\ UNCHANGED <<stages, race>>
      BY <1>7 DEF RefuseClone, Proceed
    <2>2. /\ AuditProofs!Inv' /\ program' = program /\ OneWinnerPerBlock'
          /\ Repeated(CallKey(Current)) \/ (failed' = FALSE /\ Audited(CallKey(Current)))
      BY <1>1, <1>6, <2>1, Dropped
    <2>3. failed' \/ AuditedVectors' = AuditedVectors
      BY <1>6, <2>1, <2>2, OtherAudited DEF Repeated
    <2> QED BY <1>1, <1>2, <1>4, <2>1, <2>2, <2>3, IdentitiesKeep, SameBlocks, QuietKeeps
  <1>8. CASE Reuse
    <2>1. Specializing /\ UNCHANGED <<stages, race>>
          /\ Try(CallKey(Current), Charging(Current), "reused", program, Unchecked)
      BY <1>8 DEF Reuse, Proceed
    <2>2. program \in Program /\ Unchecked \in SUBSET {"ok", "reject", "compiler"}
      BY <1>1 DEF CloneInv, ProgramOK, Unchecked
    <2>3. /\ AuditProofs!Inv' /\ program' = program /\ OneWinnerPerBlock'
          /\ \/ Repeated(CallKey(Current)) \/ failed' = TRUE
             \/ (failed' = FALSE /\ Audited(CallKey(Current)))
      BY <1>1, <1>6, <2>1, <2>2, Tried
    <2>4. failed' \/ AuditedVectors' = AuditedVectors
      BY <1>6, <2>1, <2>3, OtherAudited DEF Repeated
    <2> QED BY <1>1, <1>2, <1>4, <2>1, <2>3, <2>4, IdentitiesKeep, SameBlocks, QuietKeeps
  <1>9. CASE Clone
    <2> DEFINE trial == Append(program, NewClone(Current))
    <2>1. Specializing /\ UNCHANGED <<stages, race>>
          /\ Try(CallKey(Current), Charging(Current), "accepted", trial, Unchecked)
      BY <1>9 DEF Clone, Proceed
    <2>2. trial \in Program /\ Unchecked \in SUBSET {"ok", "reject", "compiler"}
      BY <1>1, <1>6, <2>1, CloneMoves DEF Unchecked
    <2>3. /\ AuditProofs!Inv' /\ OneWinnerPerBlock'
          /\ program' = program \/ program' = trial
          /\ \/ Repeated(CallKey(Current)) \/ failed' = TRUE
             \/ (failed' = FALSE /\ Audited(CallKey(Current)))
      <3> HIDE DEF trial
      <3> QED BY <1>1, <1>6, <2>1, <2>2, Tried
    <2>4. failed' \/ AuditedVectors' = AuditedVectors
      BY <1>6, <2>1, <2>3, OtherAudited DEF Repeated
    <2>5. IdentitiesFit' /\ Descends
      <3>1. CASE program' = program
        BY <1>1, <3>1, IdentitiesKeep, SameBlocks
      <3>2. CASE program' = trial
        <4>1. IdentitiesFit'
          BY <1>1, <1>6, <2>1, <2>2, <3>2, IdentitiesKeep
        <4>2. Descends
          BY <1>1, <1>6, <2>1, <3>2, CloneMoves
        <4> QED BY <4>1, <4>2
      <3> QED BY <2>3, <3>1, <3>2
    <2> QED BY <1>1, <1>2, <1>4, <2>1, <2>3, <2>4, <2>5, QuietKeeps
  <1>10. CASE RegisterBudget
    <2>1. /\ UNCHANGED <<stages, race>> /\ owing # 0
          /\ Audit!RegisterClone(owing, program[Len(program)].origin)
      BY <1>10 DEF RegisterBudget
    <2>2. owing \in DOMAIN program /\ owing \notin Functions0
          /\ program[Len(program)].origin \in Functions0
      BY <1>1, <2>1, Shape DEF CloneInv, OwnersFollow, ProgramOK
    <2>3. owing \in FunctionIds \ Functions0 /\ program[Len(program)].origin \in FunctionIds
      BY <1>1, <2>2, IdentitiesInRange, WorkAssumption
    <2>4. AuditProofs!RegisterClone(owing, program[Len(program)].origin)
      BY <2>1, SameAudit
    <2>5. AuditProofs!Inv'
      BY <1>1, <2>3, <2>4, AuditAssumed, AuditProofs!RegisterCloneInv
    <2>6. program' = program /\ attempts' = attempts
      BY <2>1 DEF Audit!RegisterClone
    <2>7. AuditedVectors' = AuditedVectors /\ OneWinnerPerBlock'
      BY <1>1, <2>6, SameLog
    <2> QED BY <1>1, <1>2, <1>4, <2>1, <2>5, <2>6, <2>7, IdentitiesKeep, SameBlocks, QuietKeeps
  <1>11. CASE SpecializationError
    BY <1>2, <1>11, ErrorKeeps DEF SpecializationError
  <1>12. CASE EndSpecialization
    BY <1>2, <1>5, <1>12, NextStageKeeps DEF EndSpecialization
  <1> QED BY <1>7, <1>8, <1>9, <1>10, <1>11, <1>12 DEF SpecializationStep

LEMMA LoopRaces == RaceInv /\ ~Over /\ LoopStep => RaceInv'
  <1> SUFFICES ASSUME RaceInv, ~Over, NEW kind \in LoopKinds, Propose(kind) \/ EndLoops(kind)
               PROVE  RaceInv'
    BY DEF LoopStep
  <1>1. /\ CloneInv /\ IdentitiesFit /\ AuditProofs!Inv /\ OneWinnerPerBlock /\ StagesFit
    BY DEF RaceInv, RaceLives
  <1>2. CloneInv'
    BY <1>1, LoopKeeps DEF LoopStep
  <1>3. Stage(kind)
    BY DEF Propose, EndLoops
  <1>4. ~InStage("loop-simd") /\ ~InStage("residual-slp") /\ kind \notin VectorKinds
    BY <1>3, StageIsHead DEF InStage, LoopKinds, VectorKinds
  <1>5. phase = "select"
    BY <1>4, NothingRaced
  <1>6. CASE Propose(kind)
    <2>1. PICK o \in Offers(kind) :
             \/ Drop(LoopKey(kind, o), <<o.function>>, "rejected")
             \/ Try(LoopKey(kind, o), <<o.function>>, "accepted", Rewritten(kind, o), Unchecked)
      BY <1>6 DEF Propose
    <2>2. UNCHANGED <<stages, race>>
      BY <1>6 DEF Propose
    <2>3. /\ o.function \in DOMAIN program /\ LoopKey(kind, o) \in Key
          /\ <<o.function>> \in Seq(FunctionIds) /\ LoopKey(kind, o).kind \notin VectorKinds
      BY <1>1, <1>4, LoopKeyTyped DEF LoopKey
    <2>4. Rewritten(kind, o) \in Program /\ Unchecked \in SUBSET {"ok", "reject", "compiler"}
      BY <1>1, <2>3, RewrittenMoves DEF Unchecked
    <2>5. /\ AuditProofs!Inv' /\ OneWinnerPerBlock'
          /\ program' = program \/ program' = Rewritten(kind, o)
          /\ \/ Repeated(LoopKey(kind, o)) \/ failed' = TRUE
             \/ (failed' = FALSE /\ Audited(LoopKey(kind, o)))
      <3>1. CASE Drop(LoopKey(kind, o), <<o.function>>, "rejected")
        BY <1>1, <2>3, <3>1, Dropped
      <3>2. CASE Try(LoopKey(kind, o), <<o.function>>, "accepted", Rewritten(kind, o), Unchecked)
        BY <1>1, <2>3, <2>4, <3>2, Tried
      <3> QED BY <2>1, <3>1, <3>2
    <2>6. failed' \/ AuditedVectors' = AuditedVectors
      BY <2>3, <2>5, OtherAudited DEF Repeated
    <2>7. IdentitiesFit' /\ Descends
      <3>1. CASE program' = program
        BY <1>1, <3>1, IdentitiesKeep, SameBlocks
      <3>2. CASE program' = Rewritten(kind, o)
        BY <1>1, <2>3, <2>4, <3>2, IdentitiesKeep, RewrittenKeepsFunctions, RewrittenMoves DEF CloneInv
      <3> QED BY <2>5, <3>1, <3>2
    <2> QED BY <1>2, <1>4, <2>2, <2>5, <2>6, <2>7, QuietKeeps
  <1>7. CASE EndLoops(kind)
    BY <1>2, <1>5, <1>7, NextStageKeeps DEF EndLoops
  <1> QED BY <1>6, <1>7

\* A vector frontier that leaves program and log alone.
LEMMA UnloggedKeeps ==
    ASSUME RaceInv, ~Over, UNCHANGED <<stages, audit>>, seen \subseteq seen',
           CloneInv', RaceTypes', PhaseFits', RacedFit'
    PROVE  RaceInv'
  <1>1. /\ CloneInv /\ IdentitiesFit /\ AuditProofs!Inv /\ OneWinnerPerBlock
        /\ StagesFit /\ VectorsFit /\ LoopsHaveWidths
    BY DEF RaceInv, RaceLives
  <1>2. AuditProofs!Inv' /\ program' = program /\ attempts' = attempts
    BY <1>1, SameAuditState
  <1>3. /\ AuditedVectors' = AuditedVectors /\ Won' = Won /\ OneWinnerPerBlock' /\ IdentitiesFit'
    BY <1>1, <1>2, SameLog, IdentitiesKeep
  <1>4. /\ Ahead' = Ahead /\ \A s : InStage(s)' <=> InStage(s)
    BY DEF Ahead, InStage
  <1>5. StagesFit' /\ LoopsHaveWidths'
    BY <1>1, <1>2 DEF StagesFit, LoopsHaveWidths
  <1>6. VectorsFit'
    <2>1. \A f : Closed(f)' = Closed(f)
      BY <1>2 DEF Closed, LoopBlocks
    <2> QED BY <1>1, <1>2, <1>3, <1>4, <2>1 DEF VectorsFit
  <1> QED BY <1>2, <1>3, <1>5, <1>6 DEF RaceInv, RaceLives

\* A candidate of a race is logged and leaves it, or ends the compile.
LEMMA ChargedKeeps ==
    ASSUME RaceInv, ~Over, InStage("loop-simd") \/ InStage("residual-slp"),
           NEW a \in Raced, NEW d \in {"rejected", "non-winner"}, Charge(a, d),
           UNCHANGED <<stages, seen, phase, winner>>,
           pending' \subseteq pending, alternatives' \subseteq alternatives,
           phase = "decided" \/ alternatives' = alternatives, CloneInv'
    PROVE  /\ RaceInv'
           /\ program' = program
           /\ Repeated(KeyOf(a)) \/ (failed' = FALSE /\ Audited(KeyOf(a)))
  <1>1. /\ CloneInv /\ IdentitiesFit /\ AuditProofs!Inv /\ RaceTypes /\ OneWinnerPerBlock
        /\ StagesFit /\ PhaseFits /\ RacedFit /\ VectorsFit /\ LoopsHaveWidths
    BY DEF RaceInv, RaceLives
  <1>2. a \in Alternative
    BY <1>1 DEF RaceTypes
  <1>3. /\ KeyOf(a) \in Key /\ <<a.function>> \in Seq(FunctionIds) /\ KeyPlace(KeyOf(a)) = Place(a)
    BY <1>2, AlternativeKeyTyped
  <1>4. /\ AuditProofs!Inv' /\ program' = program /\ Won' = Won /\ OneWinnerPerBlock'
        /\ Repeated(KeyOf(a)) \/ (failed' = FALSE /\ Audited(KeyOf(a)))
    BY <1>1, <1>3, Dropped DEF Charge
  <1>5. Raced' \subseteq Raced
    BY DEF Raced
  <1>6. IdentitiesFit' /\ RaceTypes'
    BY <1>1, <1>4, <1>5, IdentitiesKeep DEF RaceTypes
  <1>7. /\ Ahead' = Ahead /\ \A s : InStage(s)' <=> InStage(s)
    BY DEF Ahead, InStage
  <1>8. \A f : Closed(f)' = Closed(f) /\ LoopBlocks(f)' = LoopBlocks(f)
    BY <1>4 DEF Closed, LoopBlocks
  <1>9. StagesFit' /\ LoopsHaveWidths'
    BY <1>1, <1>4 DEF StagesFit, LoopsHaveWidths
  <1>10. PhaseFits'
    BY <1>1, <1>5, <1>7 DEF PhaseFits
  <1>11. RacedFit'
    BY <1>1, <1>4, <1>5, <1>7, <1>8 DEF RacedFit, KeyOf
  <1>12. ASSUME ~Over' PROVE VectorsFit'
    <2>1. Audited(KeyOf(a))
      BY <1>4, <1>12 DEF Over, Repeated
    <2>2. "loop-simd" \notin Ahead
      BY <1>1, StageFacts
    <2>3. \A k \in AuditedVectors' : k \in AuditedVectors \/ k = KeyOf(a)
      BY <2>1 DEF Audited
    <2>4. InStage("loop-simd") => \A k \in AuditedVectors' : KeyPlace(k) \in seen
      BY <1>1, <1>3, <2>3 DEF VectorsFit, RacedFit
    <2> QED BY <1>1, <1>4, <1>7, <1>8, <2>2, <2>4 DEF VectorsFit
  <1> QED BY <1>4, <1>6, <1>9, <1>10, <1>11, <1>12 DEF RaceInv, RaceLives

LEMMA SelectLoopRaces == RaceInv /\ ~Over /\ SelectLoop /\ CloneInv' => RaceInv'
  <1> SUFFICES ASSUME RaceInv, ~Over, SelectLoop, CloneInv' PROVE RaceInv'
    OBVIOUS
  <1>1. /\ CloneInv /\ IdentitiesFit /\ RaceTypes
        /\ StagesFit /\ PhaseFits /\ RacedFit /\ VectorsFit /\ LoopsHaveWidths
    BY DEF RaceInv, RaceLives, CloneInv
  <1>2. /\ InStage("loop-simd") /\ ~InStage("residual-slp") /\ phase = "select"
    BY <1>1, StageIsHead, StageFacts DEF SelectLoop, Racing
  <1>3. PICK a \in UnseenLoops :
           /\ seen' = seen \cup {Place(a)}
           /\ pending' = {b \in Widths : Place(b) = Place(a)}
    BY DEF SelectLoop, First, Place
  <1>4. /\ phase' \in {"widths", "short"} /\ UNCHANGED <<stages, alternatives, winner, audit>>
    BY DEF SelectLoop, Racing
  <1>5. alternatives' = {} /\ winner' = Nobody /\ Raced' = pending'
    BY <1>1, <1>2, <1>4 DEF RaceTypes, Raced
  <1>6. \A b \in pending' : /\ b \in Alternative /\ b.function \in DOMAIN program
                            /\ b.kind = "loop-simd" /\ b.block \in LoopBlocks(b.function)
                            /\ Place(b) = Place(a)
    BY <1>1, <1>3, WidthsTyped
  <1>7. RaceTypes'
    BY <1>4, <1>5, <1>6 DEF RaceTypes
  <1>8. InStage("loop-simd")' /\ ~InStage("residual-slp")'
    BY <1>2, <1>4 DEF InStage
  <1>9. PhaseFits'
    BY <1>4, <1>5, <1>6, <1>8 DEF PhaseFits
  <1>10. Place(a) \notin Won
    <2>1. Place(a) \notin seen
      BY DEF UnseenLoops, Place
    <2> QED BY <1>1, <1>2, <2>1, WonWasAudited DEF VectorsFit
  <1>11. RacedFit'
    <2>1. program' = program /\ Won' = Won
      BY <1>4, SameLog DEF audit
    <2> QED BY <1>3, <1>5, <1>6, <1>8, <1>10, <2>1 DEF RacedFit, LoopBlocks
  <1> QED BY <1>3, <1>4, <1>7, <1>9, <1>11, UnloggedKeeps

LEMMA SelectPacksRaces == RaceInv /\ ~Over /\ SelectPacks /\ CloneInv' => RaceInv'
  <1> SUFFICES ASSUME RaceInv, ~Over, SelectPacks, CloneInv' PROVE RaceInv'
    OBVIOUS
  <1>1. /\ CloneInv /\ IdentitiesFit /\ RaceTypes
        /\ StagesFit /\ PhaseFits /\ RacedFit /\ VectorsFit /\ LoopsHaveWidths
    BY DEF RaceInv, RaceLives, CloneInv
  <1>2. /\ InStage("residual-slp") /\ ~InStage("loop-simd") /\ phase = "select"
    BY <1>1, StageIsHead, StageFacts DEF SelectPacks, Racing
  <1>3. PICK a \in UnseenPacks :
           /\ pending' \subseteq {b \in UnseenPacks : Place(b) = Place(a)}
           /\ seen' = seen \cup {KeyOf(b) : b \in pending'}
    BY DEF SelectPacks, First, Place
  <1>4. /\ phase' = "packs" /\ UNCHANGED <<stages, alternatives, winner, audit>>
    BY DEF SelectPacks, Racing
  <1>5. alternatives' = {} /\ winner' = Nobody /\ Raced' = pending'
    BY <1>1, <1>2, <1>4 DEF RaceTypes, Raced
  <1>6. \A b \in pending' : /\ b \in Alternative /\ b.function \in DOMAIN program
                            /\ b.kind = "slp" /\ b.block \notin Closed(b.function)
                            /\ Place(b) = Place(a)
    BY <1>1, <1>3, ResidualTyped DEF UnseenPacks
  <1>7. RaceTypes'
    BY <1>4, <1>5, <1>6 DEF RaceTypes
  <1>8. ~InStage("loop-simd")' /\ InStage("residual-slp")'
    BY <1>2, <1>4 DEF InStage
  <1>9. PhaseFits'
    BY <1>4, <1>5, <1>6, <1>8 DEF PhaseFits
  <1>10. \A b \in pending' : Place(b) \notin Won
    BY <1>1, <1>6 DEF VectorsFit, Place
  <1>11. RacedFit'
    <2>1. program' = program /\ Won' = Won
      BY <1>4, SameLog DEF audit
    <2> QED BY <1>3, <1>5, <1>6, <1>8, <1>10, <2>1 DEF RacedFit, KeyOf
  <1> QED BY <1>3, <1>4, <1>7, <1>9, <1>11, UnloggedKeeps

\* The phases of a race that only move alternatives about.
LEMMA KeepRaces ==
    ASSUME RaceInv, ~Over, CloneInv', NEW a \in pending, Keep(a) PROVE RaceInv'
  <1>1. RaceTypes /\ PhaseFits /\ RacedFit
    BY DEF RaceInv, RaceLives
  <1>2. /\ pending' = pending \ {a} /\ alternatives' = alternatives \cup {a}
        /\ phase \in {"widths", "packs"} /\ UNCHANGED <<stages, seen, phase, winner, audit>>
    BY DEF Keep, Evaluating, Racing
  <1>3. Raced' = Raced
    BY <1>2 DEF Raced
  <1>4. RaceTypes'
    BY <1>1, <1>2, <1>3 DEF RaceTypes
  <1>5. \A s : InStage(s)' <=> InStage(s)
    BY <1>2 DEF InStage
  <1>6. PhaseFits'
    BY <1>1, <1>2, <1>3, <1>5 DEF PhaseFits
  <1>7. RacedFit'
    <2>1. program' = program /\ Won' = Won
      BY <1>2, SameLog DEF audit
    <2> QED BY <1>1, <1>2, <1>3, <1>5, <2>1 DEF RacedFit, KeyOf, LoopBlocks
  <1> QED BY <1>2, <1>4, <1>6, <1>7, UnloggedKeeps

LEMMA SkipRaces == RaceInv /\ ~Over /\ Skip /\ CloneInv' => RaceInv'
  <1> SUFFICES ASSUME RaceInv, ~Over, Skip, CloneInv' PROVE RaceInv'
    OBVIOUS
  <1>1. RaceTypes /\ PhaseFits /\ RacedFit
    BY DEF RaceInv, RaceLives
  <1>2. /\ pending' = {} /\ alternatives' = {} /\ phase \in {"widths", "short", "packs"}
        /\ phase' = "select" /\ UNCHANGED <<stages, seen, winner, audit>>
    BY DEF Skip, Racing
  <1>3. Raced' = {}
    BY <1>2 DEF Raced
  <1>4. RaceTypes' /\ PhaseFits' /\ RacedFit'
    BY <1>1, <1>2, <1>3 DEF RaceTypes, PhaseFits, RacedFit
  <1> QED BY <1>2, <1>4, UnloggedKeeps

\* What the body of a raced loop adds to the race (kir_pipeline.rs:2452).
LEMMA BodyPacks ==
    ASSUME RaceInv, ~Over, AddBodyPacks
    PROVE  /\ InStage("loop-simd") /\ ~InStage("residual-slp") /\ phase = "widths" /\ phase' = "packs"
           /\ alternatives # {} /\ Raced = alternatives /\ Raced' = pending' \cup alternatives
           /\ UNCHANGED <<stages, seen, alternatives, winner, audit>>
           /\ \A b \in pending' : /\ b \in Alternative /\ b.kind = "slp"
                                  /\ b.function \in DOMAIN program
                                  /\ \A c \in alternatives : Place(b) = Place(c)
           /\ PacksApart => \A b, c \in pending' : KeyOf(b) = KeyOf(c) => b = c
  <1>1. /\ CloneInv /\ IdentitiesFit /\ RaceTypes /\ StagesFit /\ PhaseFits /\ RacedFit
    BY DEF RaceInv, RaceLives
  <1>2. /\ InStage("loop-simd") /\ ~InStage("residual-slp") /\ phase = "widths" /\ phase' = "packs"
        /\ pending = {} /\ alternatives # {}
        /\ UNCHANGED <<stages, seen, alternatives, winner, audit>>
    BY <1>1, StageIsHead, StageFacts DEF AddBodyPacks, Racing
  <1>3. Raced = alternatives /\ Raced' = pending' \cup alternatives
    BY <1>2 DEF Raced
  <1>4. PICK a \in alternatives : pending' \subseteq PacksOf(a.function, BlockOf(a))
    <2> DEFINE c == CHOOSE c \in alternatives : TRUE
    <2>1. c \in alternatives
      BY <1>2
    <2>2. pending' \subseteq PacksOf(c.function, BlockOf(c))
      BY DEF AddBodyPacks
    <2> QED BY <2>1, <2>2
  <1>5. /\ a \in Alternative /\ a.function \in DOMAIN program /\ a.block \in LoopBlocks(a.function)
        /\ \A c \in alternatives : Place(c) = Place(a)
    BY <1>1, <1>2, <1>3 DEF RaceTypes, RacedFit, PhaseFits
  <1>6. BlockOf(a) \in program[a.function].blocks /\ BlockOf(a).id = a.block
    <2>1. \E b \in program[a.function].blocks : b.id = a.block
      BY <1>5 DEF LoopBlocks
    <2> QED BY <2>1 DEF BlockOf
  <1>7. \A b \in pending' : /\ b \in Alternative /\ b.function = a.function /\ b.block = a.block
                            /\ b.kind = "slp"
    BY <1>1, <1>4, <1>5, <1>6, PacksTyped
  <1>8. PacksApart => \A b, c \in pending' : KeyOf(b) = KeyOf(c) => b = c
    BY <1>1, <1>4, <1>5, <1>6, PacksTyped
  <1>9. \A b \in pending' : \A c \in alternatives : Place(b) = Place(c)
    BY <1>5, <1>7 DEF Place
  <1> QED BY <1>2, <1>3, <1>5, <1>7, <1>8, <1>9

LEMMA AddBodyPacksRaces == RaceInv /\ ~Over /\ AddBodyPacks /\ CloneInv' => RaceInv'
  <1> SUFFICES ASSUME RaceInv, ~Over, AddBodyPacks, CloneInv' PROVE RaceInv'
    OBVIOUS
  <1>1. RaceTypes /\ PhaseFits /\ RacedFit
    BY DEF RaceInv, RaceLives
  <1>2. /\ InStage("loop-simd") /\ ~InStage("residual-slp") /\ phase = "widths" /\ phase' = "packs"
        /\ alternatives # {} /\ Raced = alternatives /\ Raced' = pending' \cup alternatives
        /\ UNCHANGED <<stages, seen, alternatives, winner, audit>>
        /\ \A b \in pending' : /\ b \in Alternative /\ b.kind = "slp"
                               /\ b.function \in DOMAIN program
                               /\ \A c \in alternatives : Place(b) = Place(c)
    BY BodyPacks
  <1>3. PICK a \in alternatives : TRUE
    BY <1>2
  <1>4. \A b \in Raced' : Place(b) = Place(a)
    BY <1>1, <1>2, <1>3 DEF RaceTypes
  <1>5. RaceTypes'
    BY <1>1, <1>2, <1>4 DEF RaceTypes
  <1>6. InStage("loop-simd")' /\ ~InStage("residual-slp")'
    BY <1>2 DEF InStage
  <1>7. PhaseFits'
    BY <1>2, <1>6 DEF PhaseFits
  <1>8. RacedFit'
    <2>1. program' = program /\ Won' = Won
      BY <1>2, SameLog DEF audit
    <2>2. Place(a) \in seen /\ Place(a) \notin Won
      BY <1>1, <1>2 DEF RacedFit
    <2>3. \A b \in Raced' : /\ b.function \in DOMAIN program
                            /\ b.kind = "loop-simd" => b.block \in LoopBlocks(b.function)
      BY <1>1, <1>2 DEF RacedFit
    <2> QED BY <1>2, <1>4, <1>6, <2>1, <2>2, <2>3 DEF RacedFit, LoopBlocks
  <1> QED BY <1>2, <1>5, <1>7, <1>8, UnloggedKeeps

LEMMA ChooseRaces == RaceInv /\ ~Over /\ Choose /\ CloneInv' => RaceInv'
  <1> SUFFICES ASSUME RaceInv, ~Over, Choose, CloneInv' PROVE RaceInv'
    OBVIOUS
  <1>1. RaceTypes /\ PhaseFits /\ RacedFit
    BY DEF RaceInv, RaceLives
  <1>2. PICK a \in alternatives : winner' = a /\ alternatives' = alternatives \ {a}
    BY DEF Choose
  <1>3. /\ pending = {} /\ phase = "packs" /\ phase' = "decided"
        /\ UNCHANGED <<stages, seen, pending, audit>>
    BY DEF Choose, Racing
  <1>4. Raced' = Raced
    BY <1>2, <1>3 DEF Raced
  <1>5. RaceTypes'
    BY <1>1, <1>3, <1>4 DEF RaceTypes
  <1>6. \A s : InStage(s)' <=> InStage(s)
    BY <1>3 DEF InStage
  <1>7. PhaseFits'
    BY <1>1, <1>3, <1>6 DEF PhaseFits
  <1>8. RacedFit'
    <2>1. program' = program /\ Won' = Won
      BY <1>3, SameLog DEF audit
    <2> QED BY <1>1, <1>3, <1>4, <1>6, <2>1 DEF RacedFit, KeyOf, LoopBlocks
  <1> QED BY <1>3, <1>5, <1>7, <1>8, UnloggedKeeps

\* The candidates that leave a race one by one.
LEMMA LeavingRace ==
    ASSUME RaceInv, ~Over, LeaveScalar \/ Lose \/ (\E a \in pending : TurnDown(a))
    PROVE  /\ InStage("loop-simd") \/ InStage("residual-slp")
           /\ UNCHANGED <<stages, calls, seen, phase, winner>>
           /\ \E a \in Raced, d \in {"rejected", "non-winner"} :
                 /\ Charge(a, d)
                 /\ \/ /\ a \in pending /\ phase # "decided"
                       /\ pending' = pending \ {a} /\ alternatives' = alternatives
                    \/ /\ a \in alternatives /\ phase = "decided"
                       /\ pending' = pending /\ alternatives' = alternatives \ {a}
  <1>1. PhaseFits
    BY DEF RaceInv, RaceLives
  <1>2. CASE LeaveScalar
    <2>1. PICK a \in pending : Charge(a, "non-winner") /\ pending' = pending \ {a}
      BY <1>2 DEF LeaveScalar, First
    <2>2. phase = "short" /\ UNCHANGED <<stages, calls, seen, phase, alternatives, winner>>
      BY <1>2 DEF LeaveScalar, Racing
    <2> QED BY <1>1, <2>1, <2>2 DEF PhaseFits, Raced
  <1>3. CASE Lose
    <2>1. PICK a \in alternatives : Charge(a, "non-winner") /\ alternatives' = alternatives \ {a}
      BY <1>3 DEF Lose
    <2>2. phase = "decided" /\ UNCHANGED <<stages, calls, seen, phase, pending, winner>>
      BY <1>3 DEF Lose, Racing
    <2> QED BY <1>1, <2>1, <2>2 DEF PhaseFits, Raced
  <1>4. ASSUME NEW a \in pending, TurnDown(a)
        PROVE  /\ InStage("loop-simd") \/ InStage("residual-slp")
               /\ UNCHANGED <<stages, calls, seen, phase, winner>>
               /\ Charge(a, "rejected") /\ pending' = pending \ {a} /\ alternatives' = alternatives
               /\ phase # "decided"
    <2>1. /\ Charge(a, "rejected") /\ pending' = pending \ {a} /\ phase \in {"widths", "packs"}
          /\ UNCHANGED <<stages, calls, seen, phase, alternatives, winner>>
      BY <1>4 DEF TurnDown, Evaluating, Racing
    <2> QED BY <1>1, <2>1 DEF PhaseFits
  <1> QED BY <1>2, <1>3, <1>4 DEF Raced

LEMMA LeavingRaces ==
    ASSUME RaceInv, ~Over, LeaveScalar \/ Lose \/ (\E a \in pending : TurnDown(a)), CloneInv'
    PROVE  RaceInv'
  <1>1. /\ InStage("loop-simd") \/ InStage("residual-slp")
        /\ UNCHANGED <<stages, calls, seen, phase, winner>>
    BY LeavingRace
  <1>2. PICK a \in Raced, d \in {"rejected", "non-winner"} :
           /\ Charge(a, d)
           /\ \/ pending' = pending \ {a} /\ alternatives' = alternatives
              \/ phase = "decided" /\ pending' = pending /\ alternatives' = alternatives \ {a}
    BY LeavingRace
  <1>3. /\ pending' \subseteq pending /\ alternatives' \subseteq alternatives
        /\ phase = "decided" \/ alternatives' = alternatives
    BY <1>2
  <1> QED BY <1>1, <1>2, <1>3, ChargedKeeps

\* What a winner leaves.
LEMMA Published ==
    ASSUME RaceInv, ~Over, Publish, NEW w, w = winner
    PROVE  /\ w \in Alternative /\ Raced = {w} /\ Raced' = {}
           /\ InStage("loop-simd") \/ InStage("residual-slp")
           /\ phase = "decided" /\ phase' = "select" /\ winner' = Nobody
           /\ pending' = {} /\ alternatives' = {}
           /\ UNCHANGED <<stages, calls, seen>> /\ AuditProofs!Inv' /\ OneWinnerPerBlock'
           /\ KeyOf(w).function = w.function /\ KeyPlace(KeyOf(w)) = Place(w)
           /\ \/ /\ program' = program /\ Won' = Won
                 /\ \/ Repeated(KeyOf(w))
                    \/ failed' = TRUE /\ attempts'[Len(attempts')].disposition = "compiler-error"
                    \/ failed' = FALSE /\ Audited(KeyOf(w)) /\ w.function \in Exhausted'
              \/ /\ program' = Vectorized(w) /\ program' \in Program /\ SameFunctions /\ Descends
                 /\ failed' = FALSE /\ Audited(KeyOf(w))
                 /\ Won' = Won \cup {Place(w)}
                 /\ \A f \in DOMAIN program : Closed(f) \subseteq Closed(f)'
                 /\ w.block \in Closed(w.function)'
  <1>1. /\ CloneInv /\ IdentitiesFit /\ AuditProofs!Inv /\ RaceTypes /\ OneWinnerPerBlock
        /\ PhaseFits /\ RacedFit
    BY DEF RaceInv, RaceLives
  <1>2. /\ phase = "decided" /\ phase' = "select" /\ winner' = Nobody /\ alternatives = {}
        /\ UNCHANGED <<stages, calls, seen, pending, alternatives>>
        /\ Try(KeyOf(w), <<w.function>>, "accepted", Vectorized(w), Checked)
    BY DEF Publish, Racing
  <1>3. /\ pending = {} /\ Raced = {w} /\ Raced' = {}
        /\ InStage("loop-simd") \/ InStage("residual-slp")
    BY <1>1, <1>2 DEF PhaseFits, Raced
  <1>4. /\ w \in Alternative /\ w.function \in DOMAIN program /\ Place(w) \notin Won
        /\ w.kind = "slp" \/ w.block \in LoopBlocks(w.function)
    BY <1>1, <1>3 DEF RaceTypes, RacedFit, Alternative, VectorKinds
  <1>5. /\ KeyOf(w) \in Key /\ <<w.function>> \in Seq(FunctionIds)
        /\ KeyOf(w).kind \in VectorKinds /\ KeyOf(w).function = w.function
        /\ KeyPlace(KeyOf(w)) = Place(w)
    BY <1>4, AlternativeKeyTyped
  <1>6. /\ Vectorized(w) \in Program
        /\ program' = Vectorized(w) =>
              /\ Descends /\ \A f \in DOMAIN program : Closed(f) \subseteq Closed(f)'
              /\ w.block \in Closed(w.function)'
    BY <1>1, <1>4, VectorizedMoves
  <1>7. Checked \in SUBSET {"ok", "reject", "compiler"} /\ "reject" \notin Checked
    BY DEF Checked
  <1>8. /\ AuditProofs!Inv' /\ OneWinnerPerBlock'
        /\ \/ /\ program' = program /\ Won' = Won
              /\ \/ Repeated(KeyOf(w))
                 \/ failed' = TRUE /\ attempts'[Len(attempts')].disposition = "compiler-error"
                 \/ failed' = FALSE /\ Audited(KeyOf(w)) /\ KeyOf(w).function \in Exhausted'
           \/ /\ program' = Vectorized(w) /\ failed' = FALSE /\ Audited(KeyOf(w))
              /\ Won' = Won \cup {KeyPlace(k) : k \in {l \in {KeyOf(w)} : l.kind \in VectorKinds}}
    <2> DEFINE key == KeyOf(w)
               trial == Vectorized(w)
    <2>1. key \in Key /\ trial \in Program /\ KeyPlace(key) \notin Won
      BY <1>4, <1>5, <1>6
    <2>2. Try(key, <<w.function>>, "accepted", trial, Checked)
      BY <1>2
    <2> HIDE DEF key, trial
    <2>3. /\ AuditProofs!Inv'
          /\ \/ /\ program' = program /\ Won' = Won /\ OneWinnerPerBlock'
                /\ \/ Repeated(key)
                   \/ failed' = TRUE /\ attempts'[Len(attempts')].disposition = "compiler-error"
                   \/ failed' = FALSE /\ Audited(key) /\ key.function \in Exhausted'
             \/ /\ program' = trial /\ failed' = FALSE /\ Audited(key) /\ OneWinnerPerBlock'
                /\ Won' = Won \cup {KeyPlace(k) : k \in {l \in {key} : "accepted" = "accepted"
                                                                     /\ l.kind \in VectorKinds}}
      BY <1>1, <1>5, <1>7, <2>1, <2>2, Tried
    <2>4. {l \in {key} : "accepted" = "accepted" /\ l.kind \in VectorKinds}
             = {l \in {key} : l.kind \in VectorKinds}
      OBVIOUS
    <2> QED BY <2>3, <2>4 DEF key, trial
  <1>9. program' = Vectorized(w) => program' \in Program /\ SameFunctions
    BY <1>1, <1>6, VectorizedKeepsFunctions DEF CloneInv
  <1>10. {KeyPlace(k) : k \in {l \in {KeyOf(w)} : l.kind \in VectorKinds}} = {Place(w)}
    BY <1>5
  <1> QED BY <1>2, <1>3, <1>4, <1>5, <1>6, <1>8, <1>9, <1>10

LEMMA PublishRaces == RaceInv /\ ~Over /\ Publish /\ CloneInv' => RaceInv'
  <1> SUFFICES ASSUME RaceInv, ~Over, Publish, CloneInv' PROVE RaceInv'
    OBVIOUS
  <1>1. /\ CloneInv /\ IdentitiesFit /\ RaceTypes
        /\ StagesFit /\ PhaseFits /\ RacedFit /\ VectorsFit /\ LoopsHaveWidths
    BY DEF RaceInv, RaceLives
  <1>2. PICK w : w = winner
    OBVIOUS
  <1>3. /\ w \in Alternative /\ Raced = {w} /\ Raced' = {}
        /\ InStage("loop-simd") \/ InStage("residual-slp")
        /\ phase' = "select" /\ winner' = Nobody
        /\ pending' = {} /\ alternatives' = {}
        /\ UNCHANGED <<stages, calls, seen>> /\ AuditProofs!Inv' /\ OneWinnerPerBlock'
        /\ KeyPlace(KeyOf(w)) = Place(w)
        /\ \/ program' = program /\ Won' = Won
           \/ /\ SameFunctions /\ Descends
              /\ Won' = Won \cup {Place(w)}
              /\ \A f \in DOMAIN program : Closed(f) \subseteq Closed(f)'
              /\ w.block \in Closed(w.function)'
        /\ failed' \/ Audited(KeyOf(w))
    BY <1>2, Published DEF Repeated
  <1>4. IdentitiesFit' /\ Descends
    BY <1>1, <1>3, IdentitiesKeep, SameBlocks
  <1>5. RaceTypes' /\ PhaseFits' /\ RacedFit'
    BY <1>3 DEF RaceTypes, PhaseFits, RacedFit
  <1>6. StagesFit' /\ LoopsHaveWidths'
    BY <1>1, <1>3, <1>4, DescendsKeeps DEF StagesFit
  <1>7. /\ Ahead' = Ahead /\ \A s : InStage(s)' <=> InStage(s)
    BY <1>3 DEF Ahead, InStage
  <1>8. ASSUME ~Over' PROVE VectorsFit'
    <2>1. Audited(KeyOf(w))
      BY <1>3, <1>8 DEF Over
    <2>2. "loop-simd" \notin Ahead
      BY <1>1, <1>3, StageFacts
    <2>3. \A k \in AuditedVectors' : k \in AuditedVectors \/ k = KeyOf(w)
      BY <2>1 DEF Audited
    <2>4. InStage("loop-simd") => \A k \in AuditedVectors' : KeyPlace(k) \in seen
      BY <1>1, <1>3, <2>3 DEF VectorsFit, RacedFit
    <2>5. \A p \in Won' : p[1] \in DOMAIN program' /\ p[2] \in Closed(p[1])'
      <3>1. CASE program' = program /\ Won' = Won
        BY <1>1, <3>1 DEF VectorsFit, Closed, LoopBlocks
      <3>2. CASE /\ SameFunctions
                 /\ Won' = Won \cup {Place(w)}
                 /\ \A f \in DOMAIN program : Closed(f) \subseteq Closed(f)'
                 /\ w.block \in Closed(w.function)'
        <4>1. w.function \in DOMAIN program'
          BY <1>1, <1>3, <3>2 DEF RacedFit, SameFunctions
        <4>2. ASSUME NEW p \in Won PROVE p[1] \in DOMAIN program' /\ p[2] \in Closed(p[1])'
          <5>1. p[1] \in DOMAIN program /\ p[2] \in Closed(p[1])
            BY <1>1 DEF VectorsFit
          <5> QED BY <3>2, <5>1 DEF SameFunctions
        <4>3. Place(w)[1] = w.function /\ Place(w)[2] = w.block
          BY DEF Place
        <4>4. /\ Place(w)[1] \in DOMAIN program'
              /\ Place(w)[2] \in Closed(Place(w)[1])'
          BY <3>2, <4>1, <4>3
        <4> QED BY <3>2, <4>2, <4>4
      <3> QED BY <1>3, <3>1, <3>2
    <2> QED BY <1>3, <1>7, <2>2, <2>4, <2>5 DEF VectorsFit
  <1> QED BY <1>3, <1>4, <1>5, <1>6, <1>8 DEF RaceInv, RaceLives

LEMMA VectorRaces == RaceInv /\ ~Over /\ VectorStep => RaceInv'
  <1> SUFFICES ASSUME RaceInv, ~Over, VectorStep PROVE RaceInv'
    OBVIOUS
  <1>1. CloneInv'
    BY VectorKeeps DEF RaceInv
  <1>2. CASE EndVectors
    BY <1>1, <1>2, NextStageKeeps DEF EndVectors
  <1>3. CASE VectorError
    BY <1>1, <1>3, ErrorKeeps DEF VectorError
  <1>4. CASE SelectLoop \/ SelectPacks \/ Skip \/ AddBodyPacks \/ Choose \/ Publish
    BY <1>1, <1>4, SelectLoopRaces, SelectPacksRaces, SkipRaces, AddBodyPacksRaces, ChooseRaces,
       PublishRaces
  <1>5. CASE LeaveScalar \/ Lose \/ (\E a \in pending : TurnDown(a))
    BY <1>1, <1>5, LeavingRaces
  <1>6. CASE \E a \in pending : Keep(a)
    BY <1>1, <1>6, KeepRaces
  <1> QED BY <1>2, <1>3, <1>4, <1>5, <1>6 DEF VectorStep

LEMMA StutterRaces == RaceInv /\ UNCHANGED vars => RaceInv'
  <1> SUFFICES ASSUME RaceInv, UNCHANGED vars PROVE RaceInv'
    OBVIOUS
  <1>1. /\ UNCHANGED <<consumer, stages, calls, owing, seen, phase, pending, alternatives, winner>>
        /\ UNCHANGED <<remaining, owners, attempts, accepted, rejected, program, failed>>
        /\ UNCHANGED audit
    BY DEF vars, race, audit
  <1>2. CloneInv' /\ IdentitiesFit'
    BY <1>1 DEF RaceInv, CloneInv, ProgramOK, OwnersFollow, CloneLimits, Clones, ClonesOf, IdentitiesFit
  <1>3. AuditProofs!Inv' /\ OneWinnerPerBlock' /\ Won' = Won /\ AuditedVectors' = AuditedVectors
    BY <1>1, SameAuditState, SameLog DEF RaceInv
  <1>4. RaceTypes' /\ (Over' <=> Over)
    BY <1>1 DEF RaceInv, RaceTypes, Raced, Over, InStage
  <1>5. RaceLives => RaceLives'
    <2>1. /\ Raced' = Raced /\ Ahead' = Ahead /\ \A s : InStage(s)' <=> InStage(s)
      BY <1>1 DEF Raced, Ahead, InStage
    <2>2. \A f : Closed(f)' = Closed(f) /\ LoopBlocks(f)' = LoopBlocks(f)
      BY <1>1 DEF Closed, LoopBlocks
    <2>3. StagesFit => StagesFit'
      BY <1>1 DEF StagesFit
    <2>4. PhaseFits => PhaseFits'
      BY <1>1, <2>1 DEF PhaseFits
    <2>5. RacedFit => RacedFit'
      BY <1>1, <1>3, <2>1, <2>2 DEF RacedFit, KeyOf
    <2>6. VectorsFit => VectorsFit'
      BY <1>1, <1>3, <2>1, <2>2 DEF VectorsFit
    <2>7. LoopsHaveWidths => LoopsHaveWidths'
      BY <1>1 DEF LoopsHaveWidths
    <2> QED BY <2>3, <2>4, <2>5, <2>6, <2>7 DEF RaceLives
  <1> QED BY <1>2, <1>3, <1>4, <1>5 DEF RaceInv

LEMMA InitRaces == Init => RaceInv
  <1> SUFFICES ASSUME Init PROVE RaceInv
    OBVIOUS
  <1>1. PICK entry \in Entries :
           /\ consumer = entry.consumer /\ stages = StagesOf(entry.consumer)
           /\ program = entry.program
    BY DEF Init
  <1>2. /\ seen = {} /\ phase = "select" /\ pending = {} /\ alternatives = {} /\ winner = Nobody
        /\ remaining = Budget /\ owners = [f \in Functions0 |-> f] /\ attempts = <<>>
        /\ accepted = 0 /\ rejected = 0 /\ failed = FALSE
    BY DEF Init
  <1>3. CloneInv
    BY InitEstablishes
  <1>4. IdentitiesFit
    <2>1. DOMAIN program = Functions0
      BY <1>1, EntryAssumption
    <2>2. Len(program) \in Nat /\ DOMAIN program = 1 .. Len(program)
      BY <1>3, Shape DEF CloneInv
    <2>3. IsFiniteSet(1 .. Len(program)) /\ Cardinality(1 .. Len(program)) = Len(program)
      <3> DEFINE n == Len(program)
      <3> HIDE DEF n
      <3>1. n \in Nat /\ 1 \in Int /\ n \in Int
        BY <2>2 DEF n
      <3>2. IsFiniteSet(1 .. n) /\ Cardinality(1 .. n) = IF 1 > n THEN 0 ELSE n - 1 + 1
        BY <3>1, FS_Interval
      <3>3. Cardinality(1 .. n) = n
        BY <3>1, <3>2
      <3> QED BY <3>2, <3>3 DEF n
    <2>4. /\ IsFiniteSet(Functions0) /\ Functions0 = 1 .. Cardinality(Functions0)
      BY <2>1, <2>2, <2>3, Zenon
    <2> QED BY <2>1, <2>4 DEF IdentitiesFit
  <1>5. AuditProofs!Inv
    <2>1. AuditProofs!OwnersOK
      BY <1>2, WorkAssumption DEF AuditProofs!OwnersOK
    <2>2. remaining \in [Functions0 -> AuditProofs!Work]
      BY <1>2, WorkAssumption DEF AuditProofs!Work
    <2>3. attempts \in Seq(AuditProofs!Attempt) /\ program \in Program
      BY <1>2, <1>3 DEF CloneInv, ProgramOK
    <2> QED BY <1>2, <2>1, <2>2, <2>3 DEF AuditProofs!Inv
  <1>6. RaceTypes /\ Raced = {}
    BY <1>2 DEF RaceTypes, Raced
  <1>7. Won = {} /\ AuditedVectors = {} /\ OneWinnerPerBlock
    BY <1>2 DEF Won, AuditedVectors, Audit!AuditedKeys, OneWinnerPerBlock
  <1>8. LoopsHaveWidths
    BY <1>1, EntryAssumption DEF LoopsHaveWidths
  <1>9. StagesFit
    <2>1. entry.consumer \in {"native", "deferred", "baseline", "simd128"}
      BY EntryAssumption DEF Consumers
    <2>2. CASE entry.consumer = "native"
      BY <1>1, <2>2 DEF StagesOf, StagesFit
    <2>3. CASE entry.consumer = "deferred"
      BY <1>1, <2>3 DEF StagesOf, StagesFit
    <2>4. CASE entry.consumer = "baseline"
      BY <1>1, <2>4 DEF StagesOf, StagesFit, LoopKinds
    <2>5. CASE entry.consumer = "simd128"
      BY <1>1, <2>5 DEF StagesOf, StagesFit, LoopKinds
    <2> QED BY <2>1, <2>2, <2>3, <2>4, <2>5
  <1>10. RaceLives
    BY <1>2, <1>6, <1>7, <1>8, <1>9 DEF RaceLives, PhaseFits, RacedFit, VectorsFit
  <1> QED BY <1>3, <1>4, <1>5, <1>6, <1>7, <1>10 DEF RaceInv

THEOREM RaceInvariant == Spec => []RaceInv
  <1>1. Init => RaceInv
    BY InitRaces
  <1>2. RaceInv /\ [Next]_vars => RaceInv'
    <2> SUFFICES ASSUME RaceInv, [Next]_vars PROVE RaceInv'
      OBVIOUS
    <2>1. CASE Over
      BY <2>1, OverStutters, StutterRaces
    <2>2. CASE ~Over
      BY <2>2, SpecializationRaces, LoopRaces, VectorRaces, StutterRaces DEF Next
    <2> QED BY <2>1, <2>2
  <1> QED BY <1>1, <1>2, PTL DEF Spec

\* Loop SIMD, the packs of its loops and residual SLP commit at most one winner to
\* a block (kir_pipeline.rs:2452, 2925).
THEOREM OneWinnerHolds == Spec => []OneWinnerPerBlock
  BY RaceInvariant, PTL DEF RaceInv

\* The audit keeps its shape, and what is raced is of one place.
THEOREM CompileTypes == Spec => []TypeOK
  <1>1. RaceInv => TypeOK
    <2> SUFFICES ASSUME RaceInv PROVE TypeOK
      OBVIOUS
    <2>1. CloneInv /\ AuditProofs!Inv /\ RaceTypes
      BY DEF RaceInv
    <2>2. AuditProofs!TypeOK
      BY <2>1, AuditAssumed, AuditProofs!InvIsTypeOK
    <2>3. Audit!TypeOK
      BY <2>2 DEF AuditProofs!TypeOK, Audit!TypeOK, AuditProofs!Work, Audit!Work,
                  AuditProofs!Attempt, Audit!Attempt, AuditProofs!Dispositions, Audit!Dispositions
    <2>4. owing # 0 => owing = Len(program)
      BY <2>1 DEF CloneInv, OwnersFollow
    <2>5. phase = "decided" => \A a \in alternatives :
             a.function = winner.function /\ a.block = winner.block
      BY <2>1 DEF RaceTypes, Raced, Place
    <2> QED BY <2>1, <2>3, <2>4, <2>5 DEF TypeOK, RaceTypes
  <1> QED BY <1>1, RaceInvariant, PTL

-----------------------------------------------------------------------------
(* Which candidates come back. *)

\* The packs of a block differ in root or lanes when the compile begins.
DistinctPacks ==
    \A entry \in Entries : \A f \in Functions0 : \A b \in entry.program[f].blocks :
        \A p, q \in b.packs : p.root = q.root /\ p.lanes = q.lanes => p = q

KeyInv ==
    /\ RaceInv
    /\ OnlyExhaustedPacksReturn
    /\ ~Over => KeysLive

\* A failure that is a broken trial says so in the log.
LEMMA NoFailure ==
    ASSUME failed' = FALSE \/ attempts'[Len(attempts')].disposition = "compiler-error"
    PROVE  OnlyExhaustedPacksReturn'
  BY DEF OnlyExhaustedPacksReturn

LEMMA VectorKeysAreAudited ==
    /\ \A k \in Audit!AuditedKeys : k.kind = "slp" => k \in AuditedVectors
    /\ \A k \in Audit!AuditedKeys : k.kind = "loop-simd" => k \in AuditedVectors
  BY DEF AuditedVectors, VectorKinds

\* What a candidate that is no loop rewrite and no call leaves of the keys.
LEMMA OtherKeys ==
    ASSUME KeyInv, ~Over, UNCHANGED <<stages, calls>>, seen \subseteq seen', Descends,
           \A k \in Audit!AuditedKeys' : k \in Audit!AuditedKeys \/ k.kind \in VectorKinds
    PROVE  BlocksApart' /\ PacksApart' /\ CallsApart' /\ LoopsTried'
  <1>1. BlocksApart /\ PacksApart /\ CallsApart /\ LoopsTried
    BY DEF KeyInv, KeysLive
  <1>2. \A i : CallKey(calls[i])' = CallKey(calls[i]) /\ CallKey(calls[i]).kind = "specialization"
    BY DEF CallKey
  <1>3. CallsApart'
    BY <1>1, <1>2 DEF CallsApart, VectorKinds
  <1>4. Ahead' = Ahead /\ \A s : InStage(s)' <=> InStage(s)
    BY DEF Ahead, InStage
  <1>5. LoopsTried'
    BY <1>1, <1>4 DEF LoopsTried, VectorKinds, LoopKinds
  <1> QED BY <1>1, <1>3, <1>5, DescendsKeeps

LEMMA UnloggedKeys ==
    ASSUME KeyInv, ~Over, UNCHANGED <<stages, calls, audit>>, seen \subseteq seen', RaceInv',
           PacksTried', RacedFresh'
    PROVE  KeyInv'
  <1>1. program' = program /\ failed' = failed /\ attempts' = attempts
    BY DEF audit
  <1>2. failed' = FALSE
    BY <1>1 DEF Over, KeyInv, RaceInv, AuditProofs!Inv
  <1>3. BlocksApart' /\ PacksApart' /\ CallsApart' /\ LoopsTried'
    BY <1>1, SameLog, SameBlocks, OtherKeys
  <1> QED BY <1>2, <1>3, NoFailure DEF KeyInv, KeysLive

LEMMA LoggedKeys ==
    ASSUME KeyInv, ~Over, UNCHANGED <<stages, calls>>, seen \subseteq seen', Descends, RaceInv',
           NEW key, key.kind \in VectorKinds, Audited(key), failed' = FALSE,
           PacksTried', RacedFresh'
    PROVE  KeyInv'
  <1>1. BlocksApart' /\ PacksApart' /\ CallsApart' /\ LoopsTried'
    BY OtherKeys DEF Audited
  <1> QED BY <1>1, NoFailure DEF KeyInv, KeysLive

\* With no vector code tried there is nothing to say of packs.
LEMMA NoPacks ==
    ASSUME AuditedVectors = {}, Raced = {}
    PROVE  PacksTried /\ RacedFresh
  BY VectorKeysAreAudited DEF PacksTried, RacedFresh, Raced

LEMMA NextStageKeys ==
    ASSUME KeyInv, ~Over, phase = "select", NextStage, RaceInv'
    PROVE  KeyInv'
  <1>1. /\ RaceTypes /\ StagesFit /\ PhaseFits /\ VectorsFit
        /\ BlocksApart /\ PacksApart /\ CallsApart /\ LoopsTried /\ PacksTried
    BY DEF KeyInv, KeysLive, RaceInv, RaceLives
  <1>2. /\ stages' = Tail(stages) /\ seen' = {}
        /\ UNCHANGED <<calls, phase, pending, alternatives, winner, program, failed, attempts>>
        /\ stages # <<>>
    BY DEF NextStage, race, audit, Over
  <1>3. Raced' = {}
    BY <1>1, <1>2 DEF PhaseFits, RaceTypes, Raced
  <1>4. failed' = FALSE
    BY <1>2 DEF Over, KeyInv, RaceInv, AuditProofs!Inv
  <1>5. /\ Audit!AuditedKeys' = Audit!AuditedKeys /\ AuditedVectors' = AuditedVectors
        /\ Exhausted' = Exhausted
    BY <1>2, SameLog
  <1>6. BlocksApart' /\ PacksApart'
    BY <1>1, <1>2 DEF BlocksApart, PacksApart
  <1>7. CallsApart'
    BY <1>1, <1>2, <1>5 DEF CallsApart, CallKey
  <1>8. LoopsTried'
    BY <1>1, <1>2, <1>5, NextStageFacts DEF LoopsTried
  <1>9. RacedFresh'
    BY <1>3 DEF RacedFresh, Raced
  <1>10. ASSUME ~Over' PROVE PacksTried'
    <2>1. ASSUME NEW k \in Audit!AuditedKeys, k.kind = "slp"
          PROVE  \/ k.function \in DOMAIN program /\ k.place \in Closed(k.function)
                 \/ k.function \in Exhausted
      <3>1. AuditedVectors # {}
        BY <2>1, VectorKeysAreAudited
      <3>2. stages' # <<>>
        BY <1>10 DEF Over
      <3>3. Ahead # {}
        BY <1>1, <1>2, <3>2, NextStageFacts
      <3>4. ~InStage("residual-slp")
        BY <1>1, <3>3, StageFacts
      <3> QED BY <1>1, <2>1, <3>4 DEF PacksTried
    <2>2. \A f : Closed(f)' = Closed(f)
      BY <1>2 DEF Closed, LoopBlocks
    <2> QED BY <1>2, <1>5, <2>1, <2>2 DEF PacksTried
  <1> QED BY <1>4, <1>6, <1>7, <1>8, <1>9, <1>10, NoFailure DEF KeyInv, KeysLive

\* A call is tried once (run_specialization_frontier).
LEMMA TriedCall ==
    ASSUME KeyInv, ~Over, Specializing, calls' = Tail(calls), stages' = stages, seen' = seen,
           Descends, Audited(CallKey(Current))
    PROVE  BlocksApart' /\ PacksApart' /\ CallsApart' /\ LoopsTried'
  <1>1. BlocksApart /\ PacksApart /\ CallsApart /\ LoopsTried /\ calls \in Seq(Call)
    BY DEF KeyInv, KeysLive, RaceInv, CloneInv
  <1>2. calls # <<>> /\ Current = calls[1]
    BY DEF Specializing, Current
  <1>3. /\ Len(calls) \in Nat /\ Len(calls) > 0 /\ DOMAIN calls = 1 .. Len(calls)
        /\ DOMAIN calls' = 1 .. Len(calls) - 1
        /\ \A i \in DOMAIN calls' : calls'[i] = calls[i + 1]
    BY <1>1, <1>2
  <1>4. \A i \in DOMAIN calls' : i + 1 \in DOMAIN calls /\ i + 1 # 1
    BY <1>3
  <1>5. 1 \in DOMAIN calls
    BY <1>3
  <1>6. CallsApart'
    <2>1. ASSUME NEW i \in DOMAIN calls', NEW j \in DOMAIN calls',
                 calls'[i].id = calls'[j].id, calls'[i].caller = calls'[j].caller
          PROVE  i = j
      <3>1. i + 1 = j + 1
        BY <1>1, <1>3, <1>4, <2>1 DEF CallsApart
      <3> QED BY <1>3, <3>1
    <2>2. ASSUME NEW i \in DOMAIN calls'
          PROVE  CallKey(calls'[i]) \notin Audit!AuditedKeys'
      <3>1. CallKey(calls[i + 1]) \notin Audit!AuditedKeys
        BY <1>1, <1>4 DEF CallsApart
      <3>2. CallKey(calls[i + 1]) # CallKey(calls[1])
        BY <1>1, <1>4, <1>5 DEF CallsApart, CallKey
      <3> QED BY <1>2, <1>3, <3>1, <3>2 DEF Audited
    <2>3. \A i \in DOMAIN calls' : CallKey(calls[i])' = CallKey(calls'[i])
      BY DEF CallKey
    <2> QED BY <2>1, <2>2, <2>3 DEF CallsApart
  <1>7. Ahead' = Ahead /\ \A s : InStage(s)' <=> InStage(s)
    BY DEF Ahead, InStage
  <1>8. CallKey(Current).kind \notin LoopKinds
    BY DEF CallKey, LoopKinds
  <1>9. LoopsTried'
    BY <1>1, <1>7, <1>8 DEF LoopsTried, Audited
  <1> QED BY <1>1, <1>6, <1>9, DescendsKeeps

LEMMA SpecializationKeys == KeyInv /\ ~Over /\ SpecializationStep => KeyInv'
  <1> SUFFICES ASSUME KeyInv, ~Over, SpecializationStep PROVE KeyInv'
    OBVIOUS
  <1>1. /\ CloneInv /\ IdentitiesFit /\ AuditProofs!Inv /\ StagesFit /\ CallsApart /\ RaceInv
        /\ calls \in Seq(Call)
    BY DEF KeyInv, KeysLive, RaceInv, RaceLives, CloneInv
  <1>2. RaceInv'
    BY <1>1, SpecializationRaces
  <1>3. Stage("specialization")
    BY DEF SpecializationStep, RefuseClone, Reuse, Clone, RegisterBudget,
           SpecializationError, EndSpecialization, Specializing
  <1>4. ~InStage("loop-simd") /\ ~InStage("residual-slp")
    BY <1>3, StageIsHead DEF InStage
  <1>5. phase = "select" /\ Raced = {} /\ AuditedVectors = {}
    BY <1>1, <1>4, NothingRaced
  <1>6. UNCHANGED race => Raced' = {}
    BY <1>5 DEF race, Raced
  <1>7. ASSUME Specializing
        PROVE  /\ Current \in Call /\ CallKey(Current) \in Key /\ Charging(Current) \in Seq(FunctionIds)
               /\ CallKey(Current).kind \notin VectorKinds
               /\ CallKey(Current) \notin Audit!AuditedKeys
    <2>1. Current \in Call /\ Current = calls[1] /\ 1 \in DOMAIN calls
      BY <1>1, <1>7 DEF Specializing, Current
    <2>2. CallKey(Current).kind \notin VectorKinds
      BY DEF CallKey, VectorKinds
    <2>3. CallKey(Current) \notin Audit!AuditedKeys
      BY <1>1, <2>1 DEF CallsApart
    <2> QED BY <1>1, <2>1, <2>2, <2>3, CallKeyTyped
  <1>8. ASSUME Specializing, UNCHANGED <<stages, seen, race>>, calls' = Tail(calls), Descends,
               \/ failed' = TRUE /\ attempts'[Len(attempts')].disposition = "compiler-error"
               \/ failed' = FALSE /\ Audited(CallKey(Current))
        PROVE  KeyInv'
    <2>1. CASE failed' = TRUE /\ attempts'[Len(attempts')].disposition = "compiler-error"
      BY <1>2, <2>1, NoFailure DEF KeyInv, Over
    <2>2. CASE failed' = FALSE /\ Audited(CallKey(Current))
      <3>1. BlocksApart' /\ PacksApart' /\ CallsApart' /\ LoopsTried'
        BY <1>8, <2>2, TriedCall
      <3>2. AuditedVectors' = {}
        BY <1>5, <1>7, <1>8, <2>2, OtherAudited
      <3>3. \A k \in Audit!AuditedKeys' : k.kind # "slp"
        BY <3>2 DEF AuditedVectors, VectorKinds
      <3>4. PacksTried' /\ RacedFresh'
        BY <1>6, <1>8, <3>3 DEF PacksTried, RacedFresh, Raced
      <3> QED BY <1>2, <2>2, <3>1, <3>4, NoFailure DEF KeyInv, KeysLive
    <2> QED BY <1>8, <2>1, <2>2
  <1>9. CASE RefuseClone
    <2>1. Specializing /\ Drop(CallKey(Current), Charging(Current), "rejected")
          /\ UNCHANGED <<stages, seen, race>> /\ calls' = Tail(calls)
      BY <1>9 DEF RefuseClone, Proceed
    <2>2. /\ program' = program
          /\ Repeated(CallKey(Current)) \/ (failed' = FALSE /\ Audited(CallKey(Current)))
      BY <1>1, <1>7, <2>1, Dropped
    <2> QED BY <1>7, <1>8, <2>1, <2>2, SameBlocks DEF Repeated
  <1>10. CASE Reuse
    <2>1. Specializing /\ UNCHANGED <<stages, seen, race>> /\ calls' = Tail(calls)
          /\ Try(CallKey(Current), Charging(Current), "reused", program, Unchecked)
      BY <1>10 DEF Reuse, Proceed
    <2>2. program \in Program /\ Unchecked \in SUBSET {"ok", "reject", "compiler"}
      BY <1>1 DEF CloneInv, ProgramOK, Unchecked
    <2>3. /\ program' = program
          /\ \/ Repeated(CallKey(Current))
             \/ failed' = TRUE /\ attempts'[Len(attempts')].disposition = "compiler-error"
             \/ failed' = FALSE /\ Audited(CallKey(Current))
      BY <1>1, <1>7, <2>1, <2>2, Tried
    <2> QED BY <1>7, <1>8, <2>1, <2>3, SameBlocks DEF Repeated
  <1>11. CASE Clone
    <2> DEFINE trial == Append(program, NewClone(Current))
    <2>1. Specializing /\ UNCHANGED <<stages, seen, race>> /\ calls' = Tail(calls)
          /\ Try(CallKey(Current), Charging(Current), "accepted", trial, Unchecked)
      BY <1>11 DEF Clone, Proceed
    <2>2. trial \in Program /\ Unchecked \in SUBSET {"ok", "reject", "compiler"}
      BY <1>1, <1>7, <2>1, CloneMoves DEF Unchecked
    <2>3. /\ program' = program \/ program' = trial
          /\ \/ Repeated(CallKey(Current))
             \/ failed' = TRUE /\ attempts'[Len(attempts')].disposition = "compiler-error"
             \/ failed' = FALSE /\ Audited(CallKey(Current))
      <3> HIDE DEF trial
      <3> QED BY <1>1, <1>7, <2>1, <2>2, Tried
    <2>4. Descends
      <3>1. CASE program' = program
        BY <3>1, SameBlocks
      <3>2. CASE program' = trial
        BY <1>1, <1>7, <2>1, <3>2, CloneMoves
      <3> QED BY <2>3, <3>1, <3>2
    <2> QED BY <1>7, <1>8, <2>1, <2>3, <2>4 DEF Repeated
  <1>12. CASE RegisterBudget
    <2>1. /\ UNCHANGED <<stages, calls, seen, race>> /\ owing # 0
          /\ Audit!RegisterClone(owing, program[Len(program)].origin)
      BY <1>12 DEF RegisterBudget
    <2>2. /\ owing = Len(program) /\ owing \notin Functions0
          /\ ~failed /\ owners = [f \in DOMAIN program \ {owing} |-> program[f].origin]
      BY <1>1, <2>1 DEF CloneInv, OwnersFollow, Over
    <2>3. /\ program[Len(program)].origin \in Functions0 /\ Functions0 \subseteq DOMAIN program
      BY <1>1, <2>1, <2>2, Shape DEF CloneInv, ProgramOK
    <2>4. program[Len(program)].origin \in DOMAIN owners /\ owing \notin DOMAIN owners
      BY <2>2, <2>3
    <2>5. failed' = FALSE /\ program' = program /\ attempts' = attempts
      <3>1. failed' = (owing \in DOMAIN owners) /\ program' = program /\ attempts' = attempts
        BY <2>1, <2>4, Zenon DEF Audit!RegisterClone
      <3>2. (owing \in DOMAIN owners) = FALSE
        BY <2>4
      <3> QED BY <3>1, <3>2
    <2>6. BlocksApart' /\ PacksApart' /\ CallsApart' /\ LoopsTried'
      BY <2>1, <2>5, SameLog, SameBlocks, OtherKeys
    <2>7. \A k \in Audit!AuditedKeys' : k.kind # "slp"
      BY <1>5, <2>5, SameLog, VectorKeysAreAudited
    <2>8. PacksTried' /\ RacedFresh'
      BY <1>6, <2>1, <2>7 DEF PacksTried, RacedFresh, Raced
    <2> QED BY <1>2, <2>5, <2>6, <2>8, NoFailure DEF KeyInv, KeysLive
  <1>13. CASE SpecializationError
    <2>1. stages' = <<"error">> /\ failed' = failed
      BY <1>13 DEF SpecializationError, PipelineError, audit
    <2>2. failed' = FALSE /\ Over'
      BY <1>1, <2>1 DEF Over, InStage, AuditProofs!Inv
    <2> QED BY <1>2, <2>2, NoFailure DEF KeyInv
  <1>14. CASE EndSpecialization
    BY <1>2, <1>5, <1>14, NextStageKeys DEF EndSpecialization
  <1> QED BY <1>9, <1>10, <1>11, <1>12, <1>13, <1>14 DEF SpecializationStep

LEMMA LoopKeys == KeyInv /\ ~Over /\ LoopStep => KeyInv'
  <1> SUFFICES ASSUME KeyInv, ~Over, NEW kind \in LoopKinds, Propose(kind) \/ EndLoops(kind)
               PROVE  KeyInv'
    BY DEF LoopStep
  <1>1. /\ CloneInv /\ IdentitiesFit /\ AuditProofs!Inv /\ StagesFit /\ RaceInv
        /\ BlocksApart /\ PacksApart /\ CallsApart /\ LoopsTried
    BY DEF KeyInv, KeysLive, RaceInv, RaceLives
  <1>2. RaceInv'
    BY <1>1, LoopRaces DEF LoopStep
  <1>3. InStage(kind) /\ kind \notin VectorKinds /\ kind # "specialization"
    BY StageIsHead DEF Propose, EndLoops, LoopKinds, VectorKinds
  <1>4. ~InStage("loop-simd") /\ ~InStage("residual-slp")
    BY <1>3 DEF InStage, LoopKinds
  <1>5. phase = "select" /\ Raced = {} /\ AuditedVectors = {}
    BY <1>1, <1>4, NothingRaced
  <1>6. CASE Propose(kind)
    <2>1. PICK o \in Offers(kind) :
             /\ o \notin seen /\ seen' = seen \cup {o}
             /\ \/ Drop(LoopKey(kind, o), <<o.function>>, "rejected")
                \/ Try(LoopKey(kind, o), <<o.function>>, "accepted", Rewritten(kind, o), Unchecked)
      BY <1>6 DEF Propose, NextOffer
    <2>2. UNCHANGED <<stages, calls, race>>
      BY <1>6 DEF Propose
    <2>3. /\ o.function \in DOMAIN program /\ LoopKey(kind, o) \in Key
          /\ o = [function |-> o.function, block |-> o.block, factor |-> o.factor]
          /\ <<o.function>> \in Seq(FunctionIds)
      BY <1>1, LoopKeyTyped
    <2>4. /\ LoopKey(kind, o).kind = kind
          /\ [function |-> LoopKey(kind, o).function, block |-> LoopKey(kind, o).place,
              factor |-> LoopKey(kind, o).lanes] = o
      BY <2>3 DEF LoopKey
    <2>5. LoopKey(kind, o) \notin Audit!AuditedKeys
      BY <1>1, <1>3, <2>1, <2>4 DEF LoopsTried
    <2>6. Rewritten(kind, o) \in Program /\ Unchecked \in SUBSET {"ok", "reject", "compiler"}
      BY <1>1, <2>3, RewrittenMoves DEF Unchecked
    <2>7. /\ program' = program \/ program' = Rewritten(kind, o)
          /\ \/ failed' = TRUE /\ attempts'[Len(attempts')].disposition = "compiler-error"
             \/ failed' = FALSE /\ Audited(LoopKey(kind, o))
      <3>1. CASE Drop(LoopKey(kind, o), <<o.function>>, "rejected")
        BY <1>1, <2>3, <2>5, <3>1, Dropped DEF Repeated
      <3>2. CASE Try(LoopKey(kind, o), <<o.function>>, "accepted", Rewritten(kind, o), Unchecked)
        BY <1>1, <2>3, <2>5, <2>6, <3>2, Tried DEF Repeated
      <3> QED BY <2>1, <3>1, <3>2
    <2>8. Descends
      <3>1. CASE program' = program
        BY <3>1, SameBlocks
      <3>2. CASE program' = Rewritten(kind, o)
        BY <1>1, <2>3, <3>2, RewrittenMoves
      <3> QED BY <2>7, <3>1, <3>2
    <2>9. CASE failed' = TRUE /\ attempts'[Len(attempts')].disposition = "compiler-error"
      BY <1>2, <2>9, NoFailure DEF KeyInv, Over
    <2>10. CASE failed' = FALSE /\ Audited(LoopKey(kind, o))
      <3>1. BlocksApart' /\ PacksApart'
        BY <1>1, <2>8, DescendsKeeps
      <3>2. \A i : CallKey(calls[i])' = CallKey(calls[i]) /\ CallKey(calls[i]).kind = "specialization"
        BY <2>2 DEF CallKey
      <3>3. CallsApart'
        BY <1>1, <1>3, <2>2, <2>4, <2>10, <3>2 DEF CallsApart, Audited
      <3>4. Ahead' = Ahead /\ (\A s : InStage(s)' <=> InStage(s)) /\ kind \notin Ahead
        BY <1>1, <1>3, <2>2, StageFacts DEF Ahead, InStage
      <3>5. LoopsTried'
        <4>1. ASSUME NEW k \in Audit!AuditedKeys', k.kind \in LoopKinds
              PROVE  /\ k.kind \notin Ahead
                     /\ InStage(k.kind) =>
                          [function |-> k.function, block |-> k.place, factor |-> k.lanes] \in seen'
          <5>1. CASE k \in Audit!AuditedKeys
            BY <1>1, <2>1, <4>1, <5>1 DEF LoopsTried
          <5>2. CASE k = LoopKey(kind, o)
            BY <2>1, <2>4, <3>4, <5>2
          <5> QED BY <2>10, <4>1, <5>1, <5>2 DEF Audited
        <4> QED BY <3>4, <4>1 DEF LoopsTried
      <3>6. AuditedVectors' = {} /\ Raced' = {}
        BY <1>3, <1>5, <2>2, <2>4, <2>10, OtherAudited DEF race, Raced
      <3>7. \A k \in Audit!AuditedKeys' : k.kind # "slp"
        BY <3>6 DEF AuditedVectors, VectorKinds
      <3>8. PacksTried' /\ RacedFresh'
        BY <3>6, <3>7 DEF PacksTried, RacedFresh, Raced
      <3> QED BY <1>2, <2>10, <3>1, <3>3, <3>5, <3>8, NoFailure DEF KeyInv, KeysLive
    <2> QED BY <2>7, <2>9, <2>10
  <1>7. CASE EndLoops(kind)
    BY <1>2, <1>5, <1>7, NextStageKeys DEF EndLoops
  <1> QED BY <1>6, <1>7

\* A pack returns only in a function that ran out of units.
LEMMA PackReturns ==
    ASSUME RaceInv, ~Over, InStage("residual-slp"), NEW a \in Raced, a.function \in Exhausted,
           Repeated(KeyOf(a)), stages' = stages
    PROVE  OnlyExhaustedPacksReturn'
  <1>1. a \in Alternative /\ a.kind = "slp"
    BY DEF RaceInv, RaceLives, RaceTypes, RacedFit
  <1>2. KeyOf(a).kind = "slp" /\ KeyOf(a).function = a.function
    BY <1>1 DEF KeyOf
  <1>3. PICK j \in DOMAIN attempts : attempts[j].key = KeyOf(a)
    BY DEF Repeated, Audit!AuditedKeys
  <1>4. PICK i \in DOMAIN attempts : /\ attempts[i].disposition = "budget-exhausted"
                                    /\ attempts[i].key.function = a.function
    BY DEF Exhausted
  <1>5. attempts' = attempts
    BY DEF Repeated
  <1>6. Head(stages') = "residual-slp"
    BY DEF InStage
  <1>7. /\ i \in DOMAIN attempts' /\ j \in DOMAIN attempts'
        /\ attempts'[i].disposition = "budget-exhausted" /\ attempts'[j].key.kind = "slp"
        /\ attempts'[i].key.function = attempts'[j].key.function
    BY <1>2, <1>3, <1>4, <1>5
  <1> QED BY <1>6, <1>7, Zenon DEF OnlyExhaustedPacksReturn

\* While nothing is being raced a tried pack is in a closed block or in a function
\* that ran out of units, or residual SLP remembers it.
LEMMA PacksAtRest ==
    ASSUME PacksTried, phase \notin {"packs", "decided"}, NEW k \in Audit!AuditedKeys, k.kind = "slp"
    PROVE  \/ k.function \in DOMAIN program /\ k.place \in Closed(k.function)
           \/ k.function \in Exhausted
           \/ InStage("residual-slp") /\ k \in seen
  BY DEF PacksTried

\* What stays while log, program and stage do.
LEMMA RestKeeps ==
    ASSUME UNCHANGED <<stages, audit>>, seen \subseteq seen'
    PROVE  /\ Audit!AuditedKeys' = Audit!AuditedKeys /\ AuditedVectors' = AuditedVectors
           /\ Exhausted' = Exhausted /\ program' = program
           /\ \A f : Closed(f)' = Closed(f)
           /\ \A s : InStage(s)' <=> InStage(s)
           /\ \A a : KeyOf(a)' = KeyOf(a)
  <1>1. attempts' = attempts /\ program' = program
    BY DEF audit
  <1> QED BY <1>1, SameLog DEF Closed, LoopBlocks, InStage, KeyOf

LEMMA SelectLoopKeys == KeyInv /\ ~Over /\ SelectLoop /\ RaceInv' => KeyInv'
  <1> SUFFICES ASSUME KeyInv, ~Over, SelectLoop, RaceInv' PROVE KeyInv'
    OBVIOUS
  <1>1. /\ CloneInv /\ IdentitiesFit /\ RaceTypes /\ StagesFit /\ VectorsFit /\ PacksTried
    BY DEF KeyInv, KeysLive, RaceInv, RaceLives
  <1>2. /\ InStage("loop-simd") /\ ~InStage("residual-slp") /\ phase = "select"
    BY <1>1, StageIsHead, StageFacts DEF SelectLoop, Racing
  <1>3. PICK a \in UnseenLoops :
           /\ seen' = seen \cup {Place(a)}
           /\ pending' = {b \in Widths : Place(b) = Place(a)}
    BY DEF SelectLoop, First, Place
  <1>4. /\ phase' \in {"widths", "short"} /\ UNCHANGED <<stages, calls, alternatives, winner, audit>>
    BY DEF SelectLoop, Racing
  <1>5. Raced' = pending'
    BY <1>1, <1>2, <1>4 DEF RaceTypes, Raced
  <1>6. \A b \in pending' : /\ b \in Widths /\ b \in Alternative /\ b.kind = "loop-simd"
                            /\ Place(b) = Place(a)
    BY <1>1, <1>3, WidthsTyped
  <1>7. /\ Audit!AuditedKeys' = Audit!AuditedKeys /\ Exhausted' = Exhausted /\ program' = program
        /\ \A f : Closed(f)' = Closed(f)
        /\ \A s : InStage(s)' <=> InStage(s)
        /\ \A b : KeyOf(b)' = KeyOf(b)
    BY <1>3, <1>4, RestKeeps
  <1>8. Place(a) \notin seen
    BY DEF UnseenLoops, Place
  <1>9. \A k \in AuditedVectors : KeyPlace(k) # Place(a)
    BY <1>1, <1>2, <1>8 DEF VectorsFit
  <1>10. \A b \in pending' : KeyOf(b) \notin Audit!AuditedKeys
    <2>1. \A b \in pending' : KeyPlace(KeyOf(b)) = Place(a) /\ KeyOf(b).kind = "loop-simd"
      BY <1>6, AlternativeKeyTyped
    <2> QED BY <1>9, <2>1, VectorKeysAreAudited
  <1>11. \A b, c \in pending' : KeyOf(b) = KeyOf(c) => b = c
    BY <1>1, <1>6, WidthsTyped
  <1>12. \A b \in pending', k \in Audit!AuditedKeys : k.kind = "slp" => KeyPlace(k) # Place(b)
    BY <1>6, <1>9, VectorKeysAreAudited
  <1>13. RacedFresh'
    <2>1. alternatives' = {} /\ phase' # "decided"
      BY <1>1, <1>2, <1>4 DEF RaceTypes
    <2> QED BY <1>2, <1>5, <1>7, <1>10, <1>11, <1>12, <2>1 DEF RacedFresh
  <1>14. PacksTried'
    BY <1>1, <1>2, <1>7, PacksAtRest DEF PacksTried
  <1> QED BY <1>3, <1>4, <1>13, <1>14, UnloggedKeys

LEMMA SelectPacksKeys == KeyInv /\ ~Over /\ SelectPacks /\ RaceInv' => KeyInv'
  <1> SUFFICES ASSUME KeyInv, ~Over, SelectPacks, RaceInv' PROVE KeyInv'
    OBVIOUS
  <1>1. /\ CloneInv /\ IdentitiesFit /\ RaceTypes /\ StagesFit /\ PacksTried
        /\ BlocksApart /\ PacksApart
    BY DEF KeyInv, KeysLive, RaceInv, RaceLives
  <1>2. /\ InStage("residual-slp") /\ ~InStage("loop-simd") /\ phase = "select"
    BY <1>1, StageIsHead, StageFacts DEF SelectPacks, Racing
  <1>3. pending' \subseteq UnseenPacks /\ seen \subseteq seen'
    BY DEF SelectPacks
  <1>4. /\ phase' = "packs" /\ UNCHANGED <<stages, calls, alternatives, winner, audit>>
    BY DEF SelectPacks, Racing
  <1>5. Raced' = pending'
    BY <1>1, <1>2, <1>4 DEF RaceTypes, Raced
  <1>6. \A b \in pending' : /\ b \in Residual /\ b \in Alternative /\ b.kind = "slp"
                            /\ b.block \notin Closed(b.function) /\ KeyOf(b) \notin seen
    BY <1>1, <1>3, ResidualTyped DEF UnseenPacks
  <1>7. /\ Audit!AuditedKeys' = Audit!AuditedKeys /\ Exhausted' = Exhausted /\ program' = program
        /\ \A f : Closed(f)' = Closed(f)
        /\ \A s : InStage(s)' <=> InStage(s)
        /\ \A b : KeyOf(b)' = KeyOf(b)
    BY <1>3, <1>4, RestKeeps
  <1>8. \A b, c \in pending' : KeyOf(b) = KeyOf(c) => b = c
    BY <1>1, <1>6, ResidualTyped
  <1>9. \A b \in pending' : KeyOf(b) \in Audit!AuditedKeys => b.function \in Exhausted
    <2>1. ASSUME NEW b \in pending', KeyOf(b) \in Audit!AuditedKeys
          PROVE  b.function \in Exhausted
      <3>1. KeyOf(b).kind = "slp" /\ KeyOf(b).function = b.function /\ KeyOf(b).place = b.block
        BY <1>6, <2>1 DEF KeyOf
      <3>2. \/ b.block \in Closed(b.function)
            \/ b.function \in Exhausted
            \/ KeyOf(b) \in seen
        BY <1>1, <1>2, <2>1, <3>1, PacksAtRest
      <3> QED BY <1>6, <2>1, <3>2
    <2> QED BY <2>1
  <1>10. RacedFresh'
    <2>1. alternatives' = {} /\ phase' = "packs"
      BY <1>1, <1>2, <1>4 DEF RaceTypes
    <2> QED BY <1>2, <1>5, <1>7, <1>8, <1>9, <2>1 DEF RacedFresh
  <1>11. PacksTried'
    <2>1. \A k \in Audit!AuditedKeys : k.kind = "slp" =>
             \/ k.function \in DOMAIN program /\ k.place \in Closed(k.function)
             \/ k.function \in Exhausted
             \/ k \in seen
      BY <1>1, <1>2, PacksAtRest
    <2> QED BY <1>2, <1>3, <1>7, <2>1 DEF PacksTried
  <1> QED BY <1>3, <1>4, <1>10, <1>11, UnloggedKeys

LEMMA KeepKeys ==
    ASSUME KeyInv, ~Over, RaceInv', NEW a \in pending, Keep(a) PROVE KeyInv'
  <1>1. PacksTried /\ RacedFresh
    BY DEF KeyInv, KeysLive
  <1>2. /\ pending' = pending \ {a} /\ alternatives' = alternatives \cup {a}
        /\ phase \in {"widths", "packs"} /\ UNCHANGED <<stages, calls, seen, phase, winner, audit>>
    BY DEF Keep, Evaluating, Racing
  <1>3. Raced' = Raced
    BY <1>2 DEF Raced
  <1>4. /\ Audit!AuditedKeys' = Audit!AuditedKeys /\ Exhausted' = Exhausted /\ program' = program
        /\ \A f : Closed(f)' = Closed(f)
        /\ \A s : InStage(s)' <=> InStage(s)
        /\ \A b : KeyOf(b)' = KeyOf(b)
    BY <1>2, RestKeeps
  <1>5. PacksTried' /\ RacedFresh'
    BY <1>1, <1>2, <1>3, <1>4 DEF PacksTried, RacedFresh
  <1> QED BY <1>2, <1>5, UnloggedKeys

LEMMA SkipKeys == KeyInv /\ ~Over /\ Skip /\ RaceInv' => KeyInv'
  <1> SUFFICES ASSUME KeyInv, ~Over, Skip, RaceInv' PROVE KeyInv'
    OBVIOUS
  <1>1. PacksTried /\ RacedFresh /\ PhaseFits /\ RacedFit
    BY DEF KeyInv, KeysLive, RaceInv, RaceLives
  <1>2. /\ alternatives = {} /\ pending' = {} /\ alternatives' = {}
        /\ phase \in {"widths", "short", "packs"}
        /\ phase' = "select" /\ UNCHANGED <<stages, calls, seen, winner, audit>>
    BY DEF Skip, Racing
  <1>3. Raced' = {}
    BY <1>2 DEF Raced
  <1>4. /\ Audit!AuditedKeys' = Audit!AuditedKeys /\ Exhausted' = Exhausted /\ program' = program
        /\ \A f : Closed(f)' = Closed(f)
        /\ \A s : InStage(s)' <=> InStage(s)
    BY <1>2, RestKeeps
  <1>5. ~(InStage("loop-simd") /\ phase \in {"packs", "decided"})
    BY <1>1, <1>2 DEF PhaseFits
  <1>6. PacksTried'
    BY <1>1, <1>2, <1>4, <1>5 DEF PacksTried
  <1>7. RacedFresh'
    BY <1>3 DEF RacedFresh, Raced
  <1> QED BY <1>2, <1>6, <1>7, UnloggedKeys

LEMMA AddBodyPacksKeys == KeyInv /\ ~Over /\ AddBodyPacks /\ RaceInv' => KeyInv'
  <1> SUFFICES ASSUME KeyInv, ~Over, AddBodyPacks, RaceInv' PROVE KeyInv'
    OBVIOUS
  <1>1. PacksTried /\ RacedFresh /\ PhaseFits /\ PacksApart /\ RaceInv
    BY DEF KeyInv, KeysLive, RaceInv, RaceLives
  <1>2. /\ InStage("loop-simd") /\ ~InStage("residual-slp") /\ phase = "widths" /\ phase' = "packs"
        /\ alternatives # {} /\ Raced = alternatives /\ Raced' = pending' \cup alternatives
        /\ UNCHANGED <<stages, seen, alternatives, winner, audit>>
        /\ \A b \in pending' : /\ b \in Alternative /\ b.kind = "slp"
                               /\ \A c \in alternatives : Place(b) = Place(c)
        /\ \A b, c \in pending' : KeyOf(b) = KeyOf(c) => b = c
    BY <1>1, BodyPacks
  <1>3. UNCHANGED calls
    BY DEF AddBodyPacks, Racing
  <1>4. /\ Audit!AuditedKeys' = Audit!AuditedKeys /\ Exhausted' = Exhausted /\ program' = program
        /\ \A f : Closed(f)' = Closed(f)
        /\ \A s : InStage(s)' <=> InStage(s)
        /\ \A b : KeyOf(b)' = KeyOf(b)
    BY <1>2, RestKeeps
  <1>5. \A b \in alternatives : b.kind = "loop-simd" /\ KeyOf(b).kind = "loop-simd"
    BY <1>1, <1>2 DEF PhaseFits, KeyOf
  <1>6. \A b \in pending' : /\ KeyOf(b).kind = "slp" /\ KeyPlace(KeyOf(b)) = Place(b)
                            /\ KeyOf(b) \notin Audit!AuditedKeys
    <2>1. PICK c \in alternatives : TRUE
      BY <1>2
    <2>2. \A k \in Audit!AuditedKeys : k.kind = "slp" => KeyPlace(k) # Place(c)
      BY <1>1, <1>2, <2>1 DEF RacedFresh
    <2>3. \A b \in pending' : KeyOf(b).kind = "slp" /\ KeyPlace(KeyOf(b)) = Place(b)
      BY <1>2, AlternativeKeyTyped
    <2> QED BY <1>2, <2>1, <2>2, <2>3
  <1>7. \A b, c \in Raced' : KeyOf(b) = KeyOf(c) => b = c
    <2>1. \A b, c \in alternatives : KeyOf(b) = KeyOf(c) => b = c
      BY <1>1, <1>2 DEF RacedFresh
    <2>2. \A b \in pending', c \in alternatives : KeyOf(b) # KeyOf(c)
      BY <1>5, <1>6
    <2> QED BY <1>2, <2>1, <2>2
  <1>8. \A b \in Raced' : KeyOf(b) \notin Audit!AuditedKeys
    BY <1>1, <1>2, <1>6 DEF RacedFresh
  <1>9. RacedFresh'
    <2>1. pending' \cap alternatives' = {}
      BY <1>2, <1>5
    <2> QED BY <1>2, <1>4, <1>7, <1>8, <2>1 DEF RacedFresh
  <1>10. PacksTried'
    BY <1>1, <1>2, <1>4, PacksAtRest DEF PacksTried
  <1> QED BY <1>2, <1>3, <1>9, <1>10, UnloggedKeys

LEMMA ChooseKeys == KeyInv /\ ~Over /\ Choose /\ RaceInv' => KeyInv'
  <1> SUFFICES ASSUME KeyInv, ~Over, Choose, RaceInv' PROVE KeyInv'
    OBVIOUS
  <1>1. PacksTried /\ RacedFresh
    BY DEF KeyInv, KeysLive
  <1>2. PICK a \in alternatives : winner' = a /\ alternatives' = alternatives \ {a}
    BY DEF Choose
  <1>3. /\ pending = {} /\ phase = "packs" /\ phase' = "decided"
        /\ UNCHANGED <<stages, calls, seen, pending, audit>>
    BY DEF Choose, Racing
  <1>4. Raced' = Raced
    BY <1>2, <1>3 DEF Raced
  <1>5. /\ Audit!AuditedKeys' = Audit!AuditedKeys /\ Exhausted' = Exhausted /\ program' = program
        /\ \A f : Closed(f)' = Closed(f)
        /\ \A s : InStage(s)' <=> InStage(s)
        /\ \A b : KeyOf(b)' = KeyOf(b)
    BY <1>3, RestKeeps
  <1>6. PacksTried'
    BY <1>1, <1>3, <1>4, <1>5 DEF PacksTried
  <1>7. winner' \notin alternatives' /\ pending' = {}
    BY <1>2, <1>3
  <1>8. RacedFresh'
    BY <1>1, <1>3, <1>4, <1>5, <1>7 DEF RacedFresh
  <1> QED BY <1>3, <1>6, <1>8, UnloggedKeys

\* A candidate that leaves a race one by one.
LEMMA LeavingKeys ==
    ASSUME KeyInv, ~Over, LeaveScalar \/ Lose \/ (\E a \in pending : TurnDown(a)), RaceInv'
    PROVE  KeyInv'
  <1>1. /\ RaceInv /\ RaceTypes /\ StagesFit /\ PhaseFits /\ RacedFit /\ PacksTried /\ RacedFresh
    BY DEF KeyInv, KeysLive, RaceInv, RaceLives
  <1>2. /\ InStage("loop-simd") \/ InStage("residual-slp")
        /\ UNCHANGED <<stages, calls, seen, phase, winner>>
    BY <1>1, LeavingRace
  <1>3. PICK a \in Raced, d \in {"rejected", "non-winner"} :
           /\ Charge(a, d)
           /\ \/ /\ a \in pending /\ phase # "decided"
                 /\ pending' = pending \ {a} /\ alternatives' = alternatives
              \/ /\ a \in alternatives /\ phase = "decided"
                 /\ pending' = pending /\ alternatives' = alternatives \ {a}
    BY <1>1, LeavingRace
  <1>4. CloneInv'
    BY DEF RaceInv
  <1>5. /\ program' = program
        /\ Repeated(KeyOf(a)) \/ (failed' = FALSE /\ Audited(KeyOf(a)))
    <2>1. /\ pending' \subseteq pending /\ alternatives' \subseteq alternatives
          /\ phase = "decided" \/ alternatives' = alternatives
      BY <1>3
    <2> QED BY <1>1, <1>2, <1>3, <1>4, <2>1, ChargedKeeps
  <1>6. Raced' \subseteq Raced \ {a}
    <2>1. CASE /\ a \in pending /\ phase # "decided"
               /\ pending' = pending \ {a} /\ alternatives' = alternatives
      BY <1>1, <1>2, <2>1 DEF Raced, RacedFresh
    <2>2. CASE /\ a \in alternatives /\ phase = "decided"
               /\ pending' = pending /\ alternatives' = alternatives \ {a}
      BY <1>1, <1>2, <2>2 DEF Raced, RacedFresh, PhaseFits
    <2> QED BY <1>3, <2>1, <2>2
  <1>7. /\ KeyOf(a).kind = a.kind /\ KeyOf(a).kind \in VectorKinds
        /\ KeyOf(a).function = a.function /\ KeyPlace(KeyOf(a)) = Place(a)
    BY <1>1, AlternativeKeyTyped DEF RaceTypes
  <1>8. Descends
    BY <1>5, SameBlocks
  <1>9. /\ \A f : Closed(f)' = Closed(f)
        /\ \A s : InStage(s)' <=> InStage(s)
        /\ \A b : KeyOf(b)' = KeyOf(b)
    BY <1>2, <1>5 DEF Closed, LoopBlocks, InStage, KeyOf
  <1>10. pending' \cap alternatives' = {} /\ (phase' = "decided" => winner' \notin alternatives')
    BY <1>1, <1>2, <1>3 DEF RacedFresh
  <1>11. \A b, c \in Raced' : KeyOf(b) = KeyOf(c) => b = c
    BY <1>1, <1>6 DEF RacedFresh
  <1>12. \A b \in Raced' : KeyOf(b) # KeyOf(a)
    BY <1>1, <1>6 DEF RacedFresh
  <1>13. CASE InStage("loop-simd")
    <2>1. ~InStage("residual-slp")
      BY <1>1, <1>13, StageFacts
    <2>2. failed' = FALSE /\ Audited(KeyOf(a))
      BY <1>1, <1>5, <1>13 DEF RacedFresh, Repeated
    <2>3. phase \in {"short", "widths"} => a.kind = "loop-simd"
      BY <1>1 DEF PhaseFits
    <2>4. ASSUME phase \in {"packs", "decided"}
          PROVE  \E b \in Raced' : Place(b) = Place(a)
      <3>1. \A b \in Raced' : Place(b) = Place(a)
        BY <1>1, <1>6 DEF RaceTypes
      <3>2. CASE phase = "packs"
        <4>1. alternatives' # {}
          BY <1>1, <1>3, <1>13, <3>2 DEF PhaseFits
        <4> QED BY <3>1, <4>1 DEF Raced
      <3>3. CASE phase = "decided"
        <4>1. winner' \in Raced'
          BY <1>2, <3>3 DEF Raced
        <4> QED BY <3>1, <4>1
      <3> QED BY <2>4, <3>2, <3>3
    <2>5. ASSUME NEW k \in Audit!AuditedKeys', k.kind = "slp"
          PROVE  \/ k.function \in DOMAIN program /\ k.place \in Closed(k.function)
                 \/ k.function \in Exhausted'
                 \/ /\ phase \in {"packs", "decided"}
                    /\ \E b \in Raced' : Place(b) = KeyPlace(k)
      <3>1. CASE k = KeyOf(a)
        <4>1. phase \in {"packs", "decided"}
          <5>1. phase # "select"
            BY <1>1, <1>3 DEF RaceTypes, PhaseFits
          <5> QED BY <1>1, <1>7, <2>3, <2>5, <3>1, <5>1 DEF RaceTypes
        <4> QED BY <1>7, <2>4, <3>1, <4>1
      <3>2. CASE k \in Audit!AuditedKeys
        <4>1. \/ k.function \in DOMAIN program /\ k.place \in Closed(k.function)
              \/ k.function \in Exhausted
              \/ /\ phase \in {"packs", "decided"}
                 /\ \E b \in Raced : Place(b) = KeyPlace(k)
          BY <1>1, <2>1, <2>5, <3>2 DEF PacksTried
        <4>2. (\E b \in Raced : Place(b) = KeyPlace(k)) => Place(a) = KeyPlace(k)
          BY <1>1 DEF RaceTypes
        <4> QED BY <2>2, <2>4, <4>1, <4>2 DEF Audited
      <3> QED BY <2>2, <2>5, <3>1, <3>2 DEF Audited
    <2>6. PacksTried'
      BY <1>2, <1>5, <1>9, <1>13, <2>5 DEF PacksTried
    <2>7. \A b \in Raced' : KeyOf(b) \notin Audit!AuditedKeys'
      BY <1>1, <1>6, <1>12, <1>13, <2>2 DEF RacedFresh, Audited
    <2>8. ASSUME phase \in {"short", "widths"}, NEW b \in Raced',
                 NEW k \in Audit!AuditedKeys', k.kind = "slp"
          PROVE  KeyPlace(k) # Place(b)
      <3>1. k \in Audit!AuditedKeys
        BY <1>7, <2>2, <2>3, <2>8 DEF Audited
      <3> QED BY <1>1, <1>6, <2>8, <3>1 DEF RacedFresh
    <2>9. RacedFresh'
      BY <1>2, <1>9, <1>10, <1>11, <2>1, <2>7, <2>8 DEF RacedFresh
    <2> QED BY <1>2, <1>7, <1>8, <2>2, <2>6, <2>9, LoggedKeys
  <1>14. CASE InStage("residual-slp")
    <2>1. ~InStage("loop-simd")
      BY <1>1, <1>14, StageFacts
    <2>2. phase \notin {"short", "widths"}
      BY <1>1, <2>1 DEF PhaseFits
    <2>3. KeyOf(a) \in seen
      BY <1>1, <1>14 DEF RacedFit
    <2>4. CASE Repeated(KeyOf(a))
      <3>1. a.function \in Exhausted
        BY <1>1, <1>14, <2>4 DEF RacedFresh, Repeated
      <3>2. OnlyExhaustedPacksReturn'
        BY <1>1, <1>2, <1>14, <2>4, <3>1, PackReturns
      <3>3. Over'
        BY <2>4 DEF Over, Repeated
      <3> QED BY <3>2, <3>3 DEF KeyInv
    <2>5. CASE failed' = FALSE /\ Audited(KeyOf(a))
      <3>1. ASSUME NEW k \in Audit!AuditedKeys', k.kind = "slp"
            PROVE  \/ k.function \in DOMAIN program /\ k.place \in Closed(k.function)
                   \/ k.function \in Exhausted'
                   \/ k \in seen
        <4>1. CASE k = KeyOf(a)
          BY <2>3, <4>1
        <4>2. CASE k \in Audit!AuditedKeys
          BY <1>1, <2>1, <2>5, <3>1, <4>2 DEF PacksTried, Audited
        <4> QED BY <2>5, <3>1, <4>1, <4>2 DEF Audited
      <3>2. PacksTried'
        BY <1>2, <1>5, <1>9, <1>14, <3>1 DEF PacksTried
      <3>3. \A b \in Raced' : KeyOf(b) \in Audit!AuditedKeys' => b.function \in Exhausted'
        BY <1>1, <1>6, <1>12, <1>14, <2>5 DEF RacedFresh, Audited
      <3>4. RacedFresh'
        BY <1>2, <1>9, <1>10, <1>11, <2>1, <2>2, <3>3 DEF RacedFresh
      <3> QED BY <1>2, <1>7, <1>8, <2>5, <3>2, <3>4, LoggedKeys
    <2> QED BY <1>5, <2>4, <2>5
  <1> QED BY <1>2, <1>13, <1>14

\* With its winner a place is closed, or its function has run out of units.
LEMMA PublishKeys == KeyInv /\ ~Over /\ Publish /\ RaceInv' => KeyInv'
  <1> SUFFICES ASSUME KeyInv, ~Over, Publish, RaceInv' PROVE KeyInv'
    OBVIOUS
  <1>1. /\ RaceInv /\ StagesFit /\ RacedFit /\ PacksTried /\ RacedFresh
    BY DEF KeyInv, KeysLive, RaceInv, RaceLives
  <1>2. PICK w : w = winner
    OBVIOUS
  <1>3. /\ w \in Alternative /\ Raced = {w} /\ Raced' = {}
        /\ InStage("loop-simd") \/ InStage("residual-slp")
        /\ phase' = "select" /\ pending' = {} /\ alternatives' = {}
        /\ UNCHANGED <<stages, calls, seen>>
        /\ KeyPlace(KeyOf(w)) = Place(w) /\ KeyOf(w).function = w.function
        /\ \/ /\ program' = program
              /\ \/ Repeated(KeyOf(w))
                 \/ failed' = TRUE /\ attempts'[Len(attempts')].disposition = "compiler-error"
                 \/ failed' = FALSE /\ Audited(KeyOf(w)) /\ w.function \in Exhausted'
           \/ /\ SameFunctions /\ Descends /\ failed' = FALSE /\ Audited(KeyOf(w))
              /\ \A f \in DOMAIN program : Closed(f) \subseteq Closed(f)'
              /\ w.block \in Closed(w.function)'
    BY <1>1, <1>2, Published
  <1>4. KeyOf(w).kind \in VectorKinds
    BY <1>3, AlternativeKeyTyped
  <1>5. CASE Repeated(KeyOf(w))
    <2>1. InStage("residual-slp") /\ w.function \in Exhausted
      BY <1>1, <1>3, <1>5, StageFacts DEF RacedFresh, Repeated
    <2>2. OnlyExhaustedPacksReturn'
      BY <1>1, <1>3, <1>5, <2>1, PackReturns
    <2>3. Over'
      BY <1>5 DEF Over, Repeated
    <2> QED BY <2>2, <2>3 DEF KeyInv
  <1>6. CASE failed' = TRUE /\ attempts'[Len(attempts')].disposition = "compiler-error"
    BY <1>6, NoFailure DEF KeyInv, Over
  <1>7. ASSUME failed' = FALSE, Audited(KeyOf(w)), Descends,
               \A f \in DOMAIN program : f \in DOMAIN program' /\ Closed(f) \subseteq Closed(f)',
               w.function \in Exhausted' \/ w.block \in Closed(w.function)'
        PROVE  KeyInv'
    <2>1. w.function \in DOMAIN program'
      BY <1>1, <1>3, <1>7 DEF RacedFit
    <2>2. ASSUME NEW k \in Audit!AuditedKeys', k.kind = "slp"
          PROVE  \/ k.function \in DOMAIN program' /\ k.place \in Closed(k.function)'
                 \/ k.function \in Exhausted'
                 \/ InStage("residual-slp") /\ k \in seen
      <3>1. CASE KeyPlace(k) = Place(w)
        <4>1. k.function = w.function /\ k.place = w.block
          BY <3>1 DEF KeyPlace, Place
        <4> QED BY <1>7, <2>1, <4>1
      <3>2. CASE k \in Audit!AuditedKeys /\ KeyPlace(k) # Place(w)
        BY <1>1, <1>3, <1>7, <2>2, <3>2 DEF PacksTried, Audited
      <3> QED BY <1>3, <1>7, <2>2, <3>1, <3>2 DEF Audited
    <2>3. \A s : InStage(s)' <=> InStage(s)
      BY <1>3 DEF InStage
    <2>4. PacksTried'
      BY <1>3, <2>2, <2>3 DEF PacksTried
    <2>5. RacedFresh'
      BY <1>3 DEF RacedFresh
    <2> QED BY <1>3, <1>4, <1>7, <2>4, <2>5, LoggedKeys
  <1>8. CASE /\ program' = program /\ failed' = FALSE /\ Audited(KeyOf(w))
             /\ w.function \in Exhausted'
    BY <1>7, <1>8, SameBlocks DEF Closed, LoopBlocks
  <1>9. CASE /\ SameFunctions /\ Descends /\ failed' = FALSE /\ Audited(KeyOf(w))
             /\ \A f \in DOMAIN program : Closed(f) \subseteq Closed(f)'
             /\ w.block \in Closed(w.function)'
    BY <1>7, <1>9 DEF SameFunctions
  <1> QED BY <1>3, <1>5, <1>6, <1>8, <1>9

LEMMA VectorKeys == KeyInv /\ ~Over /\ VectorStep /\ RaceInv' => KeyInv'
  <1> SUFFICES ASSUME KeyInv, ~Over, VectorStep, RaceInv' PROVE KeyInv'
    OBVIOUS
  <1>1. CASE EndVectors
    BY <1>1, NextStageKeys DEF EndVectors
  <1>2. CASE VectorError
    <2>1. failed' = FALSE /\ Over'
      BY <1>2 DEF VectorError, PipelineError, audit, Over, InStage, KeyInv, RaceInv, AuditProofs!Inv
    <2> QED BY <2>1, NoFailure DEF KeyInv
  <1>3. CASE SelectLoop \/ SelectPacks \/ Skip \/ AddBodyPacks \/ Choose \/ Publish
    BY <1>3, SelectLoopKeys, SelectPacksKeys, SkipKeys, AddBodyPacksKeys, ChooseKeys, PublishKeys
  <1>4. CASE LeaveScalar \/ Lose \/ (\E a \in pending : TurnDown(a))
    BY <1>4, LeavingKeys
  <1>5. CASE \E a \in pending : Keep(a)
    BY <1>5, KeepKeys
  <1> QED BY <1>1, <1>2, <1>3, <1>4, <1>5 DEF VectorStep

LEMMA StutterKeys == KeyInv /\ UNCHANGED vars => KeyInv'
  <1> SUFFICES ASSUME KeyInv, UNCHANGED vars PROVE KeyInv'
    OBVIOUS
  <1>1. /\ UNCHANGED <<stages, calls, seen, phase, pending, alternatives, winner, audit>>
        /\ UNCHANGED <<attempts, program, failed>>
    BY DEF vars, race, audit
  <1>2. RaceInv'
    BY StutterRaces DEF KeyInv
  <1>3. OnlyExhaustedPacksReturn'
    BY <1>1 DEF KeyInv, OnlyExhaustedPacksReturn
  <1>4. CASE Over
    BY <1>1, <1>2, <1>3, <1>4 DEF KeyInv, Over, InStage
  <1>5. CASE ~Over
    <2>1. PacksTried /\ RacedFresh
      BY <1>5 DEF KeyInv, KeysLive
    <2>2. /\ Audit!AuditedKeys' = Audit!AuditedKeys /\ Exhausted' = Exhausted
          /\ \A f : Closed(f)' = Closed(f)
          /\ \A s : InStage(s)' <=> InStage(s)
          /\ \A b : KeyOf(b)' = KeyOf(b)
      BY <1>1, RestKeeps
    <2>3. Raced' = Raced
      BY <1>1 DEF Raced
    <2>4. PacksTried'
      BY <1>1, <2>1, <2>2, <2>3 DEF PacksTried
    <2>5. RacedFresh'
      BY <1>1, <2>1, <2>2, <2>3 DEF RacedFresh
    <2> QED BY <1>1, <1>2, <1>5, <2>4, <2>5, UnloggedKeys
  <1> QED BY <1>4, <1>5

LEMMA InitKeys == DistinctPacks /\ Init => KeyInv
  <1> SUFFICES ASSUME DistinctPacks, Init PROVE KeyInv
    OBVIOUS
  <1>1. PICK entry \in Entries : program = entry.program /\ calls = entry.calls
    BY DEF Init
  <1>2. /\ phase = "select" /\ pending = {} /\ alternatives = {} /\ attempts = <<>> /\ failed = FALSE
    BY DEF Init
  <1>3. RaceInv
    BY InitRaces
  <1>4. OnlyExhaustedPacksReturn
    BY <1>2 DEF OnlyExhaustedPacksReturn
  <1>5. Audit!AuditedKeys = {} /\ AuditedVectors = {} /\ Raced = {}
    BY <1>2 DEF Audit!AuditedKeys, AuditedVectors, Raced
  <1>6. BlocksApart
    BY <1>1, EntryAssumption DEF BlocksApart
  <1>7. PacksApart
    BY <1>1, EntryAssumption DEF PacksApart, DistinctPacks
  <1>8. CallsApart
    BY <1>1, <1>5, EntryAssumption DEF CallsApart
  <1>9. LoopsTried
    BY <1>5 DEF LoopsTried
  <1>10. PacksTried /\ RacedFresh
    BY <1>2, <1>5 DEF PacksTried, RacedFresh
  <1> QED BY <1>3, <1>4, <1>6, <1>7, <1>8, <1>9, <1>10 DEF KeyInv, KeysLive

THEOREM KeyInvariant == DistinctPacks /\ Spec => []KeyInv
  <1>1. DistinctPacks /\ Init => KeyInv
    BY InitKeys
  <1>2. KeyInv /\ [Next]_vars => KeyInv'
    <2> SUFFICES ASSUME KeyInv, [Next]_vars PROVE KeyInv'
      OBVIOUS
    <2>1. CASE Over
      BY <2>1, OverStutters, StutterKeys
    <2>2. CASE ~Over /\ Next
      <3>1. RaceInv'
        BY <2>2, SpecializationRaces, LoopRaces, VectorRaces DEF Next, KeyInv
      <3> QED BY <2>2, <3>1, SpecializationKeys, LoopKeys, VectorKeys DEF Next
    <2>3. CASE UNCHANGED vars
      BY <2>3, StutterKeys
    <2> QED BY <2>1, <2>2, <2>3
  <1> QED BY <1>1, <1>2, PTL DEF Spec

\* Where the packs of a block are told apart by their keys only a broken trial, or
\* a pack met again after its function ran out of units, ends a compile.
THEOREM OnlyExhaustedPacksReturnHolds == DistinctPacks /\ Spec => []OnlyExhaustedPacksReturn
  BY KeyInvariant, PTL DEF KeyInv

-----------------------------------------------------------------------------
(* Every frontier works through the transaction. *)

\* Whatever a candidate costs, logging it is a step of the transaction.
LEMMA DropImplements ==
    ASSUME NEW key \in Key, NEW functions \in Seq(FunctionIds),
           NEW d \in {"rejected", "reused", "non-winner"}, Drop(key, functions, d)
    PROVE  AuditProofs!Next
  <1>1. PICK u \in Units :
           Audit!Record(key, [functions |-> functions, proposer |-> u.proposer,
                              checker |-> u.checker], d)
    BY DEF Drop
  <1> DEFINE charge == [functions |-> functions, proposer |-> u.proposer, checker |-> u.checker]
  <1>2. charge \in [functions : Seq(FunctionIds), proposer : Nat, checker : Nat]
    BY WorkAssumption
  <1>3. Audit!Record(key, charge, d)
    BY <1>1
  <1> HIDE DEF charge
  <1>4. AuditProofs!Record(key, charge, d)
    BY <1>3, SameAudit
  <1> QED BY <1>2, <1>4 DEF AuditProofs!Next, AuditProofs!NonCommitting

\* So is trying it.
LEMMA TryImplements ==
    ASSUME NEW key \in Key, NEW functions \in Seq(FunctionIds),
           NEW success \in {"accepted", "reused"}, NEW trial \in Program,
           NEW verdicts \in SUBSET {"ok", "reject", "compiler"},
           Try(key, functions, success, trial, verdicts)
    PROVE  AuditProofs!Next
  <1>1. PICK u \in Units, verdict \in verdicts :
           Audit!Transact(key, [functions |-> functions, proposer |-> u.proposer,
                                checker |-> u.checker], success, trial, verdict)
    BY DEF Try
  <1> DEFINE charge == [functions |-> functions, proposer |-> u.proposer, checker |-> u.checker]
  <1>2. charge \in [functions : Seq(FunctionIds), proposer : Nat, checker : Nat]
    BY WorkAssumption
  <1>3. Audit!Transact(key, charge, success, trial, verdict)
    BY <1>1
  <1> HIDE DEF charge
  <1>4. AuditProofs!Transact(key, charge, success, trial, verdict)
    BY <1>3, SameAudit
  <1>5. verdict \in {"ok", "reject", "compiler"}
    OBVIOUS
  <1> QED BY <1>2, <1>4, <1>5 DEF AuditProofs!Next

LEMMA Untouched == UNCHANGED audit => UNCHANGED AuditProofs!vars
  BY DEF audit, AuditProofs!vars

LEMMA SpecializationImplements ==
    ASSUME RaceInv, SpecializationStep
    PROVE  AuditProofs!Next \/ UNCHANGED AuditProofs!vars
  <1>1. CloneInv /\ IdentitiesFit /\ calls \in Seq(Call)
    BY DEF RaceInv, CloneInv
  <1>2. ASSUME Specializing
        PROVE  /\ Current \in Call
               /\ CallKey(Current) \in Key /\ Charging(Current) \in Seq(FunctionIds)
    <2>1. Current \in Call
      BY <1>1, <1>2 DEF Specializing, Current
    <2> QED BY <1>1, <2>1, CallKeyTyped
  <1>3. CASE RefuseClone
    <2>1. Specializing /\ Drop(CallKey(Current), Charging(Current), "rejected")
      BY <1>3 DEF RefuseClone
    <2> QED BY <1>2, <2>1, DropImplements
  <1>4. CASE Reuse
    <2>1. /\ Specializing /\ program \in Program
          /\ Try(CallKey(Current), Charging(Current), "reused", program, Unchecked)
      BY <1>1, <1>4 DEF Reuse, CloneInv, ProgramOK
    <2> QED BY <1>2, <2>1, TryImplements DEF Unchecked
  <1>5. CASE Clone
    <2> DEFINE trial == Append(program, NewClone(Current))
    <2>1. Specializing
          /\ Try(CallKey(Current), Charging(Current), "accepted", trial, Unchecked)
      BY <1>5 DEF Clone
    <2>2. trial \in Program
      BY <1>1, <1>2, <2>1, CloneMoves
    <2> HIDE DEF trial
    <2> QED BY <1>2, <2>1, <2>2, TryImplements DEF Unchecked
  <1>6. CASE RegisterBudget
    <2>1. owing # 0 /\ Audit!RegisterClone(owing, program[Len(program)].origin)
      BY <1>6 DEF RegisterBudget
    <2>2. owing \in DOMAIN program /\ owing \notin Functions0
          /\ program[Len(program)].origin \in Functions0
      BY <1>1, <2>1, Shape DEF CloneInv, OwnersFollow, ProgramOK
    <2>3. owing \in FunctionIds \ Functions0 /\ program[Len(program)].origin \in FunctionIds
      BY <1>1, <2>2, IdentitiesInRange, WorkAssumption
    <2>4. AuditProofs!RegisterClone(owing, program[Len(program)].origin)
      BY <2>1, SameAudit
    <2> QED BY <2>3, <2>4 DEF AuditProofs!Next
  <1>7. CASE SpecializationError \/ EndSpecialization
    BY <1>7, Untouched DEF SpecializationError, PipelineError, EndSpecialization, NextStage
  <1> QED BY <1>3, <1>4, <1>5, <1>6, <1>7 DEF SpecializationStep

LEMMA LoopImplements ==
    ASSUME RaceInv, LoopStep
    PROVE  AuditProofs!Next \/ UNCHANGED AuditProofs!vars
  <1>1. CloneInv /\ IdentitiesFit
    BY DEF RaceInv
  <1>2. PICK kind \in LoopKinds : Propose(kind) \/ EndLoops(kind)
    BY DEF LoopStep
  <1>3. CASE Propose(kind)
    <2>1. PICK o \in Offers(kind) :
             \/ Drop(LoopKey(kind, o), <<o.function>>, "rejected")
             \/ Try(LoopKey(kind, o), <<o.function>>, "accepted", Rewritten(kind, o), Unchecked)
      BY <1>3 DEF Propose
    <2>2. /\ o.function \in DOMAIN program /\ LoopKey(kind, o) \in Key
          /\ <<o.function>> \in Seq(FunctionIds)
      BY <1>1, LoopKeyTyped
    <2>3. Rewritten(kind, o) \in Program /\ Unchecked \in SUBSET {"ok", "reject", "compiler"}
      BY <1>1, <2>2, RewrittenMoves DEF Unchecked
    <2> QED BY <2>1, <2>2, <2>3, DropImplements, TryImplements
  <1>4. CASE EndLoops(kind)
    BY <1>4, Untouched DEF EndLoops, NextStage
  <1> QED BY <1>2, <1>3, <1>4

LEMMA VectorImplements ==
    ASSUME RaceInv, ~Over, VectorStep
    PROVE  AuditProofs!Next \/ UNCHANGED AuditProofs!vars
  <1>1. CASE LeaveScalar \/ Lose \/ (\E a \in pending : TurnDown(a))
    <2>1. PICK a \in Raced, d \in {"rejected", "non-winner"} : Charge(a, d)
      BY <1>1, LeavingRace
    <2>2. KeyOf(a) \in Key /\ <<a.function>> \in Seq(FunctionIds)
      BY AlternativeKeyTyped DEF RaceInv, RaceTypes
    <2> QED BY <2>1, <2>2, DropImplements DEF Charge
  <1>2. CASE Publish
    <2>1. Try(KeyOf(winner), <<winner.function>>, "accepted", Vectorized(winner), Checked)
      BY <1>2 DEF Publish
    <2>2. winner \in Alternative /\ winner \in Raced
      BY <1>2, Published
    <2>3. winner.function \in DOMAIN program /\ Place(winner) \notin Won
      BY <2>2 DEF RaceInv, RaceLives, RacedFit
    <2>4. KeyOf(winner) \in Key /\ <<winner.function>> \in Seq(FunctionIds)
      BY <2>2, AlternativeKeyTyped
    <2>5. Vectorized(winner) \in Program
      <3>1. winner.kind = "slp" \/ winner.block \in LoopBlocks(winner.function)
        BY <2>2 DEF RaceInv, RaceLives, RacedFit, Alternative, VectorKinds
      <3> QED BY <2>2, <2>3, <3>1, VectorizedMoves DEF RaceInv
    <2> QED BY <2>1, <2>4, <2>5, TryImplements DEF Checked
  <1>3. CASE \/ SelectLoop \/ SelectPacks \/ EndVectors \/ (\E a \in pending : Keep(a))
             \/ VectorError \/ Skip \/ AddBodyPacks \/ Choose
    BY <1>3, Untouched DEF SelectLoop, SelectPacks, EndVectors, NextStage, Keep, VectorError,
       PipelineError, Skip, AddBodyPacks, Choose
  <1> QED BY <1>1, <1>2, <1>3 DEF VectorStep

LEMMA StepImplements == RaceInv /\ [Next]_vars => [AuditProofs!Next]_(AuditProofs!vars)
  <1> SUFFICES ASSUME RaceInv, [Next]_vars
               PROVE  AuditProofs!Next \/ UNCHANGED AuditProofs!vars
    OBVIOUS
  <1>1. CASE UNCHANGED vars
    BY <1>1, Untouched DEF vars, audit
  <1>2. CASE Next /\ ~Over
    BY <1>2, SpecializationImplements, LoopImplements, VectorImplements DEF Next
  <1>3. CASE Next /\ Over
    BY <1>3, OverStutters, Untouched DEF vars, audit
  <1> QED BY <1>1, <1>2, <1>3

\* What the frontiers of a compile do to its program and its audit, they do through
\* the verified transaction: nine frontiers and the registration of clones write
\* neither the log nor a budget themselves (kir_pipeline.rs, transaction.rs).
THEOREM CompileWorksThroughAudit == Spec => [][Audit!Next]_(Audit!vars)
  <1>1. AuditProofs!Next <=> Audit!Next
    <2>1. \A key, charge, d : Audit!Record(key, charge, d) <=> AuditProofs!Record(key, charge, d)
      BY SameAudit
    <2>2. \A key, charge, success, trial, verdict :
             Audit!Transact(key, charge, success, trial, verdict)
               <=> AuditProofs!Transact(key, charge, success, trial, verdict)
      BY SameAudit
    <2>3. \A clone, original :
             Audit!RegisterClone(clone, original) <=> AuditProofs!RegisterClone(clone, original)
      BY SameAudit
    <2> QED BY <2>1, <2>2, <2>3 DEF AuditProofs!Next, Audit!Next,
                                    AuditProofs!NonCommitting, Audit!NonCommitting
  <1>2. [AuditProofs!Next]_(AuditProofs!vars) <=> [Audit!Next]_(Audit!vars)
    BY <1>1 DEF AuditProofs!vars, Audit!vars
  <1> QED BY <1>2, RaceInvariant, StepImplements, PTL DEF Spec

LEMMA InitLedger == Init => AuditProofs!Ledger
  <1> SUFFICES ASSUME Init PROVE AuditProofs!Ledger
    OBVIOUS
  <1>1. remaining = Budget /\ attempts = <<>> /\ failed = FALSE
    BY DEF Init
  <1>2. ASSUME NEW f \in Functions0, NEW kind \in AuditProofs!Units
        PROVE  AuditProofs!AddsUp(AuditProofs!Costs(f, kind), Len(attempts),
                                  Budget[f][kind] - remaining[f][kind])
    <2>1. Budget[f] \in [proposer : Nat, checker : Nat]
      BY WorkAssumption
    <2>2. Budget[f][kind] - remaining[f][kind] = 0
      BY <1>1, <2>1 DEF AuditProofs!Units
    <2>3. Len(attempts) = 0
      BY <1>1
    <2> QED BY <2>2, <2>3, AuditAssumed, AuditProofs!NothingAddsUp
  <1>3. AuditProofs!LoggedOwners
    BY <1>1 DEF AuditProofs!LoggedOwners
  <1> QED BY <1>2, <1>3 DEF AuditProofs!Ledger, AuditProofs!Balanced

\* Over all the frontiers of a compile, clones of whose work their originals pay
\* included, what is left of a budget and what the log charges to it make the
\* whole (audit.rs try_debit, register_clone).
THEOREM CompileLedgerBalances == Spec => []Audit!LedgerBalance
  <1>1. RaceInv /\ AuditProofs!Ledger /\ [Next]_vars => AuditProofs!Ledger'
    BY StepImplements, AuditAssumed, AuditProofs!NextLedger DEF RaceInv
  <1>2. Spec => []AuditProofs!Ledger
    BY <1>1, InitLedger, RaceInvariant, PTL DEF Spec
  <1>3. RaceInv /\ AuditProofs!Ledger => Audit!LedgerBalance
    <2>1. AuditProofs!LedgerBalance <=> Audit!LedgerBalance
      BY DEF AuditProofs!LedgerBalance, Audit!LedgerBalance, AuditProofs!Spent, Audit!Spent,
             AuditProofs!Cost, Audit!Cost, AuditProofs!ChargedOwners, Audit!ChargedOwners,
             AuditProofs!Charged, Audit!Charged
    <2> QED BY <2>1, AuditAssumed, AuditProofs!LedgerIsBalance DEF RaceInv
  <1> QED BY <1>2, <1>3, RaceInvariant, PTL

\* No two candidates of a compile are audited under one key, whichever frontiers
\* they come from (audit.rs append_attempt).
THEOREM CompileAuditsOnce == Spec => []Audit!NoKeyTwice
  <1>1. Init => AuditProofs!NoKeyTwice
    BY DEF Init, AuditProofs!NoKeyTwice
  <1>2. RaceInv /\ AuditProofs!NoKeyTwice /\ [Next]_vars => AuditProofs!NoKeyTwice'
    BY StepImplements, AuditAssumed, AuditProofs!NextKeysUnique DEF RaceInv
  <1>3. AuditProofs!NoKeyTwice <=> Audit!NoKeyTwice
    BY DEF AuditProofs!NoKeyTwice, Audit!NoKeyTwice
  <1> QED BY <1>1, <1>2, <1>3, RaceInvariant, PTL DEF Spec
=============================================================================
