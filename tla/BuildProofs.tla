----------------------------- MODULE BuildProofs -----------------------------
(***************************************************************************)
(* What holds of the pass manager and of multiversion builds, whatever the  *)
(* passes do and for every module, score, budget and number of threads.     *)
(***************************************************************************)
EXTENDS PassPipeline, Multiversion, SequenceTheorems, TLAPS

-----------------------------------------------------------------------------
(* The pass manager.  An artifact is verified and only a broken pass fails  *)
(* a build, although a function that did not change is not validated again: *)
(* between two passes the snapshot is the evidence and holds in full; a     *)
(* pass cannot take records away, so that the record which authorized a     *)
(* missing guard in the snapshot still authorizes it; transactions, which   *)
(* can, validate all.                                                       *)

\* Before the input is validated there is no snapshot, afterwards it is current.
SnapshotIsCurrent ==
    errors = "none" =>
        \/ verified = {} /\ stages # <<>> /\ Head(stages) = "input"
        \/ verified = {evidence} /\ Full(evidence)

ProgramIsVerified == \A s \in state : Full(s)

ArtifactIsSnapshot ==
    artifact => stages = <<>> /\ errors = "none" /\ verified = {evidence}

PassInv ==
    /\ PassTypeOK
    /\ SnapshotIsCurrent
    /\ ProgramIsVerified
    /\ ArtifactIsSnapshot
    /\ OnlyBrokenPassesFail

-----------------------------------------------------------------------------

\* Full evidence passes the incremental validation.
LEMMA FullIsAccepted == \A e : Full(e) => Verdict(e)
BY DEF Full, Verdict

\* What the incremental validation accepts holds in full, as long as the records
\* of the snapshot are still there.
LEMMA VerdictIsFull ==
    ASSUME verified = {evidence}, Full(evidence),
           NEW e, evidence.removed \subseteq e.removed, Verdict(e)
    PROVE  Full(e)
<1>1. CertificatesHold(e)
  BY DEF Verdict
<1>2. ASSUME NEW f \in KirFunctions PROVE FunctionHolds(e, f)
  <2>1. CASE FunctionHolds(e, f)
    BY <2>1
  <2>2. CASE Unchanged(e, f)
    <3>1. evidence.body[f] = e.body[f]
      BY <2>2 DEF Unchanged
    <3>2. FunctionHolds(evidence, f)
      BY DEF Full
    <3> QED BY <3>1, <3>2 DEF FunctionHolds
  <2> QED BY <2>1, <2>2 DEF Verdict
<1> QED BY <1>1, <1>2 DEF Full

\* In full evidence nothing is broken and no check without guard is unsafe.
LEMMA FullIsSafe ==
    ASSUME NEW e, Full(e)
    PROVE  e.facts /\ \A f \in KirFunctions : e.body[f] \notin {"broken", "unsafe"}
BY DEF Full, CertificatesHold, FunctionHolds, Body, Unguarded, Provable

\* The plans are sequences of stage names that begin with the input.
LEMMA PlansAreSequences ==
    /\ \A level \in {"O0", "O1", "O2", "O3"} :
          /\ PlanOf(level) \in Seq(Stages)
          /\ PlanOf(level) # <<>> /\ Head(PlanOf(level)) = "input"
    /\ ProfilePlan \in Seq(Stages) /\ ProfilePlan # <<>> /\ Head(ProfilePlan) = "input"
    /\ NoOps \in Seq(Stages)
    /\ \A plan \in FrontierPlans : plan \in Seq(Stages)
<1> DEFINE In == <<"input">>
<1>1. \A a \in Stages : <<a>> \in Seq(Stages)
  OBVIOUS
<1>2. \A a, b \in Stages : <<a, b>> \in Seq(Stages)
  OBVIOUS
<1>3. \A a, b, c, d \in Stages : <<a, b, c>> \in Seq(Stages) /\ <<a, b, c, d>> \in Seq(Stages)
  OBVIOUS
<1>4. \A a, b, c, d, e, f, g \in Stages : <<a, b, c, d, e, f, g>> \in Seq(Stages)
  OBVIOUS
<1>5. \A s, t \in Seq(Stages) : s \o t \in Seq(Stages)
  OBVIOUS
<1> DEFINE Starts(s) == s \in Seq(Stages) /\ s # <<>> /\ Head(s) = "input"
<1>6. Starts(In)
  <2>1. "input" \in Stages
    BY DEF Stages
  <2> QED BY <1>1, <2>1
<1>7. \A s, t : Starts(s) /\ t \in Seq(Stages) => Starts(s \o t)
  OBVIOUS
<1> USE DEF Stages, PreGuard, Eliminations, Analyses, Frontiers, Rewriting
<1>8. Entry \in Seq(Stages) /\ Scalar \in Seq(Stages) /\ Closing \in Seq(Stages)
  BY <1>2 DEF Entry, Scalar, Closing
<1>9. Memory \in Seq(Stages)
  BY <1>3 DEF Memory
<1>10. Loops \in Seq(Stages)
  BY <1>4 DEF Loops
<1>11. Baseline \in Seq(Stages) /\ Peel \in Seq(Stages) /\ Unswitch \in Seq(Stages)
  BY <1>1, <1>2 DEF Baseline, Peel, Unswitch
<1>12. NoOps \in Seq(Stages) /\ Vector \in Seq(Stages)
  BY <1>3 DEF NoOps, Vector
<1>13. /\ <<"check-elimination">> \in Seq(Stages)
      /\ <<"check-elimination", "effect-aware-inline">> \in Seq(Stages)
      /\ <<"modular-affine-composition">> \in Seq(Stages)
      /\ <<"profile-sites">> \in Seq(Stages)
      /\ <<"stencil-interior-normalize">> \in Seq(Stages)
      /\ <<"wasm-decision-tree-vector">> \in Seq(Stages)
      /\ <<>> \in Seq(Stages)
  BY <1>1, <1>2
<1>14. <<"loop-simplify", "check-elimination", "specialization-frontier",
        "effect-aware-inline">> \in Seq(Stages)
  BY <1>3
<1> HIDE DEF Stages, PreGuard, Eliminations, Analyses, Frontiers, Rewriting, In, Starts
<1>15. PlanOf("O0") = In
  BY DEF PlanOf, In
<1>16. PlanOf("O1") = In \o Entry \o <<"check-elimination">> \o Closing
  BY DEF PlanOf, In
<1>17. PlanOf("O2") = In \o Entry \o <<"check-elimination", "effect-aware-inline">>
                        \o Scalar \o Memory \o Closing
  BY DEF PlanOf, In
<1>18. PlanOf("O3") = In \o Entry
        \o <<"loop-simplify", "check-elimination", "specialization-frontier",
             "effect-aware-inline">>
        \o Scalar \o <<"modular-affine-composition">> \o Memory \o Loops \o Closing
  BY DEF PlanOf, In
<1>19. Starts(PlanOf("O0")) /\ Starts(PlanOf("O1"))
  BY <1>6, <1>7, <1>8, <1>13, <1>15, <1>16, Zenon
<1>20. Starts(PlanOf("O2"))
  BY <1>6, <1>7, <1>8, <1>9, <1>13, <1>17, Zenon
<1>21. Starts(PlanOf("O3"))
  BY <1>6, <1>7, <1>8, <1>9, <1>10, <1>13, <1>14, <1>18, Zenon
<1>22. Starts(ProfilePlan)
  BY <1>7, <1>13, <1>19, Zenon DEF ProfilePlan
<1>23. ASSUME NEW target \in {<<>>, Baseline}
       PROVE  Peel \o target \o <<"stencil-interior-normalize">> \o Unswitch
                  \o <<"wasm-decision-tree-vector">> \o Vector \in Seq(Stages)
  <2>1. target \in Seq(Stages)
    BY <1>11, <1>13
  <2> QED BY <2>1, <1>5, <1>11, <1>12, <1>13, Zenon
<1>24. /\ Peel \o Baseline \o Unswitch \o NoOps \in Seq(Stages)
       /\ Peel \o Unswitch \o NoOps \in Seq(Stages)
  BY <1>5, <1>11, <1>12, Zenon
<1>25. \A plan \in FrontierPlans : plan \in Seq(Stages)
  BY <1>12, <1>23, <1>24, Zenon DEF FrontierPlans
<1> QED BY <1>12, <1>19, <1>20, <1>21, <1>22, <1>25 DEF Starts

-----------------------------------------------------------------------------

LEMMA InitEstablishes == PassInit => PassInv
<1> SUFFICES ASSUME PassInit PROVE PassInv
  OBVIOUS
<1>1. stages \in Seq(Stages) /\ stages # <<>> /\ Head(stages) = "input"
  BY PlansAreSequences DEF PassInit
<1>2. PassTypeOK
  BY <1>1 DEF PassInit, PassTypeOK, Errors
<1> QED BY <1>1, <1>2
      DEF PassInit, PassInv, SnapshotIsCurrent, ProgramIsVerified, ArtifactIsSnapshot,
          OnlyBrokenPassesFail

\* After a step that proceeds with full evidence the snapshot is that evidence.
LEMMA ProceedKeeps ==
    ASSUME PassInv, errors = "none", stages # <<>>, NEW e \in Evidence, Full(e),
           Proceed(e), verified' = {e},
           state' \in SUBSET Evidence, ProgramIsVerified'
    PROVE  PassInv'
<1>1. stages' \in Seq(Stages) /\ (Len(stages) = 1 => stages' = <<>>)
  BY DEF PassInv, PassTypeOK, Proceed
<1>2. PassTypeOK'
  BY <1>1 DEF PassInv, PassTypeOK, Proceed
<1>3. Full(evidence)'
  BY DEF Proceed, Full, CertificatesHold, FunctionHolds
<1> QED BY <1>1, <1>2, <1>3
      DEF PassInv, Proceed, SnapshotIsCurrent, ArtifactIsSnapshot, OnlyBrokenPassesFail

\* A step that stops leaves no artifact.
LEMMA StopKeeps ==
    ASSUME PassInv, errors = "none", stages # <<>>, NEW e \in Evidence,
           NEW why \in Errors \ {"none", "mismatch"},
           why = "evidence" => ~Full(e) /\ Head(stages) \notin Frontiers,
           StopWith(why, e),
           state' \in SUBSET Evidence, ProgramIsVerified'
    PROVE  PassInv'
<1>1. PassTypeOK'
  BY DEF PassInv, PassTypeOK, StopWith
<1>2. errors' = "evidence" => ~Full(evidence)'
  BY DEF StopWith, Full, CertificatesHold, FunctionHolds
<1> QED BY <1>1, <1>2
      DEF PassInv, StopWith, SnapshotIsCurrent, ArtifactIsSnapshot, OnlyBrokenPassesFail,
          PassTypeOK

\* Recording a pass keeps the invariant if the pass kept the records, or comes
\* with evidence that holds in full.
LEMMA RecordKeeps ==
    ASSUME PassInv, errors = "none", stages # <<>>, Head(stages) # "input",
           NEW e \in Evidence, NEW changed \in BOOLEAN,
           \/ evidence.removed \subseteq e.removed /\ Head(stages) \notin Frontiers
           \/ Full(e),
           Record(e, changed),
           state' \in SUBSET Evidence, ProgramIsVerified'
    PROVE  PassInv'
<1>1. verified = {evidence} /\ Full(evidence)
  BY DEF PassInv, SnapshotIsCurrent
<1>2. CASE Reusable(e, changed) /\ Proceed(e) /\ UNCHANGED verified
  <2>1. verified = {e} /\ e = evidence
    BY <1>1, <1>2 DEF Reusable
  <2> QED BY <1>1, <1>2, <2>1, ProceedKeeps
<1>3. CASE Verdict(e) /\ Proceed(e) /\ verified' = {e}
  <2>1. Full(e)
    BY <1>1, <1>3, VerdictIsFull
  <2> QED BY <1>3, <2>1, ProceedKeeps
<1>4. CASE ~Verdict(e) /\ StopWith("evidence", e)
  <2>1. ~Full(e) /\ Head(stages) \notin Frontiers
    BY <1>4, FullIsAccepted
  <2> QED BY <1>4, <2>1, StopKeeps DEF Errors
<1> QED BY <1>2, <1>3, <1>4 DEF Record

-----------------------------------------------------------------------------

\* What the state of a stage says about its name.
LEMMA AtStage ==
    ASSUME PassInv, NEW names, At(names)
    PROVE  /\ errors = "none" /\ stages # <<>> /\ Head(stages) \in names
           /\ "input" \notin names => verified = {evidence} /\ Full(evidence)
BY DEF At, PassInv, SnapshotIsCurrent

\* No two kinds of stages overlap.
LEMMA KindsAreDisjoint ==
    /\ "input" \notin Rewriting \cup PreGuard \cup Fallible \cup Analyses \cup Eliminations
                        \cup Frontiers
    /\ (Rewriting \cup PreGuard \cup Fallible \cup Analyses \cup Eliminations) \cap Frontiers = {}
    /\ {"input", "specialization-frontier", "frontiers", "profile-sites"} \cap Frontiers = {}
BY DEF Rewriting, PreGuard, Fallible, Analyses, Eliminations, Frontiers

\* The state of the frontiers stays while it is not mentioned.
LEMMA StateStays ==
    ASSUME PassInv, UNCHANGED state
    PROVE  state' \in SUBSET Evidence /\ ProgramIsVerified'
BY DEF PassInv, PassTypeOK, ProgramIsVerified, Full, CertificatesHold, FunctionHolds

\* A pass changes neither certificates nor records.
LEMMA RewrittenKeepsRecords ==
    ASSUME PassInv, NEW e \in Rewritten
    PROVE  e \in Evidence /\ e.removed = evidence.removed
<1>1. PICK body \in [KirFunctions -> Body], facts \in BOOLEAN :
          e = [body |-> body, facts |-> facts,
               proofs |-> evidence.proofs, removed |-> evidence.removed]
  BY DEF Rewritten
<1>2. evidence \in Evidence
  BY DEF PassInv, PassTypeOK
<1> QED BY <1>1, <1>2 DEF Evidence

LEMMA InputKeeps == ASSUME PassInv, Input PROVE PassInv'
<1>1. errors = "none" /\ stages # <<>> /\ Head(stages) = "input"
  BY AtStage DEF Input
<1>2. state' \in SUBSET Evidence /\ ProgramIsVerified'
  BY StateStays DEF Input
<1>3. evidence \in Evidence
  BY DEF PassInv, PassTypeOK
<1>4. CASE Full(evidence) /\ Proceed(evidence) /\ verified' = {evidence}
  BY <1>1, <1>2, <1>3, <1>4, ProceedKeeps
<1>5. CASE ~Full(evidence) /\ StopWith("evidence", evidence)
  BY <1>1, <1>2, <1>3, <1>5, KindsAreDisjoint, StopKeeps DEF Errors
<1> QED BY <1>4, <1>5 DEF Input

LEMMA RewriteKeeps == ASSUME PassInv, Rewrite PROVE PassInv'
<1>1. At(Rewriting) /\ state' \in SUBSET Evidence /\ ProgramIsVerified'
  BY StateStays DEF Rewrite
<1>2. /\ errors = "none" /\ stages # <<>>
      /\ Head(stages) # "input" /\ Head(stages) \notin Frontiers
  BY <1>1, AtStage, KindsAreDisjoint
<1>3. PICK e \in Rewritten, changed \in BOOLEAN : Record(e, changed)
  BY DEF Rewrite
<1>4. e \in Evidence /\ evidence.removed \subseteq e.removed
  BY RewrittenKeepsRecords
<1> QED BY <1>1, <1>2, <1>3, <1>4, RecordKeeps

LEMMA RewriteCfgKeeps == ASSUME PassInv, RewriteCfg PROVE PassInv'
<1>1. At(PreGuard) /\ state' \in SUBSET Evidence /\ ProgramIsVerified'
  BY StateStays DEF RewriteCfg
<1>2. /\ errors = "none" /\ stages # <<>>
      /\ Head(stages) # "input" /\ Head(stages) \notin Frontiers
  BY <1>1, AtStage, KindsAreDisjoint
<1>3. PICK e \in Rewritten, changed \in BOOLEAN :
          StopWith("pass", e) \/ Record(e, changed)
  BY DEF RewriteCfg
<1>4. e \in Evidence /\ evidence.removed \subseteq e.removed
  BY RewrittenKeepsRecords
<1>5. CASE StopWith("pass", e)
  BY <1>1, <1>2, <1>4, <1>5, StopKeeps DEF Errors
<1>6. CASE Record(e, changed)
  BY <1>1, <1>2, <1>4, <1>6, RecordKeeps
<1> QED BY <1>3, <1>5, <1>6

LEMMA PassFailsKeeps == ASSUME PassInv, PassFails PROVE PassInv'
<1>1. At(Fallible) /\ state' \in SUBSET Evidence /\ ProgramIsVerified'
  BY StateStays DEF PassFails
<1>2. errors = "none" /\ stages # <<>>
  BY <1>1, AtStage
<1>3. PICK e \in Rewritten : StopWith("pass", e)
  BY DEF PassFails
<1>4. e \in Evidence
  BY RewrittenKeepsRecords
<1> QED BY <1>1, <1>2, <1>3, <1>4, StopKeeps DEF Errors

LEMMA AnalyseKeeps == ASSUME PassInv, Analyse PROVE PassInv'
<1>1. At(Analyses) /\ state' \in SUBSET Evidence /\ ProgramIsVerified'
  BY StateStays DEF Analyse
<1>2. /\ errors = "none" /\ stages # <<>>
      /\ Head(stages) # "input" /\ Full(evidence)
  BY <1>1, AtStage, KindsAreDisjoint
<1>3. evidence \in Evidence /\ Record(evidence, FALSE)
  BY DEF Analyse, PassInv, PassTypeOK
<1> QED BY <1>1, <1>2, <1>3, RecordKeeps

LEMMA EliminateKeeps == ASSUME PassInv, Eliminate PROVE PassInv'
<1>1. At(Eliminations) /\ state' \in SUBSET Evidence /\ ProgramIsVerified'
  BY StateStays DEF Eliminate
<1>2. /\ errors = "none" /\ stages # <<>>
      /\ Head(stages) # "input" /\ Head(stages) \notin Frontiers
  BY <1>1, AtStage, KindsAreDisjoint
<1>3. PICK guards \in SUBSET KirFunctions : Record(Eliminated(guards), guards # {})
  BY DEF Eliminate
<1>4. Eliminated(guards) \in Evidence /\ evidence.removed \subseteq Eliminated(guards).removed
  BY DEF Eliminated, Evidence, PassInv, PassTypeOK, Body
<1> QED BY <1>1, <1>2, <1>3, <1>4, RecordKeeps

\* Whatever the transactions did to a verified program, it is one.
LEMMA SpeculatedIsFull ==
    ASSUME NEW s \in Evidence, Full(s), NEW new \in Speculated(s)
    PROVE  CopyBack(new) = new /\ new \in Evidence /\ Full(new)
BY DEF Speculated, CopyBack

\* With a current snapshot the program of the frontiers can be opened.
LEMMA OpenFailsKeeps ==
    ASSUME PassInv, errors = "none", stages # <<>>, verified = {evidence},
           OpenFails, UNCHANGED state
    PROVE  PassInv'
<1>1. StopWith("frontier", evidence)
  BY DEF OpenFails
<1>2. evidence \in Evidence
  BY DEF PassInv, PassTypeOK
<1> QED BY <1>1, <1>2, StateStays, StopKeeps DEF Errors

LEMMA SpecializeKeeps == ASSUME PassInv, Specialize PROVE PassInv'
<1>1. /\ At({"specialization-frontier"}) /\ UNCHANGED state
      /\ state' \in SUBSET Evidence /\ ProgramIsVerified'
  BY StateStays DEF Specialize
<1>2. /\ errors = "none" /\ stages # <<>> /\ Head(stages) # "input"
      /\ verified = {evidence} /\ Full(evidence)
  BY <1>1, AtStage
<1>3. evidence \in Evidence
  BY DEF PassInv, PassTypeOK
<1>4. CASE Record(evidence, FALSE)
  BY <1>1, <1>2, <1>3, <1>4, RecordKeeps
<1>5. CASE OpenFails
  BY <1>1, <1>2, <1>5, OpenFailsKeeps
<1>6. CASE \E s \in Speculated(evidence), changed \in BOOLEAN : Record(CopyBack(s), changed)
  <2>1. PICK s \in Speculated(evidence), changed \in BOOLEAN : Record(CopyBack(s), changed)
    BY <1>6
  <2>2. CopyBack(s) = s /\ s \in Evidence /\ Full(s)
    BY <1>2, <1>3, SpeculatedIsFull
  <2> QED BY <1>1, <1>2, <2>1, <2>2, RecordKeeps
<1> QED BY <1>4, <1>5, <1>6 DEF Specialize

LEMMA PlanFrontiersKeeps == ASSUME PassInv, PlanFrontiers PROVE PassInv'
<1>1. /\ errors = "none" /\ stages # <<>> /\ verified = {evidence} /\ Full(evidence)
      /\ Head(stages) = "frontiers"
  BY AtStage DEF PlanFrontiers
<1>2. evidence \in Evidence /\ stages \in Seq(Stages) /\ artifact = FALSE
  BY <1>1 DEF PassInv, PassTypeOK, ArtifactIsSnapshot
<1>3. CASE OpenFails /\ UNCHANGED state
  BY <1>1, <1>3, OpenFailsKeeps
<1>4. ASSUME NEW plan \in {NoOps} \cup FrontierPlans, stages' = plan \o Tail(stages),
             state' \in {state, {evidence}},
             UNCHANGED <<evidence, errors, verified, artifact>>
      PROVE  PassInv'
  <2>1. stages' \in Seq(Stages)
    <3>1. plan \in Seq(Stages) /\ Tail(stages) \in Seq(Stages)
      BY <1>1, <1>2, PlansAreSequences
    <3> QED BY <1>4, <3>1
  <2>2. PassTypeOK'
    BY <1>2, <1>4, <2>1 DEF PassInv, PassTypeOK
  <2>3. Full(evidence)'
    BY <1>1, <1>4 DEF Full, CertificatesHold, FunctionHolds
  <2>4. ProgramIsVerified'
    <3>1. CASE state' = state
      BY <3>1 DEF PassInv, ProgramIsVerified, Full, CertificatesHold, FunctionHolds
    <3>2. CASE state' = {evidence}
      BY <1>1, <3>2 DEF ProgramIsVerified, Full, CertificatesHold, FunctionHolds
    <3> QED BY <1>4, <3>1, <3>2
  <2> QED BY <1>1, <1>2, <1>4, <2>2, <2>3, <2>4
        DEF PassInv, SnapshotIsCurrent, ArtifactIsSnapshot, OnlyBrokenPassesFail
<1> QED BY <1>3, <1>4 DEF PlanFrontiers

LEMMA RunFrontierKeeps == ASSUME PassInv, RunFrontier PROVE PassInv'
<1>1. At(Frontiers)
  BY DEF RunFrontier
<1>2. /\ errors = "none" /\ stages # <<>> /\ Head(stages) # "input"
  BY <1>1, AtStage, KindsAreDisjoint
<1>3. PICK s \in state :
          \/ StopWith("frontier", evidence) /\ UNCHANGED state
          \/ \E new \in Speculated(s), changed \in BOOLEAN :
                Record(CopyBack(new), changed) /\ state' = {new}
  BY DEF RunFrontier
<1>4. s \in Evidence /\ Full(s) /\ evidence \in Evidence
  BY DEF PassInv, PassTypeOK, ProgramIsVerified
<1>5. CASE StopWith("frontier", evidence) /\ UNCHANGED state
  BY <1>2, <1>4, <1>5, StateStays, StopKeeps DEF Errors
<1>6. ASSUME NEW new \in Speculated(s), NEW changed \in BOOLEAN,
             Record(CopyBack(new), changed), state' = {new}
      PROVE  PassInv'
  <2>1. CopyBack(new) = new /\ new \in Evidence /\ Full(new)
    BY <1>4, SpeculatedIsFull
  <2>2. state' \in SUBSET Evidence /\ ProgramIsVerified'
    BY <1>6, <2>1 DEF ProgramIsVerified, Full, CertificatesHold, FunctionHolds
  <2> QED BY <1>2, <1>6, <2>1, <2>2, RecordKeeps
<1> QED BY <1>3, <1>5, <1>6

LEMMA PrepareProfileKeeps == ASSUME PassInv, PrepareProfile PROVE PassInv'
<1>1. errors = "none" /\ stages # <<>>
  BY AtStage DEF PrepareProfile
<1>2. state' \in SUBSET Evidence /\ ProgramIsVerified'
  BY StateStays DEF PrepareProfile
<1>3. evidence \in Evidence
  BY DEF PassInv, PassTypeOK
<1>4. CASE StopWith("profile", evidence)
  BY <1>1, <1>2, <1>3, <1>4, StopKeeps DEF Errors
<1>5. CASE RawValid(evidence) /\ Proceed(Instrumented) /\ verified' = {Instrumented}
  <2>1. Instrumented \in Evidence
    BY <1>3 DEF Instrumented, Evidence
  <2>2. /\ Instrumented.facts = TRUE /\ Instrumented.proofs = {}
        /\ Instrumented.removed = {} /\ Instrumented.body = evidence.body
    BY <1>3 DEF Instrumented, Evidence
  <2>3. Full(Instrumented)
    BY <1>3, <1>5, <2>2
       DEF RawValid, Full, CertificatesHold, FunctionHolds, Evidence, Unguarded
  <2> QED BY <1>1, <1>2, <1>5, <2>1, <2>3, ProceedKeeps
<1> QED BY <1>4, <1>5 DEF PrepareProfile

-----------------------------------------------------------------------------

\* The invariant is inductive.
LEMMA PassInvStep == PassInv /\ [PassNext]_passVars => PassInv'
<1> SUFFICES ASSUME PassInv, [PassNext]_passVars PROVE PassInv'
  OBVIOUS
<1>1. CASE UNCHANGED passVars
  BY <1>1 DEF passVars, PassInv, PassTypeOK, SnapshotIsCurrent, ProgramIsVerified,
              ArtifactIsSnapshot, OnlyBrokenPassesFail, Full, CertificatesHold, FunctionHolds
<1>2. CASE PassNext
  BY <1>2, InputKeeps, RewriteKeeps, RewriteCfgKeeps, PassFailsKeeps, AnalyseKeeps,
     EliminateKeeps, SpecializeKeeps, PlanFrontiersKeeps, RunFrontierKeeps,
     PrepareProfileKeeps DEF PassNext
<1> QED BY <1>1, <1>2

\* The invariant holds whatever the passes make of the module.
THEOREM PassInvariant == PassSpec => []PassInv
BY InitEstablishes, PassInvStep, PTL DEF PassSpec

\* It implies both properties of the pass manager.
LEMMA PassInvSafe == PassInv => ArtifactIsVerified /\ OnlyBrokenPassesFail
<1>1. ASSUME PassInv, artifact PROVE ArtifactIsVerified
  <2>1. errors = "none" /\ verified = {evidence} /\ Full(evidence)
    BY <1>1 DEF PassInv, ArtifactIsSnapshot, SnapshotIsCurrent
  <2> QED BY <2>1, FullIsSafe DEF ArtifactIsVerified
<1> QED BY <1>1 DEF PassInv, ArtifactIsVerified

\* An artifact of the pass manager is valid KIR under facts that hold, without a
\* guard missing from an unsafe check, and is the snapshot it is compared with
\* (run_kir_pass_pipeline_with_profile, verified_artifact_and_contracts).
THEOREM ArtifactIsVerifiedHolds == PassSpec => []ArtifactIsVerified
BY PassInvSafe, PassInvariant, PTL

\* The pass manager gives up only over evidence that does not hold, and the
\* snapshot always matches when the frontiers open the program
\* (record_verified_pass, verified_program_state_from_pass_cache).
THEOREM OnlyBrokenPassesFailHolds == PassSpec => []OnlyBrokenPassesFail
BY PassInvSafe, PassInvariant, PTL

-----------------------------------------------------------------------------
(* Multiversion builds.  The plan keeps of each root all candidates or      *)
(* none, since they share one charge, and all candidates are enough for the *)
(* best tier everywhere; a pointer in a slot is one the processor supports. *)

\* Nothing of a root is kept before its turn.
NotYet == \A r \in 1 .. Roots : r > turn => retained[r] = {}

\* A root whose turn is over keeps all its candidates or none.
AllOrNone == \A r \in 1 .. Roots : r < turn => retained[r] \in {{}, Candidates(r)}

\* The root being planned: its first candidate decides for the others.
FirstDecides ==
    turn \in 1 .. Roots =>
        \/ retained[turn] \cup trials = Candidates(turn)
        \/ retained[turn] = {} /\ growth + Units[turn] > ModuleUnits

Underway == trials # {} => turn \in 1 .. Roots

PlanInv == growth <= ModuleUnits /\ Underway /\ NotYet /\ AllOrNone /\ FirstDecides

Fits(r, t) == t <= host /\ t \in retained[r] \cup {BaselineTier}

\* Nothing is called before the program runs.
Quiet ==
    ~Running => /\ \A r \in 1 .. Roots : slot[r] = ResolveEntry /\ ran[r] = {}
                /\ \A c \in Callers : caller[c].at = "idle"

SlotsFit == \A r \in 1 .. Roots : slot[r] # ResolveEntry => Fits(r, slot[r])

CallersFit ==
    \A c \in Callers :
        caller[c].at # "idle" =>
            /\ caller[c].root \in 1 .. Roots
            /\ retained[caller[c].root] # {}
            /\ caller[c].at = "publish" => Fits(caller[c].root, caller[c].tier)

CallInv == Quiet /\ SlotsFit /\ CallersFit /\ OneVariantPerRoot

-----------------------------------------------------------------------------
(* The selection. *)

\* Costs are natural numbers.
LEMMA CostType ==
    ASSUME MvTypeOK, NEW r \in 1 .. Roots, NEW t \in Tiers
    PROVE  Cost(r, t) \in Nat
<1>1. \A a, b, c \in Nat : a + 8 * b * c \in Nat
  <2> TAKE a, b, c \in Nat
  <2>1. 8 * b \in Nat
    OBVIOUS
  <2>2. \A x, y \in Nat : x * y \in Nat
    BY SMTT(30)
  <2>3. (8 * b) * c \in Nat
    BY <2>1, <2>2
  <2> QED
    BY <2>3
<1>2. Units[r] \in Nat /\ Work[r] \in Nat /\ score[t] \in Nat
  BY MultiversionAssumption DEF MvTypeOK
<1> QED
  BY <1>1, <1>2 DEF Cost

\* The first member of the dispatch plan that fits is the cheapest one.
LEMMA SelectedIsCheapest ==
    ASSUME MvTypeOK, NEW r \in 1 .. Roots, NEW capability \in Tiers
    PROVE  /\ Selected(r, capability) \in Tiers
           /\ Selected(r, capability) <= capability
           /\ Selected(r, capability) \in retained[r] \cup {BaselineTier}
           /\ \A t \in retained[r] : t <= capability =>
                 /\ Selected(r, capability) # BaselineTier
                 /\ Cost(r, Selected(r, capability)) <= Cost(r, t)
<1> DEFINE usable == {t \in retained[r] : t <= capability}
           first(t) == \A s \in usable \ {t} : Faster(r, t, s)
<1>1. retained[r] \subseteq {1, 2} /\ capability \in 0 .. 2
  BY DEF MvTypeOK, Tiers, BaselineTier
<1>2. \A t \in Tiers : Cost(r, t) \in Nat
  BY CostType
<1>3. CASE usable = {}
  <2>1. Selected(r, capability) = BaselineTier
    BY <1>3 DEF Selected
  <2> QED
    BY <1>1, <1>3, <2>1 DEF BaselineTier, Tiers
<1>4. CASE usable # {}
  <2>1. usable \subseteq {1, 2}
    BY <1>1
  <2>2. \E t \in usable : first(t)
    <3>1. usable = {1} \/ usable = {2} \/ usable = {1, 2}
      BY <1>4, <2>1
    <3>2. CASE usable = {1}
      BY <3>2
    <3>3. CASE usable = {2}
      BY <3>3
    <3>4. CASE usable = {1, 2}
      <4>1. Cost(r, 1) \in Nat /\ Cost(r, 2) \in Nat
        BY <1>2 DEF Tiers
      <4>2. Faster(r, 1, 2) \/ Faster(r, 2, 1)
        BY <4>1 DEF Faster
      <4> QED
        BY <3>4, <4>2
    <3> QED
      BY <3>1, <3>2, <3>3, <3>4
  <2>3. Selected(r, capability) = CHOOSE t \in usable : first(t)
    BY <1>4 DEF Selected
  <2>4. Selected(r, capability) \in usable /\ first(Selected(r, capability))
    BY <2>2, <2>3
  <2>5. \A t \in usable : Cost(r, Selected(r, capability)) <= Cost(r, t)
    <3> TAKE t \in usable
    <3>1. t \in Tiers /\ Selected(r, capability) \in Tiers
      BY <2>1, <2>4 DEF Tiers
    <3>2. Cost(r, t) \in Nat /\ Cost(r, Selected(r, capability)) \in Nat
      BY <1>2, <3>1
    <3>3. t = Selected(r, capability) \/ Faster(r, Selected(r, capability), t)
      BY <2>4
    <3> QED
      BY <3>2, <3>3 DEF Faster
  <2> QED
    BY <2>1, <2>4, <2>5 DEF BaselineTier, Tiers
<1> QED
  BY <1>3, <1>4

\* Where all candidates are kept, the selection costs no more than any tier of
\* the processor: a tier that is no candidate is worse than the baseline or
\* than a profitable tier below it.
LEMMA CandidatesSuffice ==
    ASSUME MvTypeOK, NEW r \in 1 .. Roots, retained[r] = Candidates(r), retained[r] # {},
           NEW capability \in Tiers, NEW t \in 0 .. capability
    PROVE  Cost(r, Selected(r, capability)) <= Cost(r, t)
<1> DEFINE picked == Selected(r, capability)
<1>1. \A s \in Tiers : Cost(r, s) \in Nat
  BY CostType
<1>2. Cost(r, 0) \in Nat /\ Cost(r, 1) \in Nat /\ Cost(r, 2) \in Nat
  BY <1>1 DEF Tiers
<1>3. capability \in 0 .. 2 /\ t \in 0 .. 2 /\ t <= capability
  BY DEF Tiers
<1>4. Candidates(r) = {s \in {1, 2} : Profitable(r, s) \/ Companion(r, s)}
  BY DEF Candidates, Tiers, BaselineTier
<1>5. \A s \in retained[r] : Cost(r, s) <= Cost(r, 0)
  <2> TAKE s \in retained[r]
  <2>1. s \in {1, 2} /\ (Profitable(r, s) \/ Companion(r, s))
    BY <1>4
  <2>2. Cost(r, s) \in Nat
    BY <2>1, <1>2
  <2> QED
    BY <2>1, <2>2, <1>2 DEF Profitable, Companion, BaselineTier
<1>6. /\ picked \in Tiers /\ picked \in retained[r] \cup {0} /\ picked <= capability
      /\ \A s \in retained[r] : s <= capability =>
            picked # 0 /\ Cost(r, picked) <= Cost(r, s)
  BY SelectedIsCheapest DEF BaselineTier
<1>7. Cost(r, picked) \in Nat /\ Cost(r, picked) <= Cost(r, 0)
  BY <1>1, <1>2, <1>5, <1>6
<1>8. CASE t \in retained[r] \/ t = 0
  BY <1>3, <1>6, <1>7, <1>8
<1>9. CASE t \notin retained[r] /\ t # 0
  <2>1. t \in {1, 2} /\ ~Profitable(r, t) /\ ~Companion(r, t)
    BY <1>3, <1>4, <1>9
  <2>2. CASE t = 1
    <3>1. 2 \in retained[r]
      BY <1>4, <1>9, <2>2
    <3>2. Profitable(r, 2)
      BY <1>4, <3>1 DEF Companion, Tiers
    <3>3. Cost(r, 1) > Cost(r, 0)
      BY <1>2, <2>1, <2>2, <3>2 DEF Companion, Tiers, BaselineTier
    <3> QED
      BY <1>2, <1>7, <2>2, <3>3
  <2>3. CASE t = 2
    <3>1. 1 \in retained[r] /\ capability = 2
      BY <1>3, <1>4, <1>9, <2>3
    <3>2. Profitable(r, 1)
      BY <1>4, <2>1, <2>3, <3>1 DEF Companion, Tiers
    <3>3. Cost(r, 1) <= Cost(r, 2)
      BY <1>2, <2>1, <2>3, <3>2 DEF Profitable, BaselineTier
    <3>4. Cost(r, picked) <= Cost(r, 1)
      BY <1>6, <3>1
    <3> QED
      BY <1>2, <1>7, <2>3, <3>3, <3>4
  <2> QED
    BY <2>1, <2>2, <2>3
<1> QED
  BY <1>8, <1>9

-----------------------------------------------------------------------------
(* The invariant. *)

MvInv == MvTypeOK /\ PlanInv /\ CallInv

USE DEF planVars, hostVars, Running, Fits

\* The initial states satisfy it (multiversion.rs:150, ckc_llvm.cpp:3000).
LEMMA MvInvInit == MvInit => MvInv
<1> SUFFICES ASSUME MvInit PROVE MvInv
  OBVIOUS
<1> USE MultiversionAssumption DEF MvInit
<1>1. MvTypeOK
  BY DEF MvTypeOK, Tiers, BaselineTier, ResolveEntry, Idle
<1>2. PlanInv
  BY DEF PlanInv, Underway, NotYet, AllOrNone, FirstDecides
<1>3. Quiet /\ CallersFit
  BY DEF Quiet, CallersFit, Idle
<1>4. SlotsFit /\ OneVariantPerRoot
  BY DEF SlotsFit, OneVariantPerRoot
<1> QED
  BY <1>1, <1>2, <1>3, <1>4 DEF MvInv, CallInv

\* While nothing runs, the plan does not touch what the calls rely on.
LEMMA QuietPreserves ==
    ASSUME CallInv, turn \in 0 .. Roots, MvTypeOK, MvTypeOK', UNCHANGED hostVars
    PROVE  CallInv'
<1> USE MultiversionAssumption
<1>1. ~Running
  OBVIOUS
<1>2. /\ \A r \in 1 .. Roots : slot[r] = ResolveEntry /\ ran[r] = {}
      /\ \A c \in Callers : caller[c].at = "idle"
  BY <1>1 DEF CallInv, Quiet
<1>3. /\ \A r \in 1 .. Roots : slot'[r] = ResolveEntry /\ ran'[r] = {}
      /\ \A c \in Callers : caller'[c].at = "idle"
  BY <1>2
<1> QED
  BY <1>3 DEF CallInv, Quiet, SlotsFit, CallersFit, OneVariantPerRoot

\* Every step of the plan preserves it: one candidate after the other.
LEMMA PlanPreserves ==
    ASSUME MvInv, NextRoot \/ Consider \/ Load
    PROVE  MvInv'
<1> USE MultiversionAssumption DEF MvInv
<1>1. CASE NextRoot
  <2>1. /\ turn \in 0 .. Roots - 1 /\ turn' = turn + 1 /\ trials = {}
        /\ trials' = Candidates(turn + 1)
        /\ UNCHANGED <<score, eligible, growth, retained, host, slot, caller, ran>>
    BY <1>1 DEF NextRoot, MvTypeOK
  <2>2. MvTypeOK'
    BY <2>1 DEF MvTypeOK, Candidates
  <2>3. \A r \in 1 .. Roots : Candidates(r)' = Candidates(r)
    BY <2>1 DEF Candidates, Profitable, Companion, Cost
  <2>4. (growth <= ModuleUnits)' /\ Underway' /\ NotYet'
    BY <2>1 DEF PlanInv, Underway, NotYet
  <2>5. AllOrNone'
    <3>1. turn \in 1 .. Roots => retained[turn] \in {{}, Candidates(turn)}
      BY <2>1 DEF PlanInv, FirstDecides
    <3> QED
      BY <2>1, <2>3, <3>1 DEF PlanInv, AllOrNone
  <2>6. FirstDecides'
    <3>1. turn + 1 \in 1 .. Roots /\ retained[turn + 1] = {}
      BY <2>1 DEF PlanInv, NotYet
    <3>2. retained'[turn'] = {} /\ trials' = Candidates(turn')
      BY <2>1, <3>1
    <3> QED
      BY <2>1, <2>3, <3>1, <3>2 DEF FirstDecides
  <2>7. CallInv'
    BY <2>1, <2>2, QuietPreserves
  <2> QED
    BY <2>2, <2>4, <2>5, <2>6, <2>7 DEF PlanInv
<1>2. CASE Consider
  <2>1. PICK t \in trials :
           /\ \A s \in trials : t <= s
           /\ trials' = trials \ {t}
           /\ IF growth + GrowthCharge(turn) > ModuleUnits
              THEN UNCHANGED <<growth, retained>>
              ELSE /\ growth' = growth + GrowthCharge(turn)
                   /\ retained' = [retained EXCEPT ![turn] = @ \cup {t}]
           /\ UNCHANGED <<score, eligible, turn, host, slot, caller, ran>>
    BY <1>2 DEF Consider
  <2>2. /\ turn \in 1 .. Roots /\ t \in Tiers \ {BaselineTier}
        /\ retained \in [1 .. Roots -> SUBSET (Tiers \ {BaselineTier})]
    BY <2>1 DEF PlanInv, Underway, MvTypeOK
  <2>3. /\ GrowthCharge(turn) = IF retained[turn] = {} THEN Units[turn] ELSE 0
        /\ GrowthCharge(turn) \in Nat /\ Units[turn] \in Nat /\ growth \in Nat
    BY <2>2 DEF GrowthCharge, MvTypeOK
  <2>4. \A r \in 1 .. Roots : Candidates(r)' = Candidates(r)
    BY <2>1 DEF Candidates, Profitable, Companion, Cost
  <2>5. CASE growth + GrowthCharge(turn) > ModuleUnits
    <3>1. UNCHANGED <<growth, retained>>
      BY <2>1, <2>5
    <3>2. MvTypeOK'
      BY <2>1, <3>1 DEF MvTypeOK
    <3>3. retained[turn] = {} /\ growth + Units[turn] > ModuleUnits
      BY <2>3, <2>5 DEF PlanInv
    <3>4. PlanInv'
      BY <2>1, <2>2, <2>4, <3>1, <3>3 DEF PlanInv, Underway, NotYet, AllOrNone, FirstDecides
    <3> QED
      BY <2>1, <2>2, <3>2, <3>4, QuietPreserves
  <2>6. CASE ~(growth + GrowthCharge(turn) > ModuleUnits)
    <3>1. /\ growth' = growth + GrowthCharge(turn)
          /\ retained' = [retained EXCEPT ![turn] = @ \cup {t}]
      BY <2>1, <2>6
    <3>2. MvTypeOK'
      BY <2>1, <2>2, <2>3, <3>1 DEF MvTypeOK
    <3>3. growth' <= ModuleUnits
      BY <2>3, <2>6, <3>1
    <3>4. retained[turn] \cup trials = Candidates(turn)
      BY <2>2, <2>3, <2>6 DEF PlanInv, FirstDecides
    <3>5. retained'[turn] \cup trials' = Candidates(turn)
      BY <2>1, <2>2, <3>1, <3>4
    <3>6. FirstDecides'
      BY <2>1, <2>2, <2>4, <3>5 DEF FirstDecides
    <3>7. Underway' /\ NotYet' /\ AllOrNone'
      BY <2>1, <2>2, <2>4, <3>1 DEF PlanInv, Underway, NotYet, AllOrNone
    <3> QED
      BY <2>1, <2>2, <3>2, <3>3, <3>6, <3>7, QuietPreserves DEF PlanInv
  <2> QED
    BY <2>5, <2>6
<1>3. CASE Load
  <2>1. /\ turn = Roots /\ turn' = Roots + 1 /\ trials = {}
        /\ UNCHANGED <<score, eligible, trials, growth, retained, host, slot, caller, ran>>
    BY <1>3 DEF Load
  <2>2. MvTypeOK'
    BY <2>1 DEF MvTypeOK
  <2>3. \A r \in 1 .. Roots : Candidates(r)' = Candidates(r)
    BY <2>1 DEF Candidates, Profitable, Companion, Cost
  <2>4. turn \in 1 .. Roots => retained[turn] \in {{}, Candidates(turn)}
    BY <2>1 DEF PlanInv, FirstDecides
  <2>5. PlanInv'
    BY <2>1, <2>3, <2>4 DEF PlanInv, Underway, NotYet, AllOrNone, FirstDecides
  <2> QED
    BY <2>1, <2>2, <2>5, QuietPreserves
<1> QED
  BY <1>1, <1>2, <1>3

\* The plan is untouched by a call.
LEMMA PlanStays ==
    ASSUME PlanInv, UNCHANGED planVars
    PROVE  PlanInv'
<1>1. \A r \in 1 .. Roots : Candidates(r)' = Candidates(r)
  BY DEF Candidates, Profitable, Companion, Cost
<1> QED
  BY <1>1 DEF PlanInv, Underway, NotYet, AllOrNone, FirstDecides

\* A thread that runs a variant the pointer names leaves the rest as it was.
LEMMA RunPreserves ==
    ASSUME MvInv, Running, NEW c \in Callers, NEW r \in 1 .. Roots, NEW t \in Tiers,
           Run(c, r, t), UNCHANGED <<planVars, host>>,
           slot' \in [1 .. Roots -> Tiers \cup {ResolveEntry}],
           t = Pointer(r)', Fits(r, t),
           \A q \in 1 .. Roots : slot[q] # ResolveEntry => slot'[q] = slot[q],
           \A q \in 1 .. Roots : slot'[q] # ResolveEntry => Fits(q, slot'[q])
    PROVE  MvInv'
<1> USE DEF MvInv
<1>1. MvTypeOK'
  <2>1. Idle \in [at : {"idle", "detect", "publish"}, root : 0 .. Roots, tier : Tiers]
    BY MultiversionAssumption DEF Idle, BaselineTier, Tiers
  <2>2. caller' \in [Callers -> [at : {"idle", "detect", "publish"}, root : 0 .. Roots, tier : Tiers]]
    BY <2>1 DEF MvTypeOK, Run
  <2>3. ran' \in [1 .. Roots -> SUBSET Tiers]
    BY DEF MvTypeOK, Run
  <2> QED
    BY <2>2, <2>3 DEF MvTypeOK
<1>2. Quiet' /\ SlotsFit'
  BY DEF Quiet, SlotsFit
<1>3. CallersFit'
  BY DEF MvTypeOK, CallInv, CallersFit, Run, Idle
<1>4. OneVariantPerRoot'
  <2> SUFFICES ASSUME NEW q \in 1 .. Roots, NEW s \in ran'[q]
               PROVE  s = Pointer(q)' /\ Fits(q, s)
    BY DEF OneVariantPerRoot
  <2>1. CASE q = r /\ s = t
    BY <2>1
  <2>2. CASE s \in ran[q]
    <3>1. s = Pointer(q) /\ Fits(q, s) /\ s \in Tiers
      BY <2>2 DEF CallInv, OneVariantPerRoot, MvTypeOK
    <3>2. Pointer(q) # ResolveEntry
      BY <3>1 DEF Tiers, ResolveEntry
    <3> QED
      BY <3>1, <3>2 DEF Pointer
  <2> QED
    BY <2>1, <2>2 DEF MvTypeOK, Run
<1> QED
  BY <1>1, <1>2, <1>3, <1>4, PlanStays DEF CallInv

\* Every step of a call preserves it: load, detection, compare-exchange.
LEMMA CallPreserves ==
    ASSUME MvInv, NEW c \in Callers, CallStep(c)
    PROVE  MvInv'
<1> USE DEF MvInv
<1>1. ASSUME NEW r \in 1 .. Roots, Call(c, r) PROVE MvInv'
  <2>1. Running /\ caller[c].at = "idle" /\ UNCHANGED <<planVars, host, slot>>
    BY <1>1 DEF Call
  <2>2. CASE Pointer(r) = ResolveEntry
    <3>1. /\ caller' = [caller EXCEPT ![c] = [at |-> "detect", root |-> r, tier |-> BaselineTier]]
          /\ UNCHANGED ran
      BY <1>1, <2>2 DEF Call
    <3>2. retained[r] # {}
      BY <2>2 DEF Pointer, BaselineTier, ResolveEntry
    <3>3. MvTypeOK'
      BY <2>1, <3>1 DEF MvTypeOK, BaselineTier, Tiers
    <3>4. CallersFit'
      BY <2>1, <3>1, <3>2 DEF CallInv, CallersFit, MvTypeOK
    <3>5. Quiet' /\ SlotsFit' /\ OneVariantPerRoot'
      BY <2>1, <3>1 DEF CallInv, Quiet, SlotsFit, OneVariantPerRoot, Pointer
    <3> QED
      BY <2>1, <3>3, <3>4, <3>5, PlanStays DEF CallInv
  <2>3. CASE Pointer(r) # ResolveEntry
    <3>1. Run(c, r, Pointer(r))
      BY <1>1, <2>3 DEF Call
    <3>2. Pointer(r) \in Tiers /\ Fits(r, Pointer(r))
      BY <2>3 DEF Pointer, CallInv, SlotsFit, MvTypeOK, Tiers, BaselineTier
    <3>3. Pointer(r)' = Pointer(r)
      BY <2>1 DEF Pointer
    <3>4. /\ slot' \in [1 .. Roots -> Tiers \cup {ResolveEntry}]
          /\ \A q \in 1 .. Roots : slot'[q] = slot[q]
          /\ \A q \in 1 .. Roots : slot[q] # ResolveEntry => Fits(q, slot[q])
      BY <2>1 DEF MvTypeOK, CallInv, SlotsFit
    <3> QED
      BY <2>1, <3>1, <3>2, <3>3, <3>4, RunPreserves
  <2> QED
    BY <2>2, <2>3
<1>2. CASE Detect(c)
  <2>1. PICK capability \in {BaselineTier, host} :
           caller' = [caller EXCEPT ![c] = [at |-> "publish", root |-> caller[c].root,
                                            tier |-> Selected(caller[c].root, capability)]]
    BY <1>2 DEF Detect
  <2>2. caller[c].at = "detect" /\ UNCHANGED <<planVars, host, slot, ran>>
    BY <1>2 DEF Detect
  <2>3. capability \in Tiers /\ capability <= host
    BY <2>1 DEF MvTypeOK, Tiers, BaselineTier
  <2>4. caller[c].root \in 1 .. Roots /\ retained[caller[c].root] # {}
    BY <2>2 DEF CallInv, CallersFit
  <2> DEFINE picked == Selected(caller[c].root, capability)
  <2>5. picked \in Tiers /\ Fits(caller[c].root, picked)
    <3>1. picked \in Tiers /\ picked <= capability /\ picked \in retained[caller[c].root] \cup {BaselineTier}
      BY <2>3, <2>4, SelectedIsCheapest
    <3> QED
      BY <2>3, <3>1 DEF MvTypeOK, Tiers
  <2>6. caller' = [caller EXCEPT ![c] = [at |-> "publish", root |-> caller[c].root,
                                         tier |-> picked]]
    BY <2>1
  <2> HIDE DEF picked
  <2>7. MvTypeOK'
    BY <2>2, <2>5, <2>6 DEF MvTypeOK
  <2>8. CallersFit'
    BY <2>2, <2>4, <2>5, <2>6 DEF CallInv, CallersFit, MvTypeOK
  <2>9. Quiet' /\ SlotsFit' /\ OneVariantPerRoot'
    BY <2>2, <2>6 DEF CallInv, Quiet, SlotsFit, OneVariantPerRoot, Pointer
  <2> QED
    BY <2>2, <2>7, <2>8, <2>9, PlanStays DEF CallInv
<1>3. CASE Publish(c)
  <2>0. PICK r \in 1 .. Roots : r = caller[c].root
    BY <1>3 DEF Publish, CallInv, CallersFit
  <2>1. /\ caller[c].at = "publish" /\ UNCHANGED <<planVars, host>>
        /\ slot' = [slot EXCEPT ![r] = IF @ = ResolveEntry THEN caller[c].tier ELSE @]
        /\ Run(c, r, slot'[r])
    BY <1>3, <2>0 DEF Publish
  <2>2. retained[r] # {} /\ Fits(r, caller[c].tier) /\ caller[c].tier \in Tiers
    BY <2>0, <2>1 DEF CallInv, CallersFit, MvTypeOK
  <2>3. Running
    BY <2>1 DEF CallInv, Quiet
  <2>4. /\ slot' \in [1 .. Roots -> Tiers \cup {ResolveEntry}]
        /\ slot'[r] = IF slot[r] = ResolveEntry THEN caller[c].tier ELSE slot[r]
        /\ \A q \in 1 .. Roots : q # r => slot'[q] = slot[q]
    BY <2>1, <2>2 DEF MvTypeOK
  <2>5. slot'[r] \in Tiers /\ Fits(r, slot'[r]) /\ slot'[r] = Pointer(r)'
    BY <2>1, <2>2, <2>4 DEF CallInv, SlotsFit, MvTypeOK, Pointer, Tiers, ResolveEntry
  <2>6. /\ \A q \in 1 .. Roots : slot[q] # ResolveEntry => slot'[q] = slot[q]
        /\ \A q \in 1 .. Roots : slot'[q] # ResolveEntry => Fits(q, slot'[q])
    BY <2>2, <2>4, <2>5 DEF CallInv, SlotsFit
  <2> QED
    BY <2>1, <2>2, <2>3, <2>4, <2>5, <2>6, RunPreserves
<1> QED
  BY <1>1, <1>2, <1>3 DEF CallStep

\* Every step preserves the invariant.
LEMMA MvInvStep == MvInv /\ [MvNext]_mvVars => MvInv'
<1> SUFFICES ASSUME MvInv, [MvNext]_mvVars PROVE MvInv'
  OBVIOUS
<1>1. CASE UNCHANGED mvVars
  <2>1. UNCHANGED <<score, eligible, turn, trials, growth, retained, host, slot, caller, ran>>
    BY <1>1 DEF mvVars
  <2>2. MvTypeOK'
    BY <2>1 DEF MvInv, MvTypeOK
  <2>3. CallInv'
    BY <2>1 DEF MvInv, CallInv, Quiet, SlotsFit, CallersFit, OneVariantPerRoot, Pointer
  <2> QED
    BY <2>1, <2>2, <2>3, PlanStays DEF MvInv
<1> QED
  BY <1>1, PlanPreserves, CallPreserves DEF MvNext

\* Every behaviour of a plan and of the program it makes satisfies the invariant.
THEOREM MvInvariant == MvSpec => []MvInv
BY MvInvInit, MvInvStep, PTL DEF MvSpec

\* It implies both properties.
LEMMA MvInvSafe == MvInv => OneVariantPerRoot /\ BestTierForEveryHost
<1> SUFFICES ASSUME MvInv PROVE OneVariantPerRoot /\ BestTierForEveryHost
  OBVIOUS
<1>1. OneVariantPerRoot
  BY DEF MvInv, CallInv
<1>2. BestTierForEveryHost
  <2> SUFFICES ASSUME NEW r \in 1 .. Roots, Planned(r), retained[r] # {},
                      NEW capability \in Tiers, NEW t \in 0 .. capability
               PROVE  Cost(r, Selected(r, capability)) <= Cost(r, t)
    BY DEF BestTierForEveryHost
  <2>1. retained[r] = Candidates(r)
    BY DEF MvInv, PlanInv, AllOrNone, FirstDecides, Planned
  <2> QED
    BY <2>1, CandidatesSuffice DEF MvInv
<1> QED
  BY <1>1, <1>2

\* For any number of threads and any detection that may fail, the calls of a
\* root run one variant, and one the processor supports (ckc_llvm.cpp:3022).
THEOREM OneVariantHolds == MvSpec => []OneVariantPerRoot
BY MvInvSafe, MvInvariant, PTL

\* For any costs and any budget, no processor is abandoned by what a root
\* keeps (multiversion.rs:285, :337).
THEOREM BestTierHolds == MvSpec => []BestTierForEveryHost
BY MvInvSafe, MvInvariant, PTL
=============================================================================
