---------------------------- MODULE PassPipeline ----------------------------
(***************************************************************************)
(* The KIR pass manager (optimizer/kir_pipeline.rs): every pass rewrites    *)
(* the module and is not trusted; after it the optimization evidence -      *)
(* facts, proof certificates, records of removed guards - is checked, from  *)
(* the snapshot of the last check on.  A verified check may be skipped when *)
(* nothing changed, a function when it is the one of the snapshot.          *)
(*                                                                         *)
(* A function is what validation tells apart; a function has one check.     *)
(***************************************************************************)
EXTENDS Naturals, Sequences

CONSTANT KirFunctions

\* "broken": not valid KIR.  "plain": no check.  A check is guarded, its safety
\* unproved ("guarded") or provable ("provable"), or the guard was removed and
\* the check can ("bare") or cannot ("unsafe") be proved safe.
Body == {"broken", "plain", "guarded", "provable", "bare", "unsafe"}
Provable == {"provable", "bare"}
Unguarded == {"bare", "unsafe"}

\* A module with its contract facts (do they all hold?), the checks with a
\* safety certificate and those recorded as eliminated on the strength of it.
Evidence == [body : [KirFunctions -> Body], facts : BOOLEAN,
             proofs : SUBSET KirFunctions, removed : SUBSET KirFunctions]

VARIABLES stages,   \* what is still to run; a failed stage stays at its head
          evidence, \* the module and the evidence of the result
          verified, \* verification_cache: at most one Evidence
          state,    \* the verified program of the frontiers: at most one
          errors,   \* why the pipeline stopped
          artifact  \* result.artifact is there

passVars == <<stages, evidence, verified, state, errors, artifact>>

Errors == {"none", "evidence", "pass", "frontier", "mismatch", "profile"}

-----------------------------------------------------------------------------
(* Which passes run. *)

Entry == <<"cfg-canonicalize", "sccp-range">>
Scalar == <<"memory-ssa-refine", "gvn">>
Memory == <<"load-forwarding", "dead-store-elimination",
            "sccp-range-post-inline", "check-elimination-post-inline">>
Loops == <<"natural-loop-analysis", "loop-legality-analysis", "licm",
           "induction-simplify", "sccp-range-post-loop",
           "check-elimination-post-loop", "frontiers">>
Closing == <<"dead-code-elimination", "cleanup">>

PlanOf(level) ==
    CASE level = "O0" -> <<"input">>
      [] level = "O1" -> <<"input">> \o Entry \o <<"check-elimination">> \o Closing
      [] level = "O2" -> <<"input">> \o Entry
            \o <<"check-elimination", "effect-aware-inline">> \o Scalar \o Memory \o Closing
      [] level = "O3" -> <<"input">> \o Entry
            \o <<"loop-simplify", "check-elimination", "specialization-frontier",
                 "effect-aware-inline">>
            \o Scalar \o <<"modular-affine-composition">> \o Memory \o Loops \o Closing

\* A profile-generation build: the O1 artifact is instrumented and verified.
ProfilePlan == PlanOf("O1") \o <<"profile-sites">>

Baseline == <<"wasm-invariant-load", "wasm-runtime-scalar-unroll">>
NoOps == <<"no-op", "no-op", "no-op">>
Vector == <<"loop-vector-frontier", "loop-optimization-frontier", "residual-slp-frontier">>
Peel == <<"stencil-boundary-peel">>
Unswitch == <<"normalization-unswitch">>

\* What runs on the opened program: native; WebAssembly without anything to
\* vectorize or unroll, where the vector frontiers are only recorded, and with.
FrontierPlans ==
    {Vector,
     Peel \o Baseline \o Unswitch \o NoOps,
     Peel \o Unswitch \o NoOps}
    \cup {Peel \o target \o <<"stencil-interior-normalize">> \o Unswitch
            \o <<"wasm-decision-tree-vector">> \o Vector : target \in {<<>>, Baseline}}

PreGuard == {"cfg-canonicalize", "sccp-range", "loop-simplify"}
Eliminations == {"check-elimination", "check-elimination-post-inline",
                 "check-elimination-post-loop"}
Analyses == {"natural-loop-analysis", "loop-legality-analysis", "no-op"}
Frontiers == {"stencil-boundary-peel", "wasm-invariant-load", "wasm-runtime-scalar-unroll",
              "stencil-interior-normalize", "normalization-unswitch",
              "wasm-decision-tree-vector", "loop-vector-frontier",
              "loop-optimization-frontier", "residual-slp-frontier"}
Rewriting == {"effect-aware-inline", "memory-ssa-refine", "gvn",
              "modular-affine-composition", "load-forwarding",
              "dead-store-elimination", "sccp-range-post-inline", "licm",
              "induction-simplify", "sccp-range-post-loop",
              "dead-code-elimination", "cleanup"}
Fallible == {"sccp-range", "loop-simplify", "memory-ssa-refine", "sccp-range-post-inline",
             "licm", "induction-simplify", "sccp-range-post-loop"} \cup Eliminations

Stages == {"input", "specialization-frontier", "frontiers", "profile-sites"}
    \cup PreGuard \cup Eliminations \cup Analyses \cup Frontiers \cup Rewriting

PassInit ==
    /\ stages \in {PlanOf(level) : level \in {"O0", "O1", "O2", "O3"}} \cup {ProfilePlan}
    /\ evidence \in Evidence
    /\ evidence.proofs = {} /\ evidence.removed = {}
    /\ verified = {} /\ state = {}
    /\ errors = "none"
    /\ artifact = FALSE

At(names) == errors = "none" /\ stages # <<>> /\ Head(stages) \in names

-----------------------------------------------------------------------------
(* Validation of the evidence. *)

\* A function is valid; a missing guard is authorized by a record.
FunctionHolds(e, f) ==
    e.body[f] \in Body \ ({"broken"} \cup Unguarded) \/ (e.body[f] \in Unguarded /\ f \in e.removed)

\* Facts and certificates are checked against the module, records against them.
CertificatesHold(e) ==
    /\ e.facts
    /\ \A f \in e.proofs : e.body[f] \in Provable
    /\ e.removed \subseteq e.proofs

Full(e) == CertificatesHold(e) /\ \A f \in KirFunctions : FunctionHolds(e, f)

Unchanged(e, f) == \E snapshot \in verified : snapshot.body[f] = e.body[f]

\* validate_kir_optimization_evidence_incremental: facts and certificates are
\* checked anew, functions only when they changed.
Verdict(e) ==
    CertificatesHold(e) /\ \A f \in KirFunctions : Unchanged(e, f) \/ FunctionHolds(e, f)

\* validate_kir_module alone: no guard may be missing.
RawValid(e) == \A f \in KirFunctions : e.body[f] \notin {"broken"} \cup Unguarded

\* The pipeline returns with an error and what it had.
StopWith(why, e) ==
    /\ errors' = why
    /\ evidence' = e
    /\ UNCHANGED <<stages, verified, artifact>>

Proceed(e) ==
    /\ evidence' = e
    /\ stages' = Tail(stages)
    /\ artifact' = (Len(stages) = 1)
    /\ UNCHANGED errors

\* Mutant: a pass that says it changed nothing is believed.
ReusableTrusting(e, changed) == ~changed /\ verified # {}

Reusable(e, changed) == ~changed /\ verified = {e}

\* record_verified_pass, after every pass.
Record(e, changed) ==
    \/ Reusable(e, changed) /\ Proceed(e) /\ UNCHANGED verified
    \/ ~Reusable(e, changed) /\ Verdict(e) /\ Proceed(e) /\ verified' = {e}
    \/ ~Reusable(e, changed) /\ ~Verdict(e) /\ StopWith("evidence", e)

-----------------------------------------------------------------------------
(* The passes. *)

\* The input is validated in full; O0 stops here.
Input ==
    /\ At({"input"})
    /\ \/ Full(evidence) /\ Proceed(evidence) /\ verified' = {evidence}
       \/ ~Full(evidence) /\ StopWith("evidence", evidence)
    /\ UNCHANGED state

\* A pass makes of the module what it will; certificates and records are not
\* its to write.
Rewritten ==
    {[body |-> body, facts |-> facts,
      proofs |-> evidence.proofs, removed |-> evidence.removed] :
        body \in [KirFunctions -> Body], facts \in BOOLEAN}

\* What a pass says about its change is its own claim.
Rewrite ==
    /\ At(Rewriting)
    /\ \E e \in Rewritten, changed \in BOOLEAN : Record(e, changed)
    /\ UNCHANGED state

\* Before guards are eliminated a changed control flow is validated at once and
\* facts of what is gone are dropped.
RewriteCfg ==
    /\ At(PreGuard)
    /\ \E e \in Rewritten, changed, refreshed \in BOOLEAN :
          /\ refreshed => changed
          /\ Head(stages) # "sccp-range" => refreshed = changed
          /\ IF refreshed /\ ~RawValid(e) THEN StopWith("pass", e) ELSE Record(e, changed)
    /\ UNCHANGED state

PassFails ==
    /\ At(Fallible)
    /\ \E e \in Rewritten : StopWith("pass", e)
    /\ UNCHANGED state

Analyse ==
    /\ At(Analyses)
    /\ Record(evidence, FALSE)
    /\ UNCHANGED state

\* run_check_elimination: guards whose certificate was verified are removed,
\* the certificate and the record are added.
Eliminated(guards) ==
    [body |-> [f \in KirFunctions |-> IF f \in guards THEN "bare" ELSE evidence.body[f]],
     facts |-> evidence.facts,
     proofs |-> evidence.proofs \cup guards,
     removed |-> evidence.removed \cup guards]

Eliminate ==
    /\ At(Eliminations)
    /\ \E guards \in SUBSET {f \in KirFunctions : evidence.body[f] = "provable"} :
          Record(Eliminated(guards), guards # {})
    /\ UNCHANGED state

-----------------------------------------------------------------------------
(* The speculative frontiers (O3Frontiers). *)

\* Mutant: the records of eliminated guards are not taken over.
CopyModule(s) == [s EXCEPT !.removed = evidence.removed]

\* module, facts, proofs and records are taken over from the verified program.
CopyBack(s) == s

\* What transactions make of a verified program: each is validated in full.
Speculated(s) == {s} \cup {e \in Evidence : Full(e)}

\* The program is opened from the snapshot, which must be it; it fails as well
\* when there are no identities left to hand out.
OpenFails ==
    StopWith(IF verified = {evidence} THEN "frontier" ELSE "mismatch", evidence)

\* Without candidates nothing is opened.
Specialize ==
    /\ At({"specialization-frontier"})
    /\ \/ Record(evidence, FALSE)
       \/ OpenFails
       \/ /\ verified = {evidence}
          /\ \E s \in Speculated(evidence), changed \in BOOLEAN : Record(CopyBack(s), changed)
    /\ UNCHANGED state

\* no_op_native_frontiers: what is not only recorded opens the program.
PlanFrontiers ==
    /\ At({"frontiers"})
    /\ \/ /\ stages' = NoOps \o Tail(stages)
          /\ UNCHANGED <<evidence, state, errors, verified, artifact>>
       \/ OpenFails /\ UNCHANGED state
       \/ /\ verified = {evidence}
          /\ \E plan \in FrontierPlans : stages' = plan \o Tail(stages)
          /\ state' = {evidence}
          /\ UNCHANGED <<evidence, errors, verified, artifact>>

\* One frontier on the program the last one left; a compiler error keeps the
\* module from before it.
RunFrontier ==
    /\ At(Frontiers)
    /\ \E s \in state :
          \/ StopWith("frontier", evidence) /\ UNCHANGED state
          \/ \E new \in Speculated(s), changed \in BOOLEAN :
                /\ Record(CopyBack(new), changed)
                /\ state' = {new}

-----------------------------------------------------------------------------
(* compile_profile_generation_kir. *)

\* The instrumented module has neither facts nor certificates nor records.
Instrumented == [evidence EXCEPT !.facts = TRUE, !.proofs = {}, !.removed = {}]

\* prepare_ck_profile_kir validates the module alone, so that the O0 pipeline
\* has nothing to object to.
PrepareProfile ==
    /\ At({"profile-sites"})
    /\ IF RawValid(evidence)
       THEN Proceed(Instrumented) /\ verified' = {Instrumented}
       ELSE StopWith("profile", evidence)
    /\ UNCHANGED state

PassNext ==
    \/ Input \/ Rewrite \/ RewriteCfg \/ PassFails \/ Analyse \/ Eliminate
    \/ Specialize \/ PlanFrontiers \/ RunFrontier \/ PrepareProfile

PassSpec == PassInit /\ [][PassNext]_passVars

-----------------------------------------------------------------------------
(* Properties. *)

PassTypeOK ==
    /\ stages \in Seq(Stages)
    /\ evidence \in Evidence
    /\ verified \in SUBSET Evidence /\ state \in SUBSET Evidence
    /\ errors \in Errors
    /\ artifact \in BOOLEAN

\* What passes did in between may be anything: an artifact is valid KIR under
\* facts that hold, no guard is missing from a check that is not safe, and it is
\* the snapshot verified_artifact_and_contracts compares it with.
ArtifactIsVerified ==
    artifact =>
        /\ errors = "none" /\ verified = {evidence}
        /\ evidence.facts
        /\ \A f \in KirFunctions : evidence.body[f] \notin {"broken", "unsafe"}

\* A build fails for a module that a pass broke, never because the snapshot
\* lags behind the module or a frontier's verified program was not taken over
\* whole.
OnlyBrokenPassesFail ==
    /\ errors = "evidence" => ~Full(evidence) /\ Head(stages) \notin Frontiers
    /\ errors # "mismatch"

\* "ckc build ... [--overflow <unchecked|checked>] ... [--pgo-generate ...]": the
\* verified O1 artifact of a checked program can be instrumented.
CheckedProfilesBuild == errors # "profile"
=============================================================================
