---------------------------- MODULE Multiversion ----------------------------
(***************************************************************************)
(* `ckc build --cpu multiversion`: which variants of which roots are kept   *)
(* (optimizer/multiversion.rs), and how the calls of a program that loads   *)
(* the result find theirs (native/bridge/ckc_llvm.cpp,                      *)
(* native/dispatch_runtime/dispatch_runtime.c).                             *)
(*                                                                         *)
(* A platform has a baseline and two enhanced tiers, x86-64 v3 and v4 or    *)
(* SVE and SVE2, the features of each contained in those of the next, so    *)
(* that a tier is its rank, and so is what a processor can do.  The limit   *)
(* of two enhanced variants a root is then never reached.  The clones of a  *)
(* root differ in profile and names only: they share one growth charge.     *)
(* A platform without enhanced tiers keeps the baseline of every root.  The *)
(* cores of a processor are taken to be alike, and costs not to saturate.   *)
(***************************************************************************)
EXTENDS Naturals

CONSTANTS
    Roots,       \* how many exported functions, in the order of their ids
    Units,       \* the KIR units of what each one reaches
    Work,        \* its target dependent work
    ModuleUnits, \* the units of the module, and the growth it may have
    Scores,      \* vector cost scores
    Callers      \* threads of the program

ASSUME MultiversionAssumption ==
    /\ Roots \in Nat /\ ModuleUnits \in Nat /\ Scores \subseteq Nat
    /\ Units \in [1 .. Roots -> Nat] /\ Work \in [1 .. Roots -> Nat]

BaselineTier == 0
Tiers == 0 .. 2
ResolveEntry == 3 \* the first content of a slot

VARIABLES
    score,    \* the vector cost score of each tier
    eligible, \* the roots that are not recursive, and hot if there is a profile
    turn,     \* the root being planned; one more than Roots: the program runs
    trials,   \* its candidates not yet considered
    growth,   \* units charged so far
    retained, \* the enhanced tiers each root keeps
    host,     \* what the processor of the program supports
    slot,     \* the pointer of each root
    caller,   \* where each thread is
    ran       \* the tiers that ran for each root

planVars == <<score, eligible, turn, trials, growth, retained>>
hostVars == <<host, slot, caller, ran>>
mvVars == <<planVars, hostVars>>

Idle == [at |-> "idle", root |-> 0, tier |-> BaselineTier]

MvInit ==
    /\ score \in [Tiers -> Scores] /\ eligible \in SUBSET (1 .. Roots)
    /\ turn = 0 /\ trials = {} /\ growth = 0
    /\ retained = [r \in 1 .. Roots |-> {}]
    /\ host \in Tiers
    /\ slot = [r \in 1 .. Roots |-> ResolveEntry]
    /\ caller = [c \in Callers |-> Idle]
    /\ ran = [r \in 1 .. Roots |-> {}]

-----------------------------------------------------------------------------
(* The plan. *)

Cost(r, t) == Units[r] + 8 * Work[r] * score[t]

\* At least two units and ten per cent.
Profitable(r, t) ==
    /\ Cost(r, t) + 2 <= Cost(r, BaselineTier)
    /\ 10 * Cost(r, t) <= 9 * Cost(r, BaselineTier)

\* Mutant: every tier must pay for itself.
CompanionNever(r, t) == FALSE

\* A tier no worse than the baseline goes with a profitable one above it.
Companion(r, t) ==
    /\ Cost(r, t) <= Cost(r, BaselineTier)
    /\ \E s \in Tiers : t < s /\ Profitable(r, s)

Candidates(r) ==
    IF r \in eligible /\ Work[r] # 0
    THEN {t \in Tiers \ {BaselineTier} : Profitable(r, t) \/ Companion(r, t)}
    ELSE {}

NextRoot ==
    /\ turn < Roots /\ trials = {}
    /\ turn' = turn + 1
    /\ trials' = Candidates(turn + 1)
    /\ UNCHANGED <<score, eligible, growth, retained, hostVars>>

\* The body of an accepted variant of the root is not charged again.
GrowthCharge(r) == IF retained[r] = {} THEN Units[r] ELSE 0

\* Candidates come in the order of their features, the widest coverage first.
Consider ==
    \E t \in trials :
        /\ \A s \in trials : t <= s
        /\ trials' = trials \ {t}
        /\ IF growth + GrowthCharge(turn) > ModuleUnits
           THEN UNCHANGED <<growth, retained>>
           ELSE /\ growth' = growth + GrowthCharge(turn)
                /\ retained' = [retained EXCEPT ![turn] = @ \cup {t}]
        /\ UNCHANGED <<score, eligible, turn, hostVars>>

\* The objects are emitted and linked, and the program starts.
Load ==
    /\ turn = Roots /\ trials = {}
    /\ turn' = Roots + 1
    /\ UNCHANGED <<score, eligible, trials, growth, retained, hostVars>>

-----------------------------------------------------------------------------
(* The calls. *)

\* The dispatch plan ranks by cost, then by features.
Faster(r, s, t) == Cost(r, s) < Cost(r, t) \/ (Cost(r, s) = Cost(r, t) /\ s < t)

\* The first of the plan the capabilities cover, or the baseline after them.
Selected(r, capability) ==
    LET usable == {t \in retained[r] : t <= capability}
    IN  IF usable = {} THEN BaselineTier
        ELSE CHOOSE t \in usable : \A s \in usable \ {t} : Faster(r, t, s)

\* A root without variants gets no dispatcher: its thunk calls the baseline.
Pointer(r) == IF retained[r] = {} THEN BaselineTier ELSE slot[r]

Running == turn = Roots + 1

Run(c, r, t) ==
    /\ ran' = [ran EXCEPT ![r] = @ \cup {t}]
    /\ caller' = [caller EXCEPT ![c] = Idle]

\* The dispatcher loads the pointer and jumps, to the resolver at first.
Call(c, r) ==
    /\ Running /\ caller[c].at = "idle"
    /\ IF Pointer(r) = ResolveEntry
       THEN /\ caller' = [caller EXCEPT ![c] = [at |-> "detect", root |-> r, tier |-> BaselineTier]]
            /\ UNCHANGED ran
       ELSE Run(c, r, Pointer(r))
    /\ UNCHANGED <<planVars, host, slot>>

\* Where the auxiliary vector cannot be read, a detection finds the baseline.
Detect(c) ==
    /\ caller[c].at = "detect"
    /\ \E capability \in {BaselineTier, host} :
          caller' = [caller EXCEPT ![c] = [at |-> "publish", root |-> @.root,
                                           tier |-> Selected(@.root, capability)]]
    /\ UNCHANGED <<planVars, host, slot, ran>>

\* Mutant: a caller that lost the race runs what it selected itself.
PublishOwn(c) ==
    LET r == caller[c].root IN
    /\ caller[c].at = "publish"
    /\ slot' = [slot EXCEPT ![r] = IF @ = ResolveEntry THEN caller[c].tier ELSE @]
    /\ Run(c, r, caller[c].tier)
    /\ UNCHANGED <<planVars, host>>

\* One compare-exchange: the winner's pointer stays, a loser jumps to it.
Publish(c) ==
    LET r == caller[c].root IN
    /\ caller[c].at = "publish"
    /\ slot' = [slot EXCEPT ![r] = IF @ = ResolveEntry THEN caller[c].tier ELSE @]
    /\ Run(c, r, slot'[r])
    /\ UNCHANGED <<planVars, host>>

CallStep(c) == Detect(c) \/ Publish(c) \/ \E r \in 1 .. Roots : Call(c, r)

MvNext == NextRoot \/ Consider \/ Load \/ \E c \in Callers : CallStep(c)

MvSpec == MvInit /\ [][MvNext]_mvVars

-----------------------------------------------------------------------------
(* Properties. *)

MvTypeOK ==
    /\ score \in [Tiers -> Scores] /\ eligible \subseteq 1 .. Roots
    /\ turn \in 0 .. Roots + 1 /\ trials \subseteq Tiers \ {BaselineTier}
    /\ growth \in Nat
    /\ retained \in [1 .. Roots -> SUBSET (Tiers \ {BaselineTier})]
    /\ host \in Tiers
    /\ slot \in [1 .. Roots -> Tiers \cup {ResolveEntry}]
    /\ caller \in [Callers -> [at : {"idle", "detect", "publish"},
                               root : 0 .. Roots, tier : Tiers]]
    /\ ran \in [1 .. Roots -> SUBSET Tiers]

\* Whatever the first calls of a root detect and however they race, all its
\* calls run one variant, which the plan has and the processor supports, and
\* once one has run the pointer is there: later calls never detect.
OneVariantPerRoot ==
    \A r \in 1 .. Roots : \A t \in ran[r] :
        /\ t = Pointer(r)
        /\ t <= host
        /\ t \in retained[r] \cup {BaselineTier}

Planned(r) == r < turn \/ (r = turn /\ trials = {})

\* A root that keeps a variant serves every processor with the best of all the
\* tiers it supports, the ones the plan left out included: neither budget nor
\* profitability nor the two rankings abandon a processor of the lower tier.
BestTierForEveryHost ==
    \A r \in 1 .. Roots :
        Planned(r) /\ retained[r] # {} =>
            \A capability \in Tiers : \A t \in 0 .. capability :
                Cost(r, Selected(r, capability)) <= Cost(r, t)
=============================================================================
