-------------------------- MODULE OptimizationAudit --------------------------
(***************************************************************************)
(* The verified transaction through which every speculative O3 transform   *)
(* (specialization, unroll, SLP, loop SIMD, ...) publishes its result, and *)
(* the audit state it writes: the per-function work budgets, the clone     *)
(* owners and the log of attempts.  src/optimizer/transaction.rs and       *)
(* src/optimizer/audit.rs.                                                 *)
(*                                                                         *)
(* A program is opaque: the KIR module with its facts, proofs and guard    *)
(* rewrites.  All the model knows of one is whether the structural and     *)
(* evidence validator accepts it (Verified).  Proposer and checker are     *)
(* untrusted: the trial and the verdict of a transaction are arbitrary.    *)
(***************************************************************************)
EXTENDS Naturals, Sequences, FiniteSets

CONSTANTS FunctionIds,  \* every function identity, clones included
          Functions0,   \* the functions of the module at the O3 entry
          Keys,         \* candidate keys
          Charges,      \* CandidateBudgetCharge values proposers come up with
          Programs,     \* verified-or-not program states a proposer can build
          Verified,     \* those validate_kir_optimization_evidence accepts
          EntryProgram, \* the program the pass pipeline verified before O3
          Budget        \* initial proposer and checker units per function

Work == [proposer : Nat, checker : Nat]
Charge == [functions : Seq(FunctionIds), proposer : Nat, checker : Nat]

ASSUME AuditAssumption ==
    /\ Functions0 \subseteq FunctionIds
    /\ Charges \subseteq Charge
    /\ Verified \subseteq Programs
    /\ EntryProgram \in Verified
    /\ Budget \in [Functions0 -> Work]

Dispositions == {"accepted", "rejected", "reused", "non-winner",
                 "budget-exhausted", "compiler-error"}

VARIABLES remaining,  \* units left, by owning function
          owners,     \* function or clone -> the function whose budget it uses
          attempts,   \* the audit log
          accepted,   \* its counters
          rejected,
          program,    \* the accepted program state
          failed      \* a CompilerError ended the pipeline

audit == <<remaining, owners, attempts, accepted, rejected>>
vars == <<remaining, owners, attempts, accepted, rejected, program, failed>>

Attempt == [key : Keys, disposition : Dispositions, charge : Charges]

Init ==
    /\ remaining = Budget
    /\ owners = [f \in Functions0 |-> f]
    /\ attempts = <<>>
    /\ accepted = 0
    /\ rejected = 0
    /\ program = EntryProgram
    /\ failed = FALSE

-----------------------------------------------------------------------------
(* The ledger. *)

AuditedKeys == {attempts[i].key : i \in DOMAIN attempts}

Charged(charge) == {charge.functions[i] : i \in DOMAIN charge.functions}

\* The budgets a charge debits: two charged functions of one owner debit it once.
ChargedOwners(charge) == {owners[f] : f \in Charged(charge)}

\* Mutant: the checker units are not preflighted.
CanDebitProposerOnly(charge) ==
    /\ charge.functions # <<>>
    /\ Charged(charge) \subseteq DOMAIN owners
    /\ \A o \in ChargedOwners(charge) : remaining[o].proposer >= charge.proposer

\* The preflight of try_debit: an empty or repeating function list, a function
\* without an owner, or one owner short of units refuses the whole charge.
CanDebit(charge) ==
    /\ charge.functions # <<>>
    /\ \A i, j \in DOMAIN charge.functions :
          charge.functions[i] = charge.functions[j] => i = j
    /\ Charged(charge) \subseteq DOMAIN owners
    /\ \A o \in ChargedOwners(charge) :
          /\ remaining[o].proposer >= charge.proposer
          /\ remaining[o].checker >= charge.checker

\* Mutant: one debit per charged function, not per owner.
DebitedPerFunction(charge) ==
    [o \in DOMAIN remaining |->
        LET times == Cardinality({f \in Charged(charge) : owners[f] = o})
        IN  [proposer |-> remaining[o].proposer - times * charge.proposer,
             checker |-> remaining[o].checker - times * charge.checker]]

Debited(charge) ==
    [o \in DOMAIN remaining |->
        IF o \in ChargedOwners(charge)
        THEN [proposer |-> remaining[o].proposer - charge.proposer,
              checker |-> remaining[o].checker - charge.checker]
        ELSE remaining[o]]

\* append_attempt once the key is known to be new.
AppendAttempt(key, charge, disposition) ==
    /\ attempts' = Append(attempts, [key |-> key, disposition |-> disposition,
                                     charge |-> charge])
    /\ accepted' = accepted + IF disposition = "accepted" THEN 1 ELSE 0
    /\ rejected' = rejected +
          IF disposition \in {"rejected", "budget-exhausted", "compiler-error"}
          THEN 1 ELSE 0

-----------------------------------------------------------------------------
(* execute_verified_transaction_with_disposition, one action per way out. *)

\* The key was audited before: nothing is debited and the compile ends.
DuplicateKey(key) ==
    /\ ~failed
    /\ key \in AuditedKeys
    /\ failed' = TRUE
    /\ UNCHANGED <<audit, program>>

\* Mutant: the owners that can pay are debited before the refusal.
ExhaustPartially(key, charge) ==
    /\ ~failed
    /\ key \notin AuditedKeys
    /\ ~CanDebit(charge)
    /\ AppendAttempt(key, charge, "budget-exhausted")
    /\ remaining' = [o \in DOMAIN remaining |->
          IF /\ \E f \in Charged(charge) \cap DOMAIN owners : owners[f] = o
             /\ remaining[o].proposer >= charge.proposer
          THEN [remaining[o] EXCEPT !.proposer = @ - charge.proposer]
          ELSE remaining[o]]
    /\ UNCHANGED <<owners, program, failed>>

\* The ledger refuses the charge.
Exhaust(key, charge) ==
    /\ ~failed
    /\ key \notin AuditedKeys
    /\ ~CanDebit(charge)
    /\ AppendAttempt(key, charge, "budget-exhausted")
    /\ UNCHANGED <<remaining, owners, program, failed>>

\* The charge is taken whatever becomes of the trial.
Charging(key, charge) ==
    /\ ~failed
    /\ key \notin AuditedKeys
    /\ CanDebit(charge)
    /\ remaining' = Debited(charge)
    /\ UNCHANGED owners

\* The independent checker turns the trial down.
Reject(key, charge) ==
    /\ Charging(key, charge)
    /\ AppendAttempt(key, charge, "rejected")
    /\ UNCHANGED <<program, failed>>

\* The mutation fails, the checker finds a malformed plan, or the trial the
\* checker let through does not revalidate.
Abort(key, charge) ==
    /\ Charging(key, charge)
    /\ AppendAttempt(key, charge, "compiler-error")
    /\ failed' = TRUE
    /\ UNCHANGED program

\* Mutant: the trial is swapped in without being revalidated.
CommitUnverified(key, charge, success, trial) ==
    /\ Charging(key, charge)
    /\ AppendAttempt(key, charge, success)
    /\ program' = trial
    /\ UNCHANGED failed

\* The checker lets the trial through and it revalidates: the state is swapped.
Commit(key, charge, success, trial) ==
    /\ Charging(key, charge)
    /\ trial \in Verified
    /\ AppendAttempt(key, charge, success)
    /\ program' = trial
    /\ UNCHANGED failed

\* Mutant: the proposer works on the state itself, not on a clone.
TransactInPlace(key, charge, success, trial, verdict) ==
    \/ DuplicateKey(key)
    \/ Exhaust(key, charge)
    \/ /\ verdict = "reject"
       /\ Charging(key, charge)
       /\ AppendAttempt(key, charge, "rejected")
       /\ program' = trial
       /\ UNCHANGED failed
    \/ verdict = "compiler" /\ Abort(key, charge)
    \/ verdict = "ok" /\ trial \notin Verified /\ Abort(key, charge)
    \/ verdict = "ok" /\ Commit(key, charge, success, trial)

\* A trial and what the check closure says of it.
Transact(key, charge, success, trial, verdict) ==
    \/ DuplicateKey(key)
    \/ Exhaust(key, charge)
    \/ verdict = "reject" /\ Reject(key, charge)
    \/ verdict = "compiler" /\ Abort(key, charge)
    \/ verdict = "ok" /\ trial \notin Verified /\ Abort(key, charge)
    \/ verdict = "ok" /\ Commit(key, charge, success, trial)

-----------------------------------------------------------------------------
(* record_noncommitting_attempt: the budget is debited first, the key is   *)
(* looked up after, so a duplicate costs units without an entry in the log.*)

NonCommitting == {"rejected", "reused", "non-winner"}

\* Mutant: the non-committing path does not look the key up.
RecordUnchecked(key, charge, disposition) ==
    /\ ~failed
    /\ remaining' = IF CanDebit(charge) THEN Debited(charge) ELSE remaining
    /\ AppendAttempt(key, charge, IF CanDebit(charge) THEN disposition
                                  ELSE "budget-exhausted")
    /\ UNCHANGED <<owners, program, failed>>

Record(key, charge, disposition) ==
    /\ ~failed
    /\ remaining' = IF CanDebit(charge) THEN Debited(charge) ELSE remaining
    /\ IF key \in AuditedKeys
       THEN /\ failed' = TRUE
            /\ UNCHANGED <<attempts, accepted, rejected>>
       ELSE /\ AppendAttempt(key, charge, IF CanDebit(charge) THEN disposition
                                          ELSE "budget-exhausted")
            /\ UNCHANGED failed
    /\ UNCHANGED <<owners, program>>

\* register_clone: the map is overwritten before the repeated clone is noticed.
RegisterClone(clone, original) ==
    /\ ~failed
    /\ IF original \in DOMAIN owners
       THEN /\ owners' = [f \in DOMAIN owners \cup {clone} |->
                             IF f = clone THEN owners[original] ELSE owners[f]]
            /\ failed' = (clone \in DOMAIN owners)
       ELSE failed' = TRUE /\ UNCHANGED owners
    /\ UNCHANGED <<remaining, attempts, accepted, rejected, program>>

Next ==
    \/ \E key \in Keys, charge \in Charges, trial \in Programs,
          success \in {"accepted", "reused"},
          verdict \in {"ok", "reject", "compiler"} :
             Transact(key, charge, success, trial, verdict)
    \/ \E key \in Keys, charge \in Charges, d \in NonCommitting :
             Record(key, charge, d)
    \/ \E clone \in FunctionIds \ Functions0, original \in FunctionIds :
             RegisterClone(clone, original)

Spec == Init /\ [][Next]_vars

-----------------------------------------------------------------------------
(* Properties. *)

\* Every variable keeps its shape; owners name functions that have a budget.
TypeOK ==
    /\ remaining \in [Functions0 -> Work]
    /\ \E S \in SUBSET FunctionIds : owners \in [S -> Functions0]
    /\ attempts \in Seq(Attempt)
    /\ accepted \in Nat /\ rejected \in Nat
    /\ program \in Programs
    /\ failed \in BOOLEAN

\* Whatever the proposers build and the checkers answer, the accepted program
\* is one the validator accepted (transaction.rs: *state = verified_trial).
ProgramIsVerified == program \in Verified

\* A candidate is audited once: no key appears twice in the log, whichever of
\* the transaction and the non-committing path wrote it (audit.rs keys).
NoKeyTwice ==
    \A i, j \in DOMAIN attempts : attempts[i].key = attempts[j].key => i = j

\* What the i-th logged attempt took from the budget of f.
Cost(i, f, kind) ==
    IF /\ attempts[i].disposition # "budget-exhausted"
       /\ f \in ChargedOwners(attempts[i].charge)
    THEN attempts[i].charge[kind] ELSE 0

Spent(f, kind) ==
    LET upTo[i \in 0 .. Len(attempts)] ==
            IF i = 0 THEN 0 ELSE upTo[i - 1] + Cost(i, f, kind)
    IN  upTo[Len(attempts)]

\* The units a function has spent are those of the logged attempts that were
\* charged to it or to a clone of it: rejected, lost and failed attempts are
\* never refunded, exhausted ones cost nothing (audit.rs try_debit).
LedgerBalance ==
    ~failed => \A f \in Functions0 :
        /\ remaining[f].proposer + Spent(f, "proposer") = Budget[f].proposer
        /\ remaining[f].checker + Spent(f, "checker") = Budget[f].checker

\* The program changes only together with a log entry that says it was
\* accepted or reused: every other attempt rolls the whole state back.
ProgramMovesOnlyByCommit ==
    [][program' # program =>
        /\ Len(attempts') = Len(attempts) + 1
        /\ attempts'[Len(attempts')].disposition \in {"accepted", "reused"}]_vars

\* A charge that does not fit debits none of its functions (a partial debit of
\* a caller whose callee is out of units), and leaves the program alone.
ExhaustionIsAtomic ==
    [][(/\ Len(attempts') = Len(attempts) + 1
        /\ attempts'[Len(attempts')].disposition = "budget-exhausted")
        => UNCHANGED <<remaining, program>>]_vars
=============================================================================
