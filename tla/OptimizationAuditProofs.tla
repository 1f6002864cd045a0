----------------------- MODULE OptimizationAuditProofs -----------------------
(***************************************************************************)
(* What holds of the verified transaction for every module, every set of   *)
(* candidate keys, charges and budgets, and every proposer and checker.    *)
(***************************************************************************)
EXTENDS OptimizationAudit, TLAPS

\* What an owner map is: a partial map from functions to functions of the entry
\* module (the witness form of the conjunct of TypeOK).
OwnersOK == DOMAIN owners \subseteq FunctionIds
            /\ owners \in [DOMAIN owners -> Functions0]

\* The inductive type invariant.
Inv ==
    /\ remaining \in [Functions0 -> Work]
    /\ OwnersOK
    /\ attempts \in Seq(Attempt)
    /\ accepted \in Nat /\ rejected \in Nat
    /\ program \in Programs
    /\ failed \in BOOLEAN

\* The two ways of saying it agree (audit.rs OptimizationBudgetLedger).
LEMMA InvIsTypeOK == Inv <=> TypeOK
  <1>1. ASSUME Inv PROVE TypeOK
    <2>1. owners \in [DOMAIN owners -> Functions0] /\ DOMAIN owners \in SUBSET FunctionIds
      BY <1>1 DEF Inv, OwnersOK
    <2>2. \E S \in SUBSET FunctionIds : owners \in [S -> Functions0]
      BY <2>1
    <2> QED BY <1>1, <2>2 DEF Inv, TypeOK
  <1>2. ASSUME TypeOK PROVE Inv
    <2>1. PICK S \in SUBSET FunctionIds : owners \in [S -> Functions0]
      BY <1>2 DEF TypeOK
    <2>2. OwnersOK
      BY <2>1 DEF OwnersOK
    <2> QED BY <1>2, <2>2 DEF Inv, TypeOK
  <1> QED BY <1>1, <1>2

\* Every charged function has an owner with a budget once the preflight passed.
LEMMA ChargedOwnersHaveBudgets ==
    ASSUME Inv, NEW charge \in Charges, CanDebit(charge)
    PROVE  ChargedOwners(charge) \subseteq Functions0
  BY DEF Inv, OwnersOK, CanDebit, ChargedOwners

\* The preflight keeps the subtraction of try_debit within the naturals: a debit
\* never wraps a u32 budget.
LEMMA DebitStaysNatural ==
    ASSUME Inv, NEW charge \in Charges, CanDebit(charge)
    PROVE  Debited(charge) \in [Functions0 -> Work]
  <1>1. charge.proposer \in Nat /\ charge.checker \in Nat
    BY AuditAssumption DEF Charge
  <1>2. ASSUME NEW o \in Functions0, o \in ChargedOwners(charge)
        PROVE  [proposer |-> remaining[o].proposer - charge.proposer,
                checker |-> remaining[o].checker - charge.checker] \in Work
    <2>1. remaining[o] \in Work
      BY DEF Inv
    <2>2. /\ remaining[o].proposer \in Nat /\ remaining[o].checker \in Nat
          /\ remaining[o].proposer >= charge.proposer
          /\ remaining[o].checker >= charge.checker
      BY <1>2, <2>1 DEF CanDebit, Work
    <2>3. /\ remaining[o].proposer - charge.proposer \in Nat
          /\ remaining[o].checker - charge.checker \in Nat
      BY <1>1, <2>2
    <2> QED BY <2>3 DEF Work
  <1>3. DOMAIN remaining = Functions0 /\ \A o \in Functions0 : remaining[o] \in Work
    BY DEF Inv
  <1> QED BY <1>2, <1>3 DEF Debited

\* A log entry keeps the log and its counters well-formed.
LEMMA AppendKeepsTypes ==
    ASSUME Inv, NEW key \in Keys, NEW charge \in Charges,
           NEW disposition \in Dispositions,
           AppendAttempt(key, charge, disposition)
    PROVE  /\ attempts' \in Seq(Attempt)
           /\ accepted' \in Nat
           /\ rejected' \in Nat
  <1>1. [key |-> key, disposition |-> disposition, charge |-> charge] \in Attempt
    BY DEF Attempt
  <1>2. attempts' \in Seq(Attempt)
    BY <1>1 DEF Inv, AppendAttempt
  <1>3. accepted' \in Nat /\ rejected' \in Nat
    BY DEF Inv, AppendAttempt
  <1> QED BY <1>2, <1>3

\* Init establishes the type invariant.
LEMMA InitInv == Init => Inv
  <1> SUFFICES ASSUME Init PROVE Inv
    OBVIOUS
  <1>1. OwnersOK
    BY AuditAssumption DEF Init, OwnersOK
  <1>2. remaining \in [Functions0 -> Work]
    BY AuditAssumption DEF Init
  <1>3. attempts \in Seq(Attempt)
    BY DEF Init
  <1> QED BY <1>1, <1>2, <1>3, AuditAssumption DEF Init, Inv

\* Everything a transaction does preserves it.
LEMMA TransactInv ==
    ASSUME Inv, NEW key \in Keys, NEW charge \in Charges, NEW trial \in Programs,
           NEW success \in {"accepted", "reused"},
           NEW verdict \in {"ok", "reject", "compiler"},
           Transact(key, charge, success, trial, verdict)
    PROVE  Inv'
  <1>1. ASSUME Charging(key, charge)
        PROVE  remaining' \in [Functions0 -> Work] /\ OwnersOK'
    <2>1. remaining' \in [Functions0 -> Work]
      BY <1>1, DebitStaysNatural DEF Charging
    <2>2. OwnersOK'
      BY <1>1 DEF Charging, Inv, OwnersOK
    <2> QED BY <2>1, <2>2
  <1>2. CASE DuplicateKey(key)
    BY <1>2 DEF DuplicateKey, Inv, OwnersOK, audit
  <1>3. CASE Exhaust(key, charge)
    <2>1. AppendAttempt(key, charge, "budget-exhausted")
      BY <1>3 DEF Exhaust
    <2>2. "budget-exhausted" \in Dispositions
      BY DEF Dispositions
    <2>3. attempts' \in Seq(Attempt) /\ accepted' \in Nat /\ rejected' \in Nat
      BY <2>1, <2>2, AppendKeepsTypes
    <2> QED BY <1>3, <2>3 DEF Exhaust, Inv, OwnersOK
  <1>4. CASE Reject(key, charge)
    <2>1. Charging(key, charge) /\ AppendAttempt(key, charge, "rejected")
      BY <1>4 DEF Reject
    <2>2. "rejected" \in Dispositions
      BY DEF Dispositions
    <2>3. attempts' \in Seq(Attempt) /\ accepted' \in Nat /\ rejected' \in Nat
      BY <2>1, <2>2, AppendKeepsTypes
    <2> QED BY <1>1, <1>4, <2>1, <2>3 DEF Reject, Inv
  <1>5. CASE Abort(key, charge)
    <2>1. Charging(key, charge) /\ AppendAttempt(key, charge, "compiler-error")
      BY <1>5 DEF Abort
    <2>2. "compiler-error" \in Dispositions
      BY DEF Dispositions
    <2>3. attempts' \in Seq(Attempt) /\ accepted' \in Nat /\ rejected' \in Nat
      BY <2>1, <2>2, AppendKeepsTypes
    <2> QED BY <1>1, <1>5, <2>1, <2>3 DEF Abort, Inv
  <1>6. CASE Commit(key, charge, success, trial)
    <2>1. Charging(key, charge) /\ AppendAttempt(key, charge, success)
      BY <1>6 DEF Commit
    <2>2. success \in Dispositions
      BY DEF Dispositions
    <2>3. attempts' \in Seq(Attempt) /\ accepted' \in Nat /\ rejected' \in Nat
      BY <2>1, <2>2, AppendKeepsTypes
    <2>4. program' \in Programs /\ failed' \in BOOLEAN
      BY <1>6 DEF Commit, Inv
    <2> QED BY <1>1, <2>1, <2>3, <2>4 DEF Inv
  <1> QED BY <1>2, <1>3, <1>4, <1>5, <1>6 DEF Transact

\* So does the non-committing path.
LEMMA RecordInv ==
    ASSUME Inv, NEW key \in Keys, NEW charge \in Charges,
           NEW d \in NonCommitting, Record(key, charge, d)
    PROVE  Inv'
  <1>1. remaining' \in [Functions0 -> Work]
    <2>1. CASE CanDebit(charge)
      BY <2>1, DebitStaysNatural DEF Record
    <2>2. CASE ~CanDebit(charge)
      BY <2>2 DEF Record, Inv
    <2> QED BY <2>1, <2>2
  <1>2. OwnersOK' /\ program' \in Programs /\ failed' \in BOOLEAN
    BY DEF Record, Inv, OwnersOK
  <1>3. attempts' \in Seq(Attempt) /\ accepted' \in Nat /\ rejected' \in Nat
    <2>1. CASE key \in AuditedKeys
      BY <2>1 DEF Record, Inv
    <2>2. CASE key \notin AuditedKeys
      <3> DEFINE final == IF CanDebit(charge) THEN d ELSE "budget-exhausted"
      <3>1. final \in Dispositions
        BY DEF NonCommitting, Dispositions
      <3>2. AppendAttempt(key, charge, final)
        BY <2>2 DEF Record
      <3> QED BY <3>1, <3>2, AppendKeepsTypes
    <2> QED BY <2>1, <2>2
  <1> QED BY <1>1, <1>2, <1>3 DEF Inv

\* And so does the registration of a clone, which only ever owes to a function
\* of the entry module.
LEMMA RegisterCloneInv ==
    ASSUME Inv, NEW clone \in FunctionIds \ Functions0,
           NEW original \in FunctionIds, RegisterClone(clone, original)
    PROVE  Inv'
  <1>1. OwnersOK' /\ failed' \in BOOLEAN
    <2>1. CASE original \in DOMAIN owners
      <3>1. /\ owners' = [f \in DOMAIN owners \cup {clone} |->
                             IF f = clone THEN owners[original] ELSE owners[f]]
            /\ failed' = (clone \in DOMAIN owners)
        BY <2>1 DEF RegisterClone
      <3>2. owners[original] \in Functions0
        BY <2>1 DEF Inv, OwnersOK
      <3>3. failed' \in BOOLEAN
        BY <3>1
      <3>4. OwnersOK'
        BY <3>1, <3>2 DEF Inv, OwnersOK
      <3> QED BY <3>3, <3>4
    <2>2. CASE original \notin DOMAIN owners
      BY <2>2 DEF RegisterClone, Inv, OwnersOK
    <2> QED BY <2>1, <2>2
  <1> QED BY <1>1 DEF RegisterClone, Inv

\* A step, stuttering included, preserves the type invariant.
LEMMA NextInv == Inv /\ [Next]_vars => Inv'
  <1> SUFFICES ASSUME Inv, [Next]_vars PROVE Inv'
    OBVIOUS
  <1>1. ASSUME NEW key \in Keys, NEW charge \in Charges, NEW trial \in Programs,
               NEW success \in {"accepted", "reused"},
               NEW verdict \in {"ok", "reject", "compiler"},
               Transact(key, charge, success, trial, verdict)
        PROVE  Inv'
    BY <1>1, TransactInv
  <1>2. ASSUME NEW key \in Keys, NEW charge \in Charges, NEW d \in NonCommitting,
               Record(key, charge, d)
        PROVE  Inv'
    BY <1>2, RecordInv
  <1>3. ASSUME NEW clone \in FunctionIds \ Functions0, NEW original \in FunctionIds,
               RegisterClone(clone, original)
        PROVE  Inv'
    BY <1>3, RegisterCloneInv
  <1>4. CASE UNCHANGED vars
    BY <1>4 DEF vars, Inv, OwnersOK
  <1> QED BY <1>1, <1>2, <1>3, <1>4 DEF Next

\* The type invariant holds for every instance: no budget goes below zero and
\* every owner has one (audit.rs try_debit, register_clone).
THEOREM TypeCorrect == Spec => []TypeOK
  <1>1. Init => Inv
    BY InitInv
  <1>2. Inv /\ [Next]_vars => Inv'
    BY NextInv
  <1>3. Inv => TypeOK
    BY InvIsTypeOK
  <1> QED BY <1>1, <1>2, <1>3, PTL DEF Spec

-----------------------------------------------------------------------------

\* The only step that replaces the program installs a verified one.
LEMMA NextVerified ==
    ProgramIsVerified /\ [Next]_vars => ProgramIsVerified'
  <1> SUFFICES ASSUME ProgramIsVerified, [Next]_vars PROVE ProgramIsVerified'
    OBVIOUS
  <1>1. ASSUME NEW key \in Keys, NEW charge \in Charges, NEW trial \in Programs,
               NEW success \in {"accepted", "reused"},
               NEW verdict \in {"ok", "reject", "compiler"},
               Transact(key, charge, success, trial, verdict)
        PROVE  ProgramIsVerified'
    <2>1. CASE Commit(key, charge, success, trial)
      BY <2>1 DEF Commit, ProgramIsVerified
    <2>2. CASE UNCHANGED program
      BY <2>2 DEF ProgramIsVerified
    <2> QED
      BY <1>1, <2>1, <2>2 DEF Transact, DuplicateKey, Exhaust, Reject, Abort
  <1>2. ASSUME NEW key \in Keys, NEW charge \in Charges, NEW d \in NonCommitting,
               Record(key, charge, d)
        PROVE  ProgramIsVerified'
    BY <1>2 DEF Record, ProgramIsVerified
  <1>3. ASSUME NEW clone \in FunctionIds \ Functions0, NEW original \in FunctionIds,
               RegisterClone(clone, original)
        PROVE  ProgramIsVerified'
    BY <1>3 DEF RegisterClone, ProgramIsVerified
  <1>4. CASE UNCHANGED vars
    BY <1>4 DEF vars, ProgramIsVerified
  <1> QED BY <1>1, <1>2, <1>3, <1>4 DEF Next

\* Arbitrary proposers and arbitrary checkers never get an unverified program
\* accepted: the revalidation in the transaction is all that is trusted.
THEOREM AcceptedProgramVerified == Spec => []ProgramIsVerified
  <1>1. Init => ProgramIsVerified
    BY AuditAssumption DEF Init, ProgramIsVerified
  <1> QED BY <1>1, NextVerified, PTL DEF Spec

\* Appending an entry with a new key keeps keys unique.
LEMMA AppendKeepsKeysUnique ==
    ASSUME Inv, NoKeyTwice, NEW key \in Keys, NEW charge \in Charges,
           NEW disposition \in Dispositions, key \notin AuditedKeys,
           AppendAttempt(key, charge, disposition)
    PROVE  NoKeyTwice'
  <1> DEFINE entry == [key |-> key, disposition |-> disposition, charge |-> charge]
  <1>1. /\ attempts \in Seq(Attempt)
        /\ attempts' = Append(attempts, entry)
        /\ entry \in Attempt
    BY DEF Inv, AppendAttempt, Attempt
  <1>2. \A i \in DOMAIN attempts : attempts[i].key # key
    BY DEF AuditedKeys
  <1>3. /\ DOMAIN attempts' = 1 .. Len(attempts) + 1
        /\ DOMAIN attempts = 1 .. Len(attempts)
        /\ Len(attempts) \in Nat
        /\ \A i \in DOMAIN attempts : attempts'[i] = attempts[i]
        /\ attempts'[Len(attempts) + 1] = entry
    BY <1>1
  <1>4. entry.key = key
    OBVIOUS
  <1>5. ASSUME NEW i \in DOMAIN attempts', NEW j \in DOMAIN attempts',
               attempts'[i].key = attempts'[j].key
        PROVE  i = j
    <2>1. CASE i \in DOMAIN attempts /\ j \in DOMAIN attempts
      BY <1>3, <1>5, <2>1 DEF NoKeyTwice
    <2>2. CASE i = Len(attempts) + 1 /\ j \in DOMAIN attempts
      BY <1>2, <1>3, <1>4, <1>5, <2>2
    <2>3. CASE i \in DOMAIN attempts /\ j = Len(attempts) + 1
      BY <1>2, <1>3, <1>4, <1>5, <2>3
    <2>4. CASE i = Len(attempts) + 1 /\ j = Len(attempts) + 1
      BY <2>4
    <2>5. /\ i \in DOMAIN attempts \/ i = Len(attempts) + 1
          /\ j \in DOMAIN attempts \/ j = Len(attempts) + 1
      BY <1>3
    <2> QED BY <2>1, <2>2, <2>3, <2>4, <2>5
  <1> QED BY <1>5 DEF NoKeyTwice

\* Both writers of the log look the key up before they append.
LEMMA NextKeysUnique ==
    Inv /\ NoKeyTwice /\ [Next]_vars => NoKeyTwice'
  <1> SUFFICES ASSUME Inv, NoKeyTwice, [Next]_vars PROVE NoKeyTwice'
    OBVIOUS
  <1>1. ASSUME NEW key \in Keys, NEW charge \in Charges, NEW trial \in Programs,
               NEW success \in {"accepted", "reused"},
               NEW verdict \in {"ok", "reject", "compiler"},
               Transact(key, charge, success, trial, verdict)
        PROVE  NoKeyTwice'
    <2>1. CASE DuplicateKey(key)
      BY <2>1 DEF DuplicateKey, audit, NoKeyTwice
    <2>2. ASSUME NEW d \in Dispositions, key \notin AuditedKeys,
                 AppendAttempt(key, charge, d)
          PROVE  NoKeyTwice'
      BY <2>2, AppendKeepsKeysUnique
    <2>3. {"budget-exhausted", "rejected", "compiler-error", success}
             \subseteq Dispositions
      BY DEF Dispositions
    <2>4. CASE Exhaust(key, charge)
      BY <2>2, <2>3, <2>4 DEF Exhaust
    <2>5. CASE Reject(key, charge)
      BY <2>2, <2>3, <2>5 DEF Reject, Charging
    <2>6. CASE Abort(key, charge)
      BY <2>2, <2>3, <2>6 DEF Abort, Charging
    <2>7. CASE Commit(key, charge, success, trial)
      BY <2>2, <2>3, <2>7 DEF Commit, Charging
    <2> QED BY <1>1, <2>1, <2>4, <2>5, <2>6, <2>7 DEF Transact
  <1>2. ASSUME NEW key \in Keys, NEW charge \in Charges, NEW d \in NonCommitting,
               Record(key, charge, d)
        PROVE  NoKeyTwice'
    <2> DEFINE final == IF CanDebit(charge) THEN d ELSE "budget-exhausted"
    <2>1. final \in Dispositions
      BY DEF NonCommitting, Dispositions
    <2>2. CASE key \in AuditedKeys
      BY <1>2, <2>2 DEF Record, NoKeyTwice
    <2>3. CASE key \notin AuditedKeys
      <3>1. AppendAttempt(key, charge, final)
        BY <1>2, <2>3 DEF Record
      <3> QED BY <2>1, <2>3, <3>1, AppendKeepsKeysUnique
    <2> QED BY <2>2, <2>3
  <1>3. ASSUME NEW clone \in FunctionIds \ Functions0, NEW original \in FunctionIds,
               RegisterClone(clone, original)
        PROVE  NoKeyTwice'
    BY <1>3 DEF RegisterClone, NoKeyTwice
  <1>4. CASE UNCHANGED vars
    BY <1>4 DEF vars, NoKeyTwice
  <1> QED BY <1>1, <1>2, <1>3, <1>4 DEF Next

\* No candidate key is audited twice (audit.rs append_attempt).
THEOREM AuditedOnce == Spec => []NoKeyTwice
  <1>1. Init => NoKeyTwice
    BY DEF Init, NoKeyTwice
  <1>2. Spec => []Inv
    BY InitInv, NextInv, PTL DEF Spec
  <1> QED BY <1>1, <1>2, NextKeysUnique, PTL DEF Spec

-----------------------------------------------------------------------------
(* Action properties. *)

\* The last entry of a log that was just appended to.
LEMMA LastAfterAppend ==
    ASSUME Inv, NEW key \in Keys, NEW charge \in Charges,
           NEW disposition \in Dispositions,
           AppendAttempt(key, charge, disposition)
    PROVE  /\ Len(attempts') = Len(attempts) + 1
           /\ attempts'[Len(attempts')].disposition = disposition
  <1> DEFINE entry == [key |-> key, disposition |-> disposition, charge |-> charge]
  <1>1. attempts \in Seq(Attempt) /\ attempts' = Append(attempts, entry)
        /\ entry \in Attempt
    BY DEF Inv, AppendAttempt, Attempt
  <1>2. Len(attempts') = Len(attempts) + 1 /\ attempts'[Len(attempts')] = entry
    BY <1>1
  <1>3. entry.disposition = disposition
    OBVIOUS
  <1> QED BY <1>2, <1>3

\* One step moves the program only by a commit and never debits on exhaustion.
LEMMA StepMovesOnlyByCommit ==
    Inv /\ [Next]_vars =>
       [program' # program =>
          /\ Len(attempts') = Len(attempts) + 1
          /\ attempts'[Len(attempts')].disposition \in {"accepted", "reused"}]_vars
  <1> SUFFICES ASSUME Inv, Next, program' # program
               PROVE  /\ Len(attempts') = Len(attempts) + 1
                      /\ attempts'[Len(attempts')].disposition
                            \in {"accepted", "reused"}
    BY DEF vars
  <1>1. PICK key \in Keys, charge \in Charges, trial \in Programs,
             success \in {"accepted", "reused"},
             verdict \in {"ok", "reject", "compiler"} :
                Transact(key, charge, success, trial, verdict)
    BY DEF Next, Record, RegisterClone
  <1>2. Commit(key, charge, success, trial)
    BY <1>1 DEF Transact, DuplicateKey, Exhaust, Reject, Abort
  <1>3. AppendAttempt(key, charge, success) /\ success \in Dispositions
    BY <1>2 DEF Commit, Dispositions
  <1> QED BY <1>3, LastAfterAppend

\* A rejected, failed or lost candidate leaves the program it found: only a
\* transaction logged as accepted or reused replaces it.
THEOREM RollbackIsTotal == Spec => ProgramMovesOnlyByCommit
  <1>1. Spec => []Inv
    BY InitInv, NextInv, PTL DEF Spec
  <1> QED
    BY <1>1, StepMovesOnlyByCommit, PTL DEF Spec, ProgramMovesOnlyByCommit

\* An entry that says budget-exhausted was written by a step that debited nothing.
LEMMA StepExhaustsAtomically ==
    Inv /\ [Next]_vars =>
       [(/\ Len(attempts') = Len(attempts) + 1
         /\ attempts'[Len(attempts')].disposition = "budget-exhausted")
            => UNCHANGED <<remaining, program>>]_vars
  <1> SUFFICES ASSUME Inv, Next,
                      Len(attempts') = Len(attempts) + 1,
                      attempts'[Len(attempts')].disposition = "budget-exhausted"
               PROVE  UNCHANGED <<remaining, program>>
    BY DEF vars
  <1>1. attempts' # attempts
    BY DEF Inv
  <1>2. ASSUME NEW key \in Keys, NEW charge \in Charges, NEW trial \in Programs,
               NEW success \in {"accepted", "reused"},
               NEW verdict \in {"ok", "reject", "compiler"},
               Transact(key, charge, success, trial, verdict)
        PROVE  UNCHANGED <<remaining, program>>
    <2>1. ASSUME NEW d \in Dispositions, AppendAttempt(key, charge, d)
          PROVE  d = "budget-exhausted"
      BY <2>1, LastAfterAppend
    <2>2. {"rejected", "compiler-error", success} \subseteq Dispositions
      BY DEF Dispositions
    <2>3. ~Reject(key, charge)
      BY <2>1, <2>2 DEF Reject
    <2>4. ~Abort(key, charge)
      BY <2>1, <2>2 DEF Abort
    <2>5. ~Commit(key, charge, success, trial)
      BY <2>1, <2>2 DEF Commit
    <2>6. ~DuplicateKey(key)
      BY <1>1 DEF DuplicateKey, audit
    <2> QED BY <1>2, <2>3, <2>4, <2>5, <2>6 DEF Transact, Exhaust
  <1>3. ASSUME NEW key \in Keys, NEW charge \in Charges, NEW d \in NonCommitting,
               Record(key, charge, d)
        PROVE  UNCHANGED <<remaining, program>>
    <2>1. key \notin AuditedKeys
      BY <1>1, <1>3 DEF Record
    <2>2. d \in Dispositions /\ d # "budget-exhausted"
      BY DEF NonCommitting, Dispositions
    <2>3. CASE CanDebit(charge)
      <3>1. AppendAttempt(key, charge, d)
        BY <1>3, <2>1, <2>3 DEF Record
      <3>2. attempts'[Len(attempts')].disposition = d
        BY <2>2, <3>1, LastAfterAppend
      <3> QED BY <2>2, <3>2
    <2>4. CASE ~CanDebit(charge)
      BY <1>3, <2>4 DEF Record
    <2> QED BY <2>3, <2>4
  <1>4. ASSUME NEW clone \in FunctionIds \ Functions0, NEW original \in FunctionIds,
               RegisterClone(clone, original)
        PROVE  UNCHANGED <<remaining, program>>
    BY <1>4 DEF RegisterClone
  <1> QED BY <1>2, <1>3, <1>4 DEF Next

\* A charge over several functions is all or nothing (audit.rs try_debit).
THEOREM DebitIsAtomic == Spec => ExhaustionIsAtomic
  <1>1. Spec => []Inv
    BY InitInv, NextInv, PTL DEF Spec
  <1> QED
    BY <1>1, StepExhaustsAtomically, PTL DEF Spec, ExhaustionIsAtomic

-----------------------------------------------------------------------------
(* The ledger balances.  Spent is a recursive sum over the log; what proves   *)
(* it is that a step extends every such sum by one cost, so no induction over *)
(* the log is needed beyond the one over the behaviour.                       *)

\* g lists the sums of the first costs in c.
Sums(g, c, n) ==
    g = [i \in 0 .. n |-> IF i = 0 THEN 0 ELSE g[i - 1] + c[i]]

\* The costs of the log to the budget of f.
Costs(f, kind) == [i \in DOMAIN attempts |-> Cost(i, f, kind)]

\* The sums of n costs exist, and every list of them ends in total.
AddsUp(c, n, total) ==
    /\ \E g : Sums(g, c, n)
    /\ \A g : Sums(g, c, n) => g[n] = total

\* No cost adds up to nothing.
LEMMA NothingAddsUp == \A c : AddsUp(c, 0, 0)
  <1> SUFFICES ASSUME NEW c PROVE AddsUp(c, 0, 0)
    OBVIOUS
  <1> DEFINE g == [i \in 0 .. 0 |-> 0]
  <1>1. Sums(g, c, 0)
    BY DEF Sums
  <1>2. ASSUME NEW h, Sums(h, c, 0) PROVE h[0] = 0
    BY <1>2 DEF Sums
  <1> QED BY <1>1, <1>2 DEF AddsUp

\* One cost more adds to the total.
LEMMA OneMoreAddsUp ==
    ASSUME NEW n \in Nat, NEW c, NEW d, NEW total, AddsUp(c, n, total),
           \A i \in 1 .. n : d[i] = c[i]
    PROVE  AddsUp(d, n + 1, total + d[n + 1])
  <1>1. ASSUME NEW g, Sums(g, d, n + 1)
        PROVE  g[n + 1] = total + d[n + 1]
    <2> DEFINE h == [i \in 0 .. n |-> g[i]]
    <2>1. \A i \in 0 .. n + 1 : g[i] = IF i = 0 THEN 0 ELSE g[i - 1] + d[i]
      BY <1>1 DEF Sums
    <2>2. \A i \in 0 .. n : h[i] = IF i = 0 THEN 0 ELSE h[i - 1] + c[i]
      BY <2>1
    <2>3. h = [i \in 0 .. n |-> IF i = 0 THEN 0 ELSE h[i - 1] + c[i]]
      BY <2>2
    <2>4. h[n] = total
      BY <2>3 DEF Sums, AddsUp
    <2>5. g[n] = total
      BY <2>4
    <2> QED BY <2>1, <2>5
  <1>2. \E g : Sums(g, d, n + 1)
    <2>1. PICK h : Sums(h, c, n)
      BY DEF AddsUp
    <2> DEFINE g == [i \in 0 .. n + 1 |-> IF i = n + 1 THEN h[n] + d[i] ELSE h[i]]
    <2>2. \A i \in 0 .. n : h[i] = IF i = 0 THEN 0 ELSE h[i - 1] + c[i]
      BY <2>1 DEF Sums
    <2>3. \A i \in 0 .. n + 1 : g[i] = IF i = 0 THEN 0 ELSE g[i - 1] + d[i]
      <3> SUFFICES ASSUME NEW i \in 0 .. n + 1
                   PROVE  g[i] = IF i = 0 THEN 0 ELSE g[i - 1] + d[i]
        OBVIOUS
      <3>1. CASE i = n + 1
        BY <3>1
      <3>2. CASE i \in 0 .. n
        BY <2>2, <3>2
      <3> QED BY <3>1, <3>2
    <2>4. g = [i \in 0 .. n + 1 |-> IF i = 0 THEN 0 ELSE g[i - 1] + d[i]]
      BY <2>3
    <2>5. Sums(g, d, n + 1)
      BY <2>4 DEF Sums
    <2> QED BY <2>5
  <1> QED BY <1>1, <1>2 DEF AddsUp

\* Costs that agree add up to the same.
LEMMA SameCostsAddUp ==
    ASSUME NEW n \in Nat, NEW c, NEW d, NEW total, AddsUp(c, n, total),
           \A i \in 1 .. n : d[i] = c[i]
    PROVE  AddsUp(d, n, total)
  <1>1. ASSUME NEW g PROVE Sums(g, d, n) <=> Sums(g, c, n)
    <2>1. [i \in 0 .. n |-> IF i = 0 THEN 0 ELSE g[i - 1] + d[i]]
            = [i \in 0 .. n |-> IF i = 0 THEN 0 ELSE g[i - 1] + c[i]]
      BY \A i \in 0 .. n : i # 0 => i \in 1 .. n
    <2> QED BY <2>1 DEF Sums
  <1> QED BY <1>1 DEF AddsUp

\* Spent is what the costs add up to.
LEMMA SpentIsTheTotal ==
    ASSUME NEW f, NEW kind, NEW total, Len(attempts) \in Nat,
           DOMAIN attempts = 1 .. Len(attempts),
           AddsUp(Costs(f, kind), Len(attempts), total)
    PROVE  Spent(f, kind) = total
  <1> DEFINE n == Len(attempts)
             upTo == CHOOSE g : g = [i \in 0 .. n |->
                         IF i = 0 THEN 0 ELSE g[i - 1] + Cost(i, f, kind)]
  <1>1. ASSUME NEW g
        PROVE  Sums(g, Costs(f, kind), n)
                 <=> g = [i \in 0 .. n |->
                            IF i = 0 THEN 0 ELSE g[i - 1] + Cost(i, f, kind)]
    <2>1. \A i \in 0 .. n : i # 0 => Costs(f, kind)[i] = Cost(i, f, kind)
      BY DEF Costs
    <2>2. [i \in 0 .. n |-> IF i = 0 THEN 0 ELSE g[i - 1] + Costs(f, kind)[i]]
            = [i \in 0 .. n |-> IF i = 0 THEN 0 ELSE g[i - 1] + Cost(i, f, kind)]
      BY <2>1
    <2> QED BY <2>2 DEF Sums
  <1>2. Sums(upTo, Costs(f, kind), n)
    <2>1. \E g : g = [i \in 0 .. n |->
                         IF i = 0 THEN 0 ELSE g[i - 1] + Cost(i, f, kind)]
      BY <1>1 DEF AddsUp
    <2> QED BY <1>1, <2>1
  <1>3. upTo[n] = total
    BY <1>2 DEF AddsUp
  <1>4. Spent(f, kind) = upTo[n]
    BY DEF Spent
  <1> QED BY <1>3, <1>4

\* The kinds of work a budget has.
Units == {"proposer", "checker"}

\* What was charged has an owner, and keeps it.
LoggedOwners ==
    \A i \in DOMAIN attempts :
        attempts[i].disposition # "budget-exhausted" =>
            Charged(attempts[i].charge) \subseteq DOMAIN owners

\* What is missing from every budget is what its costs add up to.
Balanced ==
    \A f \in Functions0, kind \in Units :
        AddsUp(Costs(f, kind), Len(attempts), Budget[f][kind] - remaining[f][kind])

\* The inductive form of LedgerBalance.
Ledger == LoggedOwners /\ (~failed => Balanced)

LEMMA LedgerIsBalance == Inv /\ Ledger => LedgerBalance
  <1> SUFFICES ASSUME Inv, Ledger, ~failed, NEW f \in Functions0
               PROVE  /\ remaining[f].proposer + Spent(f, "proposer") = Budget[f].proposer
                      /\ remaining[f].checker + Spent(f, "checker") = Budget[f].checker
    BY DEF LedgerBalance
  <1>1. Len(attempts) \in Nat /\ DOMAIN attempts = 1 .. Len(attempts)
    BY DEF Inv
  <1>2. /\ Spent(f, "proposer") = Budget[f].proposer - remaining[f].proposer
        /\ Spent(f, "checker") = Budget[f].checker - remaining[f].checker
    BY <1>1, SpentIsTheTotal DEF Ledger, Balanced, Units
  <1>3. Budget[f] \in Work /\ remaining[f] \in Work
    BY AuditAssumption DEF Inv
  <1> QED BY <1>2, <1>3 DEF Work

LEMMA InitLedger == Init => Ledger
  <1> SUFFICES ASSUME Init PROVE Ledger
    OBVIOUS
  <1>1. ASSUME NEW f \in Functions0, NEW kind \in Units
        PROVE  AddsUp(Costs(f, kind), Len(attempts), Budget[f][kind] - remaining[f][kind])
    <2>1. Budget[f] \in Work
      BY AuditAssumption
    <2>2. Budget[f][kind] - remaining[f][kind] = 0
      BY <2>1 DEF Init, Work, Units
    <2>3. Len(attempts) = 0
      BY DEF Init
    <2> QED BY <2>2, <2>3, NothingAddsUp
  <1> QED BY <1>1 DEF Ledger, LoggedOwners, Balanced, Init

\* The cost of the entries already logged does not change while they keep their
\* owners.
LEMMA OldCostsStay ==
    ASSUME Inv, LoggedOwners, NEW f, NEW kind, NEW i \in DOMAIN attempts,
           attempts'[i] = attempts[i], DOMAIN owners \subseteq DOMAIN owners',
           \A g \in DOMAIN owners : owners'[g] = owners[g]
    PROVE  Cost(i, f, kind)' = Cost(i, f, kind)
  <1>1. CASE attempts[i].disposition = "budget-exhausted"
    BY <1>1 DEF Cost
  <1>2. CASE attempts[i].disposition # "budget-exhausted"
    <2>1. ChargedOwners(attempts[i].charge)' = ChargedOwners(attempts[i].charge)
      BY <1>2 DEF LoggedOwners, ChargedOwners, Charged
    <2> QED BY <2>1 DEF Cost
  <1> QED BY <1>1, <1>2

\* An entry that costs what was debited keeps the ledger balanced.
LEMMA EntryBalances ==
    ASSUME Inv, Ledger, ~failed, NEW key \in Keys, NEW charge \in Charges,
           NEW d \in Dispositions, AppendAttempt(key, charge, d), UNCHANGED owners,
           \/ d = "budget-exhausted" /\ UNCHANGED remaining
           \/ d # "budget-exhausted" /\ CanDebit(charge) /\ remaining' = Debited(charge)
    PROVE  LoggedOwners' /\ Balanced'
  <1> DEFINE entry == [key |-> key, disposition |-> d, charge |-> charge]
  <1> PICK n \in Nat : n = Len(attempts)
    BY DEF Inv
  <1>1. /\ Len(attempts') = n + 1
        /\ DOMAIN attempts = 1 .. n /\ DOMAIN attempts' = 1 .. n + 1
        /\ \A i \in 1 .. n : attempts'[i] = attempts[i]
        /\ attempts'[n + 1] = entry
    <2>1. attempts \in Seq(Attempt) /\ attempts' = Append(attempts, entry) /\ entry \in Attempt
      BY DEF Inv, AppendAttempt, Attempt
    <2> QED BY <2>1
  <1>2. entry.disposition = d /\ entry.charge = charge
    OBVIOUS
  <1>3. LoggedOwners'
    <2>1. ASSUME NEW i \in DOMAIN attempts', attempts'[i].disposition # "budget-exhausted"
          PROVE  Charged(attempts'[i].charge) \subseteq DOMAIN owners
      <3>1. CASE i \in 1 .. n
        BY <1>1, <2>1, <3>1 DEF Ledger, LoggedOwners
      <3>2. CASE i = n + 1
        BY <1>1, <1>2, <2>1, <3>2 DEF CanDebit
      <3> QED BY <1>1, <3>1, <3>2
    <2> QED BY <2>1 DEF LoggedOwners, Charged
  <1>4. ASSUME NEW f \in Functions0, NEW kind \in Units
        PROVE  AddsUp(Costs(f, kind)', n + 1, Budget[f][kind] - remaining'[f][kind])
    <2> DEFINE new == Cost(n + 1, f, kind)'
               left == remaining[f][kind]
    <2>1. /\ remaining[f] \in Work /\ Budget[f] \in Work
          /\ charge.proposer \in Nat /\ charge.checker \in Nat
      BY AuditAssumption DEF Inv, Charge
    <2>2. left \in Nat /\ Budget[f][kind] \in Nat /\ charge[kind] \in Nat
      BY <2>1 DEF Work, Units
    <2>3. AddsUp(Costs(f, kind), n, Budget[f][kind] - left)
      BY DEF Ledger, Balanced
    <2>4. /\ \A i \in 1 .. n : Costs(f, kind)'[i] = Costs(f, kind)[i]
          /\ Costs(f, kind)'[n + 1] = new
      <3>1. \A i \in 1 .. n : Cost(i, f, kind)' = Cost(i, f, kind)
        BY <1>1, OldCostsStay DEF Ledger
      <3> QED BY <1>1, <3>1 DEF Costs
    <2>5. AddsUp(Costs(f, kind)', n + 1, (Budget[f][kind] - left) + new)
      <3> HIDE DEF new
      <3> QED BY <1>1, <2>3, <2>4, OneMoreAddsUp
    <2>6. new = IF d # "budget-exhausted" /\ f \in ChargedOwners(charge)
                THEN charge[kind] ELSE 0
      BY <1>1, <1>2 DEF Cost, ChargedOwners, Charged
    <2>7. remaining'[f][kind] = left - new
      <3>1. CASE d = "budget-exhausted"
        BY <2>2, <2>6, <3>1
      <3>2. CASE d # "budget-exhausted" /\ f \in ChargedOwners(charge)
        <4>1. remaining'[f] = [proposer |-> remaining[f].proposer - charge.proposer,
                               checker |-> remaining[f].checker - charge.checker]
          BY <3>2 DEF Inv, Debited
        <4> QED BY <2>6, <3>2, <4>1 DEF Units
      <3>3. CASE d # "budget-exhausted" /\ f \notin ChargedOwners(charge)
        <4>1. remaining'[f] = remaining[f]
          BY <3>3 DEF Inv, Debited
        <4> QED BY <2>2, <2>6, <3>3, <4>1
      <3> QED BY <3>1, <3>2, <3>3
    <2>8. (Budget[f][kind] - left) + new = Budget[f][kind] - remaining'[f][kind]
      <3>1. new \in Nat
        BY <2>2, <2>6
      <3> HIDE DEF new, left
      <3> QED BY <2>2, <2>7, <3>1
    <2> QED BY <2>5, <2>8
  <1>5. Balanced'
    BY <1>1, <1>4 DEF Balanced
  <1> QED BY <1>3, <1>5

\* Nothing but the log, the budgets and the owners matters to the ledger.
LEMMA UntouchedLedger ==
    ASSUME Ledger, UNCHANGED <<attempts, owners>>,
           failed' \/ (UNCHANGED remaining /\ failed' = failed)
    PROVE  Ledger'
  <1>1. LoggedOwners'
    BY DEF Ledger, LoggedOwners, Charged
  <1>2. CASE failed'
    BY <1>1, <1>2 DEF Ledger
  <1>3. CASE ~failed' /\ UNCHANGED remaining /\ ~failed
    <2>1. ASSUME NEW f, NEW kind PROVE Costs(f, kind)' = Costs(f, kind)
      BY DEF Costs, Cost, ChargedOwners, Charged
    <2> QED BY <1>1, <1>3, <2>1 DEF Ledger, Balanced
  <1> QED BY <1>2, <1>3

LEMMA TransactLedger ==
    ASSUME Inv, Ledger, NEW key \in Keys, NEW charge \in Charges, NEW trial,
           NEW success \in {"accepted", "reused"}, NEW verdict,
           Transact(key, charge, success, trial, verdict)
    PROVE  Ledger'
  <1>1. CASE DuplicateKey(key)
    BY <1>1, UntouchedLedger DEF DuplicateKey, audit
  <1>2. CASE Exhaust(key, charge)
    <2>1. "budget-exhausted" \in Dispositions
      BY DEF Dispositions
    <2>2. LoggedOwners' /\ Balanced'
      BY <1>2, <2>1, EntryBalances DEF Exhaust
    <2> QED BY <2>2 DEF Ledger
  <1>3. ASSUME NEW d \in {"rejected", "compiler-error", "accepted", "reused"},
               Charging(key, charge), AppendAttempt(key, charge, d)
        PROVE  Ledger'
    <2>1. d \in Dispositions /\ d # "budget-exhausted"
      BY DEF Dispositions
    <2>2. LoggedOwners' /\ Balanced'
      BY <1>3, <2>1, EntryBalances DEF Charging
    <2> QED BY <2>2 DEF Ledger
  <1> QED BY <1>1, <1>2, <1>3 DEF Transact, Reject, Abort, Commit

LEMMA RecordLedger ==
    ASSUME Inv, Ledger, NEW key \in Keys, NEW charge \in Charges,
           NEW d \in NonCommitting, Record(key, charge, d)
    PROVE  Ledger'
  <1>1. CASE key \in AuditedKeys
    BY <1>1, UntouchedLedger DEF Record
  <1>2. CASE key \notin AuditedKeys /\ CanDebit(charge)
    <2>1. d \in Dispositions /\ d # "budget-exhausted"
      BY DEF NonCommitting, Dispositions
    <2>2. LoggedOwners' /\ Balanced'
      BY <1>2, <2>1, EntryBalances DEF Record
    <2> QED BY <2>2 DEF Ledger
  <1>3. CASE key \notin AuditedKeys /\ ~CanDebit(charge)
    <2>1. "budget-exhausted" \in Dispositions
      BY DEF Dispositions
    <2>2. LoggedOwners' /\ Balanced'
      BY <1>3, <2>1, EntryBalances DEF Record
    <2> QED BY <2>2 DEF Ledger
  <1> QED BY <1>1, <1>2, <1>3

\* A clone that is registered was charged for nothing yet; one registered twice
\* ends the compile.
LEMMA RegisterCloneLedger ==
    ASSUME Inv, Ledger, NEW clone, NEW original, RegisterClone(clone, original)
    PROVE  Ledger'
  <1>1. CASE original \notin DOMAIN owners
    BY <1>1, UntouchedLedger DEF RegisterClone
  <1>2. CASE original \in DOMAIN owners
    <2>1. /\ owners' = [f \in DOMAIN owners \cup {clone} |->
                           IF f = clone THEN owners[original] ELSE owners[f]]
          /\ failed' = (clone \in DOMAIN owners)
          /\ UNCHANGED <<attempts, remaining>> /\ ~failed
      BY <1>2 DEF RegisterClone
    <2>2. LoggedOwners'
      BY <2>1 DEF Ledger, LoggedOwners, Charged
    <2>3. ASSUME ~failed', NEW f \in Functions0, NEW kind \in Units
          PROVE  AddsUp(Costs(f, kind)', Len(attempts), Budget[f][kind] - remaining[f][kind])
      <3>1. \A g \in DOMAIN owners : owners'[g] = owners[g]
        BY <2>1, <2>3
      <3>2. \A i \in DOMAIN attempts : Cost(i, f, kind)' = Cost(i, f, kind)
        BY <2>1, <3>1, OldCostsStay DEF Ledger
      <3>3. Costs(f, kind)' = Costs(f, kind)
        BY <2>1, <3>2 DEF Costs
      <3> QED BY <2>1, <3>3 DEF Ledger, Balanced
    <2> QED BY <2>1, <2>2, <2>3 DEF Ledger, Balanced
  <1> QED BY <1>1, <1>2

LEMMA NextLedger == Inv /\ Ledger /\ [Next]_vars => Ledger'
  <1> SUFFICES ASSUME Inv, Ledger, [Next]_vars PROVE Ledger'
    OBVIOUS
  <1>1. CASE UNCHANGED vars
    BY <1>1, UntouchedLedger DEF vars
  <1> QED BY <1>1, TransactLedger, RecordLedger, RegisterCloneLedger DEF Next

\* No unit is lost, refunded or spent twice: at every moment of a compile what
\* is left of each budget and what the log charges to it make the whole
\* (audit.rs try_debit, OptimizationBudgetLedger).
THEOREM LedgerBalances == Spec => []LedgerBalance
  <1>1. Spec => []Inv
    BY InitInv, NextInv, PTL DEF Spec
  <1>2. Spec => []Ledger
    BY <1>1, InitLedger, NextLedger, PTL DEF Spec
  <1> QED BY <1>1, <1>2, LedgerIsBalance, PTL
=============================================================================
