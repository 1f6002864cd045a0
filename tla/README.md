# A TLA+ model of CalcKernel

CalcKernel (`ckc`) compiles the CK language to native objects, libraries and
executables, to C and to WebAssembly. Most of the compiler is a sequence of pure
functions over data structures. What this project models are the parts where the
order of steps matters: where speculative results are published or rolled back,
where files are replaced, where processes share a directory and where threads
share counters.

Paths below are relative to the repository root.

## 1. Inventory

| Component | State it keeps | Operations | Hard behaviour | What makes it correct | Here |
|---|---|---|---|---|---|
| Verified transaction and audit, `src/optimizer/{transaction,audit}.rs` | accepted KIR state, budget ledger, clone owners, log of attempts | transact, record a non-committing attempt, register a clone | untrusted proposers and checkers, failures after the debit, shared budgets | the accepted program is verified; a failed attempt rolls back; units balance; a key is audited once | `OptimizationAudit` |
| O3 frontiers, `src/optimizer/kir_pipeline.rs` | processed set, alternatives, the audit | discover, materialize, check, choose, publish | descriptors and keys that go stale when the program is rewritten under them; candidates of one frontier that return in another | every candidate tried once; keys do not collide; limits hold; one winner per place | `UnrollFrontier`; `SpecializationFrontier`, `LoopFrontiers`, `VectorFrontiers`, composed in `O3Frontiers` |
| Pass manager, `src/optimizer/kir_pipeline.rs`, `verify.rs` | KIR, facts, certificates, records of removed guards, the snapshot last verified | run a pass, check its evidence, open and close the frontiers | a reused verdict that no longer describes the module; evidence lost between two stages | nothing unverified reaches a backend; only a broken pass fails a build | `PassPipeline` |
| Scalar passes and analyses, `src/optimizer/{proof,facts,pgo}.rs`, `kir_passes/`, `analysis/` | none | transforms and analyses of KIR | size | semantics preserved | not modelled: an arbitrary result |
| Independent checkers, `src/optimizer/*_check.rs` | none | check a plan against pre-state and trial | size | reject every wrong rewrite | not modelled: an arbitrary verdict |
| Output transaction, `src/cli/output.rs` | staged files, backups | stage, commit, roll back, drop | any file operation fails; the process is killed | all outputs or none; no old output lost | `OutputTransaction` |
| Compile cache, `src/cli/cache/` | a directory shared by processes | open, load, store, evict, clean | no lock: interleaved processes, kills, power loss, damage | a hit is a whole build; the limit holds; nobody hangs | `CacheStore` |
| Profile collection runtime, `native/profile_runtime/` | atomic counters, two once-states, a shard | initialize, add, flush | threads, wrapping words, spinning, retries, foreign files | counts saturate and lose nothing else; one whole shard per process | `ProfileCounts`, `ProfileCollector` |
| Profile merge, `src/profile/merge.rs` | the aggregate | scan, read, refuse duplicates, add | a directory in use, order, saturation, grouping | what is not marked is exact; every listed run once | `ProfileMerge` |
| Profile files, `src/profile/{format,apply,identity,inspect}.rs` | none | parse, print, match, report | wire format | functional correctness | not modelled |
| `ckc run`, `src/cli/run.rs`, `run/interrupt_unix.rs` | a child, one atomic shared with a signal handler | spawn, register, forward, wait | a signal between any two steps | an interrupt reaches the child and only the child; no orphan | `RunCommand` |
| `ckc pgo build`, `src/cli/pgo.rs` | a private directory, a training process | instrument, train, merge, rebuild, commit | every step fails or is killed | outputs change together and only after a training that counts | `PgoBuild` |
| CLI dispatch, `src/cli/{mod,commands,args}.rs` | none between commands | run, pgo, lsp, build, check, emit | composition of the parts above | | `Commands` |
| Language server, `src/cli/lsp/` | open documents, workspace folders | lifecycle, open, change, close, queries | stale versions, several URIs of a file, limits | open text shadows the disk; an omission is reported | `LanguageServer` |
| Multiversion builds, `src/optimizer/multiversion.rs`, `native/bridge/ckc_llvm.cpp`, `native/dispatch_runtime/` | the growth charged and the variants kept; a pointer slot per root | plan, emit; detect, select, publish, call | two rankings under one budget; threads resolve at once and detect differently | the best tier for every processor; one variant per root, and one that runs | `Multiversion` |
| Front end, `src/frontend/`; MIR and KIR, `src/ir/`; backends, `src/backend/{llvm,c,wasm,artifact}`; bridge, `native/bridge/`; execution runtime, `native/runtime/` | none shared | pure translations | none of ordering | functional correctness | not modelled |

How they interact. A build command parses and checks the source, builds KIR and runs
the pass manager, which opens a verified program for its O3 frontiers; these publish
through the verified transaction and share one audit. The artifact is lowered to an
object, loaded from or stored in the cache and published through the output
transaction. A profile-generation build instruments the O1 artifact and links the collection
runtime: the host calls the instrumented functions, then the flush control; `ckc
pgo merge` reads the shards; a profile-use build hands the merged counts to the
optimizer as ranking input. `ckc pgo build` does all of this in one command.

The hazards, each at its line, are the `hazards` of `PROJECT.json`.

## 2. Modules

### OptimizationAudit, OptimizationAuditProofs

`remaining` and `owners` are the `OptimizationBudgetLedger`; `attempts`,
`accepted`, `rejected` are `KirOptimizationAuditState` (its `keys` set is
`AuditedKeys`, the keys of the log); `program` is the accepted
`KirVerifiedProgramState`; `failed` says that a `CompilerError` ended the pipeline.
A program is opaque: all that is known of one is whether the validator accepts it.

| Action | Code |
|---|---|
| `Transact` = `DuplicateKey`, `Exhaust`, `Reject`, `Abort`, `Commit` | the exits of `execute_verified_transaction_with_disposition` |
| `Record` | `record_noncommitting_attempt`: debit first, then the key |
| `RegisterClone` | `register_clone`: insert first, then the error |

Proposer and checker are inputs: any trial with any verdict. Widths: units are
`u32` in the code and never grow, so naturals are exact; the saturating counters
and the sequence number would need 2^32 attempts.

### UnrollFrontier, UnrollFrontierProofs

`run_unroll_frontier`, composed with the audit (`Audit == INSTANCE
OptimizationAudit`). A program is, per function, the sequence of its loops in
header order; a `LoopId` is a position in it, so a full unroll
(`Unrolled`) renumbers the loops behind. `SelectLoop` picks the first candidate
whose header was not processed and makes its alternatives `pending`, a set taken in the order
of the factors (`Evaluating`); `Keep`, `TurnDown` and `Discard` are the outcomes of the
checks on the next one; SLP widths found in the unrolled body become
alternatives of their own; `Lose` logs the non-winners; `Publish` is the winner's
transaction. Costs are arbitrary, so any accepted alternative can win. The checks
inside the transaction are those the trial already passed, so a winner can be
published, found exhausted or fail revalidation, and is not rejected. In the
pipeline this frontier runs between Loop SIMD and residual SLP; it is checked apart
from them, because it is the only one that makes loops disappear and the others may
therefore name a loop by its block.

### O3Frontier, SpecializationFrontier, LoopFrontiers, VectorFrontiers, O3Frontiers, O3FrontiersProofs

`O3Frontier` holds what the frontiers share: the program, the audit (an instance of
`OptimizationAudit`), the keys, the order of the stages per consumer (`StagesOf`). A
function is the set of blocks discovery can find something in: the rewrites offered for a
loop, its vector widths, the packs of a block.

| Module | Actions | Code |
|---|---|---|
| `SpecializationFrontier` | `RefuseClone`, `Reuse`, `Clone`, `RegisterBudget` | `run_specialization_frontier` with its two limits and `register_clone_budget` |
| `LoopFrontiers` | `Propose(kind)`, `EndLoops(kind)` | the six frontiers that rewrite one loop a round |
| `VectorFrontiers` | `SelectLoop`, `LeaveScalar`, `AddBodyPacks`, `SelectPacks`, `TurnDown`, `Keep`, `Choose`, `Lose`, `Publish` | `run_loop_simd_frontier`, `run_residual_slp_staging` |
| `O3Frontiers` | all of them | the frontiers of one compile over one program and one audit |

Checkers answer `Unchecked` (anything) inside a transaction that sees a trial first, and
`Checked` (no rejection) when the same deterministic check has passed before. Costs
decide arbitrarily. A pack is its root, its width and whether it covers memory; as in the
code, its key leaves the last one out. `pending` is the list of alternatives still to be
evaluated, as a set taken in the order of `First`: two packs of one key, which the order of the
code does not tell apart either, may come in any order. A committed pack closes its block, and a
function with vector code closes the blocks of all its loops.

### PassPipeline, BuildProofs

`stages` is what is still to run, from `PlanOf(level)` and, once the frontiers are opened,
from `FrontierPlans`; `evidence` is the module with its facts, certificates and records of
eliminated guards; `verified` is `verification_cache`; `state` is the
`KirVerifiedProgramState` of the frontiers.

| Action | Code |
|---|---|
| `Input` | the first validation; an O0 pipeline ends here |
| `Rewrite`, `RewriteCfg`, `Analyse`, `PassFails` | a pass followed by `record_verified_pass` |
| `Eliminate` | `run_check_elimination`: guard out, certificate and record in |
| `Specialize`, `PlanFrontiers`, `RunFrontier` | opening with `verified_program_state_from_pass_cache`, the frontiers, copying the verified program back |
| `PrepareProfile` | `compile_profile_generation_kir` behind an O1 pipeline |

What a pass does to the module, and what it says about having changed it, is arbitrary:
the pass manager trusts neither. A function is what validation can tell of it (`Body`), with
at most one check. `Verdict` skips a function whose body is the snapshot's;
two different functions may have the same body here, so the model skips at least what
the code skips. A frontier may leave any evidence that holds in full, which is what the
transaction guarantees (`OptimizationAudit!ProgramIsVerified`). Identities that run out
while the program is opened are the error "frontier". Which frontiers a target gets is
decided when they are planned.

### OutputTransaction, OutputTransactionProofs

`disk` is the destinations by canonical identity; `staged` and `backup` the two
siblings of each request; `entries` the `backup: Option` and `committed` of each
`PendingOutput`; `phase` and `at` the program counter. The removal of one backup,
each rename and each drop is an action, each may fail once (`Fails`), and
`Crash` ends the process between any two. A conversion of paths to identities is a
function the model has applied already: two requests with one identity are the
duplicates `stage` refuses.

### CacheStore, CacheStoreProofs

One directory (`root` with its generation, since a descriptor may outlive the
directory of that name), entries with contents and durability, one temporary per process, and
`older`, the pairs of names of which the first was used longer ago: the order of the
modification times. A runner opens, loads, compiles on a miss, opens again,
writes each entry (create, sync, rename) and after each enforces the limit (list,
stat, remove, the oldest first by the times it read). A cleaner lists, unlinks what it listed
in any order, removes the root. Entries are keys and
parts of bundles; a body names the build it came from, so that a mixed bundle can be
told from a whole one. `Torn` is a body that does not match its digest: SHA-256 is
taken to be perfect. `Setups` says who takes part, which keys are wanted, and the soft
limit.

Abstracted: `--no-cache` (such a run does not touch the cache); reading and touching an
entry is one step, so are the stats of one eviction; every entry has size one;
recency is set by the rename, not by the write before it; the directory sync after
the rename, on which nothing the code does depends; one cleaner. The unix code is
modelled.

### ProfileCounts, ProfileCollector, ProfileCollectorProofs

`ProfileCounts` is the promise: a counter that saturates, and one published image
of counts and flags. `ProfileCollector` is the runtime: `initState` and
`flushState` are its two once-words, cells wrap modulo `Max + 1`, `AddWraps`,
`MarkOverflowed` and the loop of `Clamp` are separate steps of the thread. A flush
draws a run id, copies the counters, creates a temporary exclusively (a name in use is a
collision, retried), renames without replacing, syncs the directory. The property
`CountsSaturate` says that every behaviour of the collector is one of
`ProfileCounts`, under the mapping that gives a cell the value `Max` from the moment
its addition wrapped.

Abstracted: the histogram buckets (every observation is an addition to some cell),
writing and syncing the temporary (in one step with the rename, since nobody else
reads a temporary), the failure of an unlink after another failure, and spurious failures of the
weak compare-exchange. The host quiesces calls before it flushes
(`docs/reference/cli.md:130`): no flush overlaps an instrumented call, several
flushes do overlap. The linux platform is modelled; darwin and windows have the same steps.

### ProfileMerge, CommandsProofs

The scan (`Listing`, `Refused`), the reads one by one, the refusal of repeated content, and
the additions in the order of the digests. `Appear` and `Remove` are the other processes at
the directory between any two steps. `count`, `flag`, `overflowed` and `incomplete` are the
aggregate; `totals` is a history variable, the sums without saturation. Counter shapes
(scalars, histograms, tables of constants) differ here only in whether their cells share a
saturation flag. A shard is known by its digest. Symbolic links and the limits on bytes are
left out.

### RunCommand, CommandsProofs

`cell` is the atomic `CHILD` (empty, pending, an identifier), `handler` the disposition of
SIGINT, `child` the life of the private child up to `reaped`. Every statement of
the parent that a signal can precede is an action: `Install`, `Spawn`, `Register` (one
swap), `Forward`, `Wait`, `Disarm`, `Restore`. `Interrupt` is a SIGINT for the parent with
the handler as one step, since it runs on the parent's only thread; `InterruptChild` is one
from the terminal for the child. `owed`, `stray` and `sent` are history variables.

### PgoBuild, LanguageServer, Commands, CommandsProofs

`PgoBuild` is `run_native_build_workflow`: it extends `ProfileMerge` (the input is the
private directory) and instantiates `OutputTransaction` with the executable and the
profile. Each step may fail and the command may be killed in each.

`LanguageServer` is the message loop and `WorkspaceState`. A folder, a file and a URI are
numbers in the order of their names; `Canonical` and `ChangeFolders` keep one folder more than
the limit as the code does; `Symbols` reads open documents first and then the folders in order,
until the room for files is used up: the answer is the set of files read, with the text of
each. The limits on directory entries, bytes and results
are left out, as are the answers of requests about one document.

`Commands` is the choice of `ckc` among `run`, `pgo merge`, `pgo build`, `lsp`, `build`
(the pass manager) and `build --cpu multiversion`. A process is one command; the others
stay in their first state.

### Multiversion, BuildProofs

The plan: `turn` is the root of the loop in `build_candidate_bundle`, `trials` the candidates
still to be considered, `growth` is `accepted_growth`, `retained` the accepted variants.
`Candidates` are the profitable tiers and their companions; `Consider` is one turn of the
acceptance loop in the order of coverage; `Selected` ranks by cost as the dispatch plan does.
The program: `slot` is the global of each root, which first holds the resolving
entry. `Call` is the acquiring load and the jump, `Detect` the detection and the chain
of selects, `Publish` the compare-exchange and the jump to its result. `host` is what the processor
supports; a detection may find the baseline instead where `/proc/self/auxv` cannot be read
(dynamic libraries on Linux AArch64; elsewhere it always finds `host`, which the model includes).
`ran` is a history variable.

Tiers are nested, as the closed table of `expected_tiers` has them, so a tier is its rank.
`NativeDispatchCell` (`src/backend/llvm/dispatch.rs`) is the same protocol in Rust, for tests.
Which digests, symbols and explanations a bundle carries, and that the checker derives the
same bundle again, is left out.

## 3. Runs

| Run | Question | Bounds | Result |
|---|---|---|---|
| `optimization_audit` | verified program, rollback, balance, unique keys, all-or-nothing debit | two functions and a clone, three keys, four charges (one malformed), three programs | passes |
| `unroll_frontier` | every loop selected once, keys fresh | two functions; full, opaque, full and partial loops in the one, a partial loop in the other; one SLP width | passes |
| `unroll_siblings` | the same with two loops that unroll fully | one function, two loops | `KeysAreFresh` violated |
| `o3_frontiers` | clone limits and budgets, repeated keys, one winner per block | five entry modules of three functions, two clones; limits 1 and 2; every consumer | passes |
| `slp_packs` | only a broken trial ends a compile | one block with a pack of additions and the same pack with its memory, ample units | `OnlyBrokenTrialsEndTheCompile` violated |
| `checked_profile` | a checked program can be instrumented | two functions, all levels | `CheckedProfilesBuild` violated |
| `commands` | `ckc run`, `pgo merge`, `pgo build`, `lsp`, the pass manager under `build`, multiversion builds and the calls of what they made | two interrupts; seven files, four shards, two-bit cells, two shards at most; two outputs, one failure; three folders, two URIs, one folder and two files kept; two functions; two roots, two threads, three scores, growth for one root | passes |
| `output_transaction` | all or nothing, nothing lost | all lists of one to three outputs over three destinations, present or absent, three failures, a kill | passes |
| `output_discard` | outputs move together | the same with one failure | `OutputsMoveTogether` violated |
| `cache_store` | temporaries owned, whole hits, complete entries, limit, every process ends | two runners; with a cleaner over two objects, limit one; without one over two versions of a bundle of two parts that share one, limit two; one damaged entry | passes |
| `profile_collector` | refinement of the counts, one shard and one status, no leftovers, calls return | two threads, two cells of two bits, two scripts, two run ids, two attempts, one flush per thread, two failing operations | passes |
| `profile_collision` | collisions retry | the same without failing operations | `CollisionsRetry` violated |

Why the bounds are enough.

* Audit and unrolling. No action counts beyond the log, whose
  length the keys bound; three keys are what it takes to exhaust a shared budget after
  an accepted and a rejected attempt. Two loops that disappear, a loop
  that is never a candidate between them, one behind that takes the place of the second,
  and a second function show every shift of an id.
* O3 frontiers. The limits are 3 and 24 in the code and `PerOriginal = 1`, `PerModule = 2`
  here: five calls reach both, with a reuse in between. Budgets of 13 and 5 proposer units
  and 9 checker units let a function run out in the middle of a race and another one not.
  Each entry module is for the frontiers it has candidates for; each consumer occurs.
* Pass manager. Two functions, so that one changes while the other stays unchecked;
  every level and every frontier plan, with every body of a function at every stage.
* Outputs: one before, at and after the one
  that fails; three failures are one in the commit, one in the rollback and one in the
  drop.
* Cache: two runners and a cleaner are each role once and writers twice; a
  limit below the size of a bundle makes every store evict.
* Profiles: two bits let one addition wrap while another thread has still to clamp the same
  cell, and two attempts are a retry and an exhaustion. The shards of the merge are two
  runs, a second shard of one of them, one of another module and a damaged file; their
  sums overflow a cell alone and in a table.
* `ckc run`: two interrupts are one before and one after any step of the parent.
* Multiversion: with three scores a tier pays, is better but not by enough and
  accompanies one that pays, or is worse than the baseline, in every combination of the two
  tiers; growth for one root makes the budget refuse the other; two threads race for a slot
  with different detections, before and after the other one returned.
* Language server: three folders are one more than the server keeps (`MaxRoots = 1` and
  the one behind it), with a file below two of them; two files of room are filled by open
  documents, by the disk or by both.

`MaxFaults`, `MaxDamage`, `MaxFlushes`, `MaxInterrupts`, `MaxRoots`, `MaxFiles`,
`MaxShards`, `Max`, `PerOriginal`, `PerModule` and `MaxAttempts` name the bounds;
`MaxAttempts` is 16 in the code, `MaxRoots` 16, `MaxFiles` 512, `Max` 2^64 - 1.

`CHECK_DEADLOCK FALSE` everywhere: pipelines, commands, processes and hosts come to
an end. In `optimization_audit` the keys are symmetric: nothing orders them there.

Fairness. `CacheStore` assumes that the operating system runs every process that
can take a step (weak fairness of each process), `ProfileCollector` that it runs
every thread that is inside a call, `Commands` that it runs the parent of `ckc run` and
that a child that was sent SIGINT, which it does not catch, ends. Nobody is obliged to
start a call, to send a signal, to kill or to fail.
The other modules state safety only: they are loops over finite lists, whose end is
no question of scheduling.

## 4. What the violations show

* `unroll_siblings`. Keys name loops by position. After the first of two sibling
  loops of exact trip count at most eight unrolled fully, the second has its
  position and thus its key, and the duplicate ends the compile
  (`src/optimizer/kir_pipeline.rs:2509`). The documentation promises stable
  candidate keys (`docs/compiler/optimizer.md:166`).
* `slp_packs`. Arithmetic packs and memory packs of one root and width have one key, so that
  a block which loads, adds twice and stores ends the compile
  (`src/optimizer/analysis/slp.rs:270`), where `tests/optimizer/slp.rs:389` expects the best
  pack to be committed.
* `checked_profile`. The O1 artifact reaches the instrumentation without the records
  of its eliminated guards (`src/cli/commands.rs:1682`), so that a checked program from which one
  guard was proved away cannot be built with profile generation, which the usage text
  offers (`src/cli/args.rs:536`).
* `output_discard`. A backup that cannot be removed after all outputs were replaced
  returns an error without a rollback; the drop then restores the later
  outputs only (`src/cli/output.rs:247`), against `docs/reference/cli.md:121`.
* `profile_collision`. A completed shard of the drawn name is a directory error, not
  a collision that retries (`native/profile_runtime/platform/linux.c:233`), against
  `docs/abi/llvm.md:85`.

Observed while modelling, without a run:

* The documentation says that a rejected
  attempt leaves the audit state unchanged (`docs/compiler/optimizer.md:165`) and the
  code keeps the debit, as `LedgerBalance` states.
* A pack that Loop SIMD audited returns in residual SLP when the winner of its loop was refused
  for lack of units, and its repeated key ends the compile; `OnlyExhaustedPacksReturn`
  states that this is the only way.
* The number of clones of a function is taken by the prefix `__ck_spec_{name}_f{idx}_`,
  which can be the prefix of another function's clones.
* Loop analyses from before LICM are reused by induction simplification, and
  candidates found before later passes decide whether the vector frontiers are only recorded
  (`src/optimizer/kir_pipeline.rs:808`, `:882`): a candidate can be missed, nothing
  unverified can be accepted.
* `late_layout_plan_for_optimized_kir` falls back to the default layout where
  `compile_profile_generation_kir` fails (raw validation of an artifact without its records).
* `update_roots` (`src/cli/lsp/workspace.rs:201`) drops folders beyond the limit without
  a mark, `symbols` stops before the next folder without one when the files fill
  the room exactly, and open documents too large to analyse are left out without one;
  `OmissionIsReportedBelowLimits` is stated below these limits.
* `ckc run` replaces an inherited "ignore", so that its child has the default
  disposition; between the return of `wait` and the drop of the guard a
  kill can go to a reaped identifier, which `StrayOnlyBeforeDisarm` confines to that window.
* A flush whose directory sync fails reports 43 although its shard is in place; a flush after a
  failed allocation returns 42 to the call that initialized and 41 to later ones.
* Every multiversion plan starts with `shared_growth_consumed: 0` (`src/cli/commands.rs:581`,
  `:1216`), although the field is documented as "Growth already consumed by earlier O3
  specialization/transaction work" (`src/optimizer/multiversion.rs:28`): the growth of the
  O3 frontiers and that of the variants are limited one by one.
* The aggregate growth ceiling of O3 (`docs/compiler/optimizer.md:190`, `:198`) is compared
  with the entry by the checkers of specialization, unrolling and SLP
  (`src/optimizer/specialization_check.rs:391`, `unroll_check.rs:355`, `slp_check.rs:920`);
  peeling, unswitching and interior normalization have limits of their own per function.
* The x86-64 tiers require cx16, lahf-sahf and xsave (`src/ir/kir/multiversion.rs:612`), which
  the detector does not look at; it also takes all cores to be alike, while the Rust
  description of it has an input for the doubt (`heterogeneous_uncertainty`).
* The merge recognizes temporaries by names the runtime does not use
  (`src/profile/merge.rs:243`); `profile/apply.rs:165` marks an exact maximum differently
  from the merge, and is used by tests only.

## 5. Proofs

Eight modules of proofs, each for all values of the constants.

| Module | Theorem | States |
|---|---|---|
| `OptimizationAuditProofs` | `TypeCorrect` | `Spec => []TypeOK` |
| | `AcceptedProgramVerified` | `Spec => []ProgramIsVerified` |
| | `AuditedOnce` | `Spec => []NoKeyTwice` |
| | `RollbackIsTotal` | `Spec => ProgramMovesOnlyByCommit` |
| | `DebitIsAtomic` | `Spec => ExhaustionIsAtomic` |
| | `LedgerBalances` | `Spec => []LedgerBalance` |
| `UnrollFrontierProofs` | `EveryLoopTriedOnceHolds` | `Spec => []EveryLoopTriedOnce` |
| | `KeysAreFreshHolds` | `FullLoopsApart /\ Spec => []KeysAreFresh` |
| | `FrontierImplementsAudit` | `Spec => Audit!Spec` |
| | `FrontierLedgerBalances` | `Spec => []Audit!LedgerBalance` |
| `BuildProofs` | `PassInvariant` | `PassSpec => []PassInv` |
| | `ArtifactIsVerifiedHolds` | `PassSpec => []ArtifactIsVerified` |
| | `OnlyBrokenPassesFailHolds` | `PassSpec => []OnlyBrokenPassesFail` |
| | `MvInvariant` | `MvSpec => []MvInv` |
| | `OneVariantHolds` | `MvSpec => []OneVariantPerRoot` |
| | `BestTierHolds` | `MvSpec => []BestTierForEveryHost` |
| `O3FrontiersProofs` | `CloneInvariant` | `Spec => []CloneInv` |
| | `CloneLimitsHold` | `Spec => []CloneLimits` |
| | `ClonesShareBudgetHolds` | `Spec => []ClonesShareBudget` |
| | `RaceInvariant` | `Spec => []RaceInv` |
| | `CompileTypes` | `Spec => []TypeOK` |
| | `OneWinnerHolds` | `Spec => []OneWinnerPerBlock` |
| | `KeyInvariant` | `DistinctPacks /\ Spec => []KeyInv` |
| | `OnlyExhaustedPacksReturnHolds` | `DistinctPacks /\ Spec => []OnlyExhaustedPacksReturn` |
| | `CompileWorksThroughAudit` | `Spec => [][Audit!Next]_(Audit!vars)` |
| | `CompileLedgerBalances` | `Spec => []Audit!LedgerBalance` |
| | `CompileAuditsOnce` | `Spec => []Audit!NoKeyTwice` |
| `OutputTransactionProofs` | `OutputInvariant` | `Spec => []OutputInv` |
| | `OutputTypes` | `Spec => []TypeOK` |
| | `SuccessIsTotal` | `Spec => []SuccessReplacesAll` |
| | `FailureIsRolledBack` | `Spec => []FailureRestoresAll` |
| | `NothingIsLost` | `Spec => []NothingLost` |
| `ProfileCollectorProofs` | `CollectorInvariant` | `Spec => []CollectorInv` |
| | `CollectorTypes` | `Spec => []TypeOK` |
| | `OneShard` | `Spec => []FlushedOnce` |
| | `NothingLeftBehind` | `Spec => []NoTemporaryStays` |
| | `CollectorImplementsCounts` | `Spec => CountsSaturate` |
| `CacheStoreProofs` | `CacheInvariant` | `Spec => []CacheInv` |
| | `CacheTypes` | `Spec => []TypeOK` |
| | `HitsAreWhole` | `Spec => []HitIsWhole` |
| | `NoTornEntries` | `Spec => []PublishedIsComplete` |
| | `NoStrayTemporaries` | `Spec => []TemporariesAreOwned` |
| | `LimitIsSoft` | `Spec => []WithinSoftLimit` |
| `CommandsProofs` | `RunInvariant`, `NoOrphanHolds` | `RunSpec => []RunInv`, `RunSpec => []NoOrphan` |
| | `StrayWindow` | `RunSpec => StrayOnlyBeforeDisarm` |
| | `MergeCounts`, `MergeIsExact` | `MergeSpec => []CountInv`, `MergeSpec => []UnmarkedIsExact` |
| | `MergeIsComplete` | `MergeSpec => []MergesEveryListedRun` |
| | `PgoInvariant` | `PgoSpec => []PgoInv` |
| | `OutputsFollowTrainingHolds` | `PgoSpec => []OutputsFollowTraining` |
| | `LspInvariant`, `OpenTextHolds` | `LspSpec => []LspInv`, `LspSpec => OpenTextShadowsDisk` |
| | `OmissionHolds` | `LspSpec => []OmissionIsReportedBelowLimits` |
| | `CommandsInvariant`, `CommandsTypes` | `Spec => []CommandsInv`, `Spec => []TypeOK` |
| | `EveryCommandIsSafe` | the nine safety invariants of the components at once |
| | `OpenTextOfCommands` | `Spec => OpenTextShadowsDisk` |
| | `StrayWindowOfCommands` | `Spec => StrayOnlyBeforeDisarm` |

Assumed are the named assumptions on constants, which TLC evaluates on the instances of the
runs, and nothing else:

* `AuditAssumption`: the functions of the module are function identities, charges are charges, the
  entry program is verified, every function has a budget.
* `FrontierAssumption`, `WorkAssumption` of the unroll frontier: at its entry a function has one loop
  of a header (`loops.rs:403-436`) and none is unrolled; SLP widths are at least two; charges and
  budgets are numbers.
* `EntryAssumption`, `WorkAssumption`, `LimitAssumption`: at the O3 entry there is no clone, calls
  are between functions of the module, a function has one block and one call of an identity and
  only loops have vector widths; units and budgets are numbers; every clone within the limits has
  an identity.
* `TransactionAssumption`, `PgoAssumption`: requests are lists of destinations.
* `CollectorAssumption`: the width and the number of attempts are positive, scripts are
  lists of additions, an absent and a foreign shard are no image of counters.
* `CacheAssumption`: runners are no cleaners, a build has a list of parts, names are finitely many
  and those of parts are no keys, a torn body is no build.
* `MergeAssumption`, `RunAssumption`, `ServerAssumption`, `MultiversionAssumption`: types of
  shards, of the bound on signals, of folders, files and limits, of work and scores.

Two theorems have a hypothesis more, which is not an assumption because the code does not
guarantee it. `OnlyExhaustedPacksReturnHolds` has `DistinctPacks`: the packs of a block
differ in root or width when the compile begins; the run `slp_packs` is what happens without it.
`KeysAreFreshHolds` has `FullLoopsApart`: of two neighbouring loops of a function, in header
order, at most one unrolls fully; `unroll_siblings` is what happens without it. The entries of
`o3_frontiers` and `unroll_frontier` satisfy them.

The arguments.

* Audit. `TypeOK` is restated with `owners` a function into
  `Functions0`, which makes it inductive. A debit keeps units natural because the
  preflight looked at every owner (`ChargedOwnersHaveBudgets`,
  `DebitStaysNatural`). That the program is verified is inductive with the types. For
  unique keys every action that appends tests the key first
  (`AppendKeepsKeysUnique`). The two action properties follow from the types of the
  log and the last entry it gains (`LastAfterAppend`).
* The ledger. `Spent` is a recursive sum over the log, and what such a function computes for every
  log would need an induction the provers cannot instantiate. None is needed: `AddsUp` says
  that the running sums of a list of costs exist and all end in one total, a step extends the list by one
  cost (`OneMoreAddsUp`), and the induction over the behaviour is enough. `Ledger` adds that all that
  was charged has an owner, so that a new clone does not change the cost of an old entry
  (`OldCostsStay`).
* Unrolling. Loops are told apart by headers and named by positions. `LoopInv` keeps to headers: they stay
  distinct, whatever was rewritten was tried, every candidate of the entry was tried or is still
  there, and what is raced is one loop that is where its id says it is. `Before` gives the
  place a loop had before a rewrite (`RewriteFacts`, `BeforeFacts`). `KeyInv` is about
  positions: audited keys lie behind every loop still to try (`KeysBehind`), or at the
  place of one if the key is of a full unroll and the loop is not; no two neighbours
  still to try unroll fully (`FullApart`). A full unroll moves the next loop onto
  the place of its keys, which is the exception just named; it makes no new neighbours still
  to try, since all before the raced loop has been (`RacedIsFirst`). Among alternatives of one loop, keys differ by
  factor and width (`KeysApart`).
* Frontiers and audit. Every action of the unroll frontier, and of the nine others, is a step of the
  transaction with a key and a trial of the right type, or leaves program, log, budgets and owners alone.
  The unroll frontier starts where the transaction does and so implements it; `O3Frontiers` begins with one of several entry
  modules and so is shown to take only its steps. The ledger, and the keys of the log, carry over.
* Pass manager. The two properties alone are not inductive: an incremental check is only
  as good as its snapshot. `PassInv` adds that between two passes the snapshot is the evidence and
  holds in full. A pass cannot take a record away, so the record that authorized a missing guard
  in the snapshot still does (`VerdictIsFull`); a transaction can, and validates everything
  (`FullIsAccepted`, `ProgramIsVerified`).
* Clones. `CloneInv` adds to the limits that every function has the owner of its original
  and that the one clone without an owner is the newest. A transaction leaves the program alone
  or swaps in the trial (`TrySwapsOrLeaves`), so that a clone is appended or nothing
  is; what the other frontiers rewrite keeps origins and digests (`SameFunctions`).
* Races. One winner in a block is a statement about the log, and holds for reasons that are
  elsewhere: in the stage, in what is remembered and in the regions of the program. `RaceInv`
  says where each lies. A place with a winner is closed (`VectorsFit`), and stays closed under every
  later rewrite (`VectorizedMoves`); what is raced is of one place, which has not been won
  (`RacedFit`): Loop SIMD takes a loop it has not seen and has seen every place of a vector key in the
  log, residual SLP takes blocks that are not closed. The order of the stages (`StagesFit`) keeps
  Loop SIMD from starting with such keys in the log. What one candidate leaves in the log is proved once
  (`Dropped`, `Tried`, `Published`), from the lemmas of `OptimizationAuditProofs`. A
  compile that is over does nothing (`OverStutters`), so `RaceLives` is claimed of the others
  only.
* Keys that return. `KeyInv` adds for each kind of candidate why its key is fresh: a call is tried once
  (`CallsApart`), a rewrite of a loop is remembered while its frontier runs and belongs to no later
  one (`LoopsTried`), the alternatives of a race differ in their keys (`RacedFresh`). For packs it says
  what became of one that was tried (`PacksTried`): its block is closed, or its function ran out of
  units, or it is of the race under way, or residual SLP remembers it. That a winner
  which is not published ran out of units (`Published`) leaves the one case the property names. A
  rewrite makes no block and no pack that was not there (`Descends`), so that packs which were distinct stay so.
* Outputs. `OutputInv` says for each phase what became of the entries before, at and behind the one its
  loop is at: untouched, backed up, replaced, rolled back or settled. Distinct destinations (`Apart`) make a step on one
  entry leave the others. The three properties are read off the phase that is over.
* Collector. `CollectorInv` ties the place of a thread to its call, keeps calls and flushes apart
  (`Quiesced`), has one thread publish (`OneFlusher`), and makes the image the counters as they are
  until the rename (`ImageFits`): that is why `CountsSaturate` may read the published image
  off the shards. In the mapping a cell is `Max` from the wrapping addition on; every
  step of the runtime is one of `ProfileCounts` or a stutter.
* Cache. `CacheInv` says what a name may hold (`Fits`), what a writer has at each of its places,
  that a reader's parts are a prefix of those of its build, and that torn entries are no more than the environment made.
  The limit needs `WillEvict`: as long as the cache is over its limit somebody who is not killed
  has still to evict, and what he listed covers what is there; a rename by another writer makes that one the
  evictor.
* Merge. `CountInv` says of each cell that its count is the smaller of its total and
  the maximum, and that a lost amount has set the flags; each addition keeps it. Completeness goes
  through `ListInv`: as many contents as entries make the contents distinct
  (`CountingContent`, a surjection between finite sets of one size), and compatible shards
  have distinct runs.
* Interrupts. `RunInv` ties the cell and the handler to the position of the parent and to
  the life of the child; `StrayStep` reads the window off it.
* `pgo build`. `PgoInv` contains `CountInv` and `OutputInv` of the components, as instances with their
  theorems, and adds that no destination has moved before the training counted (`TrainedOnce`).
* Language server. A scan that leaves out a file has as many as there was room for
  (`ScanFillsRoom`); it rests on `RankCut`, that a linear order of a finite set has exactly n members with fewer than n
  below them.
* Composition. `CommandsInv` conjoins the invariants. A step is one of a single command and leaves the
  variables of the others alone; `pgo build` shares the merge (`PgoMerges`).
* Multiversion. The best tier is not inductive while a root is half considered. `PlanInv` says that
  the first candidate decides for all (`FirstDecides`): it pays for the body, the others ride
  with it, so a root ends with all candidates or none. All candidates suffice
  (`CandidatesSuffice`): a tier that is none is worse than the baseline, or than a
  profitable tier below it. `CallInv` says that a pointer in a slot and the selection of
  a thread about to publish fit processor and plan, and that what ran is what the slot holds;
  a slot never changes again after the compare-exchange (`RunPreserves`).

Model-checked only. The liveness properties (`EveryProcessEnds`, `CallsReturn`,
`InterruptReachesChild`), which are beyond the provers, and what the runs with a violation
refute. Every other property of a passing run is stated by a theorem.

## 6. Not modelled

Path canonicalization, permissions, wire formats, names of files, formatting and
diagnostics; non-unix variants; the bits of CPUID and of the auxiliary vector.

The largest part of the source by lines is not modelled for one reason. The front end, the
construction and printing of MIR and KIR, the transforms, analyses and checkers of the optimizer and the
three backends are pure syntactic functions over a program representation with hundreds of
cases. They keep no state between calls, nothing interleaves with them, and what could be said
of them is their functional correctness over programs, for which a small instance is no
evidence and which would be a second implementation of the language. The modules here
take their results to be arbitrary (programs, trials, verdicts, costs): that is what the pass manager, the
transaction and the frontiers have to withstand, and it makes what is shown of these
independent of the transforms. For the same reason no component is modelled in full: each
has wire formats, path handling or messages that are left out, as its note in
`PROJECT.json` says.

## 7. Plan

1. Done: `OptimizationAudit`, `UnrollFrontier`, the O3 frontiers over one audit,
   `PassPipeline`, `OutputTransaction`, `CacheStore`, `ProfileCollector` with the abstract
   `ProfileCounts`, `ProfileMerge`, `RunCommand`, `PgoBuild`, `LanguageServer`, `Multiversion`, `Commands`;
   the proofs of section 5.
2. `UnrollFrontier` between the two vector frontiers, with loops named by position in all of
   them; identities that a commit frees and a later transform hands out again.
