--------------------------- MODULE CommandsProofs ---------------------------
(***************************************************************************)
(* What the commands guarantee: `ckc run` for any number of interrupts,     *)
(* `pgo merge` for any shards, any bound of a counter and any directory,    *)
(* `pgo build` with the merge and the output transaction inside it, `lsp`   *)
(* for any workspace, and each of them, and builds, as the one command a    *)
(* process is.                                                              *)
(***************************************************************************)
EXTENDS Commands, BuildProofs, FiniteSetTheorems, TLAPS

\* What is proved of the output transaction.
OutputProofs == INSTANCE OutputTransactionProofs

-----------------------------------------------------------------------------
(* ckc run.  The invariant says, for each place of the parent, which child  *)
(* it may have, that the handler is in place while there is one, and where  *)
(* the cell may still hold the identifier of a child.                       *)

Watching == {"spawn", "register", "forward", "wait", "disarm", "restore"}

\* The child that goes with each place of the parent.
ChildFits ==
    /\ parent \in {"install", "spawn"} => child = "none"
    /\ parent \in {"register", "forward", "wait"} => child \in {"running", "zombie"}
    /\ parent \in {"disarm", "restore", "exit", "killed"} => child \in {"none", "reaped"}

HandlerFits == parent \in Watching => handler = "forward"

CellFits == parent \in {"install", "spawn", "register", "restore"} => cell # "pid"

RunInv == RunTypeOK /\ ChildFits /\ HandlerFits /\ CellFits

USE DEF signals, Parent

\* The initial states satisfy the invariant (run.rs:28).
LEMMA RunInvInit == RunInit => RunInv
<1> SUFFICES ASSUME RunInit PROVE RunInv
  OBVIOUS
<1> USE DEF RunInit
<1>1. sent \in 0 .. MaxInterrupts
  BY RunAssumption
<1>2. RunTypeOK
  BY <1>1 DEF RunTypeOK, CELL
<1>3. ChildFits /\ HandlerFits /\ CellFits
  BY DEF ChildFits, HandlerFits, CellFits, Watching
<1> QED
  BY <1>2, <1>3 DEF RunInv

\* Every step of the parent preserves it: install to drop of the guard.
LEMMA ParentPreserves == RunInv /\ ParentStep => RunInv'
<1> SUFFICES ASSUME RunInv, ParentStep PROVE RunInv'
  OBVIOUS
<1> USE DEF RunInv, RunTypeOK, ChildFits, HandlerFits, CellFits, Watching, CELL
<1>1. CASE Install
  BY <1>1 DEF Install
<1>2. CASE InstallFails
  BY <1>2 DEF InstallFails
<1>3. CASE SpawnFails
  BY <1>3 DEF SpawnFails
<1>4. CASE Spawn
  BY <1>4 DEF Spawn
<1>5. CASE Register
  BY <1>5 DEF Register
<1>6. CASE Forward
  BY <1>6 DEF Forward, Kill
<1>7. CASE Wait
  BY <1>7 DEF Wait
<1>8. CASE Disarm
  BY <1>8 DEF Disarm
<1>9. CASE Restore
  BY <1>9 DEF Restore
<1> QED
  BY <1>1, <1>2, <1>3, <1>4, <1>5, <1>6, <1>7, <1>8, <1>9 DEF ParentStep

\* So does every interrupt, wherever it finds the parent: forward_interrupt.
LEMMA InterruptPreserves == RunInv /\ (Interrupt \/ InterruptChild) => RunInv'
<1> SUFFICES ASSUME RunInv, Interrupt \/ InterruptChild PROVE RunInv'
  OBVIOUS
<1> USE DEF RunInv, RunTypeOK, ChildFits, HandlerFits, CellFits, Watching, CELL
<1>1. ASSUME InterruptChild PROVE RunInv'
  BY <1>1, RunAssumption DEF InterruptChild
<1>2. ASSUME Interrupt, Handle PROVE RunInv'
  <2> USE <1>2 DEF Interrupt, Handle, Kill
  <2>1. sent' \in 0 .. MaxInterrupts
    BY RunAssumption
  <2>2. signalled' \in BOOLEAN /\ owed' \in BOOLEAN /\ stray' \in BOOLEAN
    OBVIOUS
  <2>3. cell' \in CELL
    OBVIOUS
  <2>4. ChildFits' /\ HandlerFits' /\ CellFits'
    OBVIOUS
  <2> QED
    BY <2>1, <2>2, <2>3, <2>4
<1>3. ASSUME Interrupt, NotHandled PROVE RunInv'
  BY <1>3, RunAssumption DEF Interrupt, NotHandled
<1> QED
  BY <1>1, <1>2, <1>3 DEF Interrupt

\* So does the end of the child.
LEMMA ChildPreserves ==
    RunInv /\ ((\E code \in {"success", "failure"} : ChildExits(code)) \/ ChildDies) => RunInv'
BY DEF RunInv, RunTypeOK, ChildFits, HandlerFits, CellFits, Watching, CELL,
       ChildExits, ChildDies

\* The invariant is inductive.
LEMMA RunInvStep == RunInv /\ [RunNext]_runVars => RunInv'
<1> SUFFICES ASSUME RunInv, [RunNext]_runVars PROVE RunInv'
  OBVIOUS
<1>1. CASE UNCHANGED runVars
  BY <1>1 DEF runVars, RunInv, RunTypeOK, ChildFits, HandlerFits, CellFits
<1>2. CASE RunNext
  BY <1>2, ParentPreserves, InterruptPreserves, ChildPreserves DEF RunNext
<1> QED
  BY <1>1, <1>2

\* Every behaviour of `ckc run` satisfies the invariant.
THEOREM RunInvariant == RunSpec => []RunInv
BY RunInvInit, RunInvStep, PTL DEF RunSpec

\* Where the parent may be killed there is no child.
LEMMA RunInvSafe == RunInv => NoOrphan
BY DEF RunInv, ChildFits, NoOrphan

\* The parent never dies of SIGINT while a child it started is not reaped.
THEOREM NoOrphanHolds == RunSpec => []NoOrphan
BY RunInvSafe, RunInvariant, PTL

\* A step that aims a kill at a reaped identifier starts between the return of
\* wait and the drop of the guard.
LEMMA StrayStep ==
    ASSUME RunInv, RunNext, stray' # stray
    PROVE  parent = "disarm"
<1> USE DEF RunInv, RunTypeOK, ChildFits, HandlerFits, CellFits, Watching
<1>1. CASE ParentStep
  BY <1>1 DEF ParentStep, Install, InstallFails, SpawnFails, Spawn, Register,
              Forward, Wait, Disarm, Restore, Kill
<1>2. CASE Interrupt
  BY <1>2 DEF Interrupt, Handle, NotHandled, Kill
<1> QED
  BY <1>1, <1>2 DEF RunNext, ChildExits, ChildDies, InterruptChild

\* The window in which an interrupt may reach a foreign process is the one
\* between wait and drop, and no other (run.rs:47-50).
THEOREM StrayWindow == RunSpec => StrayOnlyBeforeDisarm
<1>1. RunInv /\ [RunNext]_runVars => [stray' # stray => parent = "disarm"]_runVars
  BY StrayStep
<1> QED
  BY <1>1, RunInvariant, PTL DEF RunSpec, StrayOnlyBeforeDisarm

-----------------------------------------------------------------------------
(* pgo merge: what is not marked is exact, and a successful merge adds every *)
(* listed run once.                                                          *)

\* An aggregate is the sum cut off at Max; what was cut off is marked.
Saturating ==
    \A c \in Cells :
        /\ count[c] = IF totals[c] <= Max THEN totals[c] ELSE Max
        /\ totals[c] > Max => overflowed
        /\ totals[c] > Max /\ c \notin Scalars => flag[TableOf[c]]

\* What was read are shards.
ReadShards == Content \subseteq Digests

CountInv == MergeTypeOK /\ ReadShards /\ Saturating

USE DEF files, aggregate, Broken

\* The initial aggregate is zero and nothing is marked (merge.rs:57).
LEMMA CountInvInit == MergeInit => CountInv
<1> SUFFICES ASSUME MergeInit PROVE CountInv
  OBVIOUS
<1> USE DEF MergeInit
<1>1. count \in [Cells -> 0 .. Max] /\ totals \in [Cells -> Nat]
  BY MergeAssumption
<1>2. flag \in [Tables -> BOOLEAN]
  OBVIOUS
<1>3. MergeTypeOK
  BY <1>1, <1>2 DEF MergeTypeOK
<1>4. ReadShards
  BY DEF ReadShards, Content
<1>5. Saturating
  BY MergeAssumption DEF Saturating
<1> QED
  BY <1>3, <1>4, <1>5 DEF CountInv

\* Steps that leave the aggregate and what was read alone.
LEMMA CountInvFrame ==
    ASSUME CountInv, UNCHANGED <<loaded, aggregate>>, MergeTypeOK'
    PROVE  CountInv'
BY DEF CountInv, ReadShards, Saturating, Content

\* Adding a shard to an aggregate cut off at Max: add_counter.
LEMMA AddCell ==
    ASSUME NEW t \in Nat, NEW x \in 0 .. Max, NEW old \in Nat,
           old = (IF t <= Max THEN t ELSE Max)
    PROVE  /\ (IF x > Max - old THEN Max ELSE old + x)
                = (IF t + x <= Max THEN t + x ELSE Max)
           /\ (IF x > Max - old THEN Max ELSE old + x) \in 0 .. Max
           /\ t + x \in Nat
           /\ t + x > Max => t > Max \/ x > Max - old
BY MergeAssumption

\* One shard more: merge_profile_shards.
LEMMA AddPreserves == ASSUME CountInv, NEW d \in Content, Add(d) PROVE CountInv'
<1> USE MergeAssumption
<1> DEFINE s == Shards[d]
<1>1. d \in Digests /\ s \in Shard
  BY DEF CountInv, ReadShards
<1>2. /\ s.count \in [Cells -> 0 .. Max] /\ s.flag \in [Tables -> BOOLEAN]
      /\ s.overflowed \in BOOLEAN /\ s.incomplete \in BOOLEAN
  BY <1>1 DEF Shard
<1> HIDE DEF s
<1>3. /\ count' = [c \in Cells |->
                     IF s.count[c] > Max - count[c] THEN Max ELSE count[c] + s.count[c]]
      /\ flag' = [t \in Tables |->
                     \/ flag[t] \/ s.flag[t]
                     \/ \E c \in Cells : TableOf[c] = t /\ s.count[c] > Max - count[c]]
      /\ overflowed' = (\/ overflowed \/ s.overflowed \/ IsSaturated(s)
                        \/ \E c \in Cells : s.count[c] > Max - count[c])
      /\ incomplete' = (incomplete \/ s.incomplete)
      /\ totals' = [c \in Cells |-> totals[c] + s.count[c]]
      /\ merged' = merged \cup {d}
      /\ UNCHANGED <<files, inputs, pc, next, listed, loaded>>
  BY DEF Add, Overflows, s
<1>4. ASSUME NEW c \in Cells
      PROVE  /\ count'[c] = (IF totals'[c] <= Max THEN totals'[c] ELSE Max)
             /\ count'[c] \in 0 .. Max /\ totals'[c] \in Nat
             /\ totals'[c] > Max => totals[c] > Max \/ s.count[c] > Max - count[c]
  <2>1. /\ totals[c] \in Nat /\ s.count[c] \in 0 .. Max /\ count[c] \in Nat
        /\ count[c] = (IF totals[c] <= Max THEN totals[c] ELSE Max)
    BY <1>2 DEF CountInv, MergeTypeOK, Saturating
  <2>2. /\ count'[c] = (IF s.count[c] > Max - count[c] THEN Max ELSE count[c] + s.count[c])
        /\ totals'[c] = totals[c] + s.count[c]
    BY <1>3
  <2> QED
    BY <2>1, <2>2, AddCell
<1>5. MergeTypeOK'
  <2>1. count' \in [Cells -> 0 .. Max] /\ totals' \in [Cells -> Nat]
    BY <1>3, <1>4
  <2>2. flag' \in [Tables -> BOOLEAN]
    BY <1>3
  <2>3. overflowed' \in BOOLEAN /\ incomplete' \in BOOLEAN
    BY <1>3
  <2>4. merged' \subseteq Digests
    BY <1>1, <1>3 DEF CountInv, MergeTypeOK
  <2> QED
    BY <1>3, <2>1, <2>2, <2>3, <2>4 DEF CountInv, MergeTypeOK
<1>6. ReadShards'
  BY <1>3 DEF CountInv, ReadShards, Content
<1>7. Saturating'
  <2> SUFFICES ASSUME NEW c \in Cells
               PROVE  /\ totals'[c] > Max => overflowed'
                      /\ totals'[c] > Max /\ c \notin Scalars => flag'[TableOf[c]]
    BY <1>4 DEF Saturating
  <2>1. totals'[c] > Max => overflowed'
    BY <1>3, <1>4 DEF CountInv, Saturating
  <2>2. ASSUME totals'[c] > Max, c \notin Scalars PROVE flag'[TableOf[c]]
    <3>1. TableOf[c] \in Tables
      BY <2>2 DEF Scalars
    <3>2. flag[TableOf[c]] \/ s.count[c] > Max - count[c]
      BY <2>2, <1>4 DEF CountInv, Saturating
    <3> QED
      BY <3>1, <3>2, <1>3
  <2> QED
    BY <2>1, <2>2
<1> QED
  BY <1>5, <1>6, <1>7 DEF CountInv

\* A shard read is a file of the directory that parses: read_shard.
LEMMA ReadPreserves == ASSUME CountInv, NEW entry \in listed, Read(entry) PROVE CountInv'
<1>1. MergeTypeOK' /\ Saturating'
  BY DEF CountInv, MergeTypeOK, Saturating, Read
<1>2. Holds[entry[2]] \in Digests
  BY MergeAssumption DEF CountInv, MergeTypeOK, Read
<1>3. Content' = Content \cup {Holds[entry[2]]}
  BY DEF Content, Read
<1> QED
  BY <1>1, <1>2, <1>3 DEF CountInv, ReadShards

\* The invariant is inductive.
LEMMA CountInvStep == CountInv /\ [MergeNext]_mergeVars => CountInv'
<1> SUFFICES ASSUME CountInv, [MergeNext]_mergeVars PROVE CountInv'
  OBVIOUS
<1>1. CASE UNCHANGED mergeVars
  BY <1>1, CountInvFrame DEF mergeVars, CountInv, MergeTypeOK
<1>2. CASE Scan \/ BeginRead \/ BeginMerge \/ Finish
  BY <1>2, CountInvFrame
     DEF Scan, BeginRead, BeginMerge, Finish, CountInv, MergeTypeOK
<1>3. CASE ScanFails \/ NothingToRead \/ EmptyOrRepeated
  BY <1>3, CountInvFrame
     DEF ScanFails, NothingToRead, EmptyOrRepeated, Fail, CountInv, MergeTypeOK
<1>4. ASSUME NEW entry \in listed, Read(entry) PROVE CountInv'
  BY <1>4, ReadPreserves
<1>5. ASSUME NEW entry \in listed, ReadFails(entry) PROVE CountInv'
  BY <1>5, CountInvFrame DEF ReadFails, Fail, CountInv, MergeTypeOK
<1>6. ASSUME NEW d \in Content, Add(d) PROVE CountInv'
  BY <1>6, AddPreserves
<1>7. ASSUME NEW d \in Content, AddFails(d) PROVE CountInv'
  BY <1>7, CountInvFrame DEF AddFails, Fail, CountInv, MergeTypeOK
<1>8. ASSUME NEW f \in Files, Appear(f) \/ Remove(f) PROVE CountInv'
  BY <1>8, CountInvFrame DEF Appear, Remove, CountInv, MergeTypeOK
<1> QED
  BY <1>1, <1>2, <1>3, <1>4, <1>5, <1>6, <1>7, <1>8
     DEF MergeNext, MergeStep, Environment

\* The types hold and every aggregate is its sum cut off at Max, in every
\* behaviour of a merge.
THEOREM MergeCounts == MergeSpec => []CountInv
BY CountInvInit, CountInvStep, PTL DEF MergeSpec

\* What is cut off at Max is exact below it.
LEMMA CountInvExact == CountInv => UnmarkedIsExact
<1> SUFFICES ASSUME CountInv, NEW c \in Cells
             PROVE  /\ Unsaturated(c) => count[c] = totals[c]
                    /\ count[c] # totals[c] => overflowed
  BY DEF UnmarkedIsExact
<1>1. totals[c] \in Nat /\ count[c] \in 0 .. Max /\ Max \in Nat
  BY MergeAssumption DEF CountInv, MergeTypeOK
<1>2. totals[c] <= Max => count[c] = totals[c]
  BY <1>1 DEF CountInv, Saturating
<1>3. totals[c] > Max => overflowed /\ ~Unsaturated(c)
  BY <1>1 DEF CountInv, Saturating, Unsaturated
<1> QED
  BY <1>1, <1>2, <1>3

\* What is not marked as saturated is exact, and what is too low marks the
\* whole profile, for any shards and any bound of a counter.
THEOREM MergeIsExact == MergeSpec => []UnmarkedIsExact
BY CountInvExact, MergeCounts, PTL

-----------------------------------------------------------------------------
(* Every listed run, once. *)

DistinctContent ==
    \A p, q \in loaded : p # q => Holds[p[2]] # Holds[q[2]]

DistinctRuns ==
    \A d, e \in merged : d # e => Shards[d].run # Shards[e].run

\* Once everything is read the list does not change, and no content of it
\* occurs twice; the runs added up so far differ.
ListInv ==
    /\ IsFiniteSet(loaded)
    /\ pc \in {"merge", "ok"} => loaded = listed /\ DistinctContent
    /\ DistinctRuns
    /\ pc = "ok" => merged = Content

\* As many contents as entries: no two entries hold the same content.
LEMMA CountingContent ==
    ASSUME IsFiniteSet(loaded), Cardinality(Content) = Cardinality(loaded)
    PROVE  DistinctContent
<1> DEFINE holds == [entry \in loaded |-> Holds[entry[2]]]
<1>1. holds \in Surjection(loaded, Content)
  BY DEF Surjection, Content
<1>2. holds \in Injection(loaded, Content)
  BY <1>1, FS_Surjection
<1> QED
  BY <1>2 DEF Injection, IsInjective, DistinctContent

\* Initially nothing is listed, read or merged.
LEMMA ListInvInit == MergeInit => ListInv
BY FS_EmptySet DEF MergeInit, ListInv, DistinctRuns

\* The invariant is inductive.
LEMMA ListInvStep == ListInv /\ [MergeNext]_mergeVars => ListInv'
<1> SUFFICES ASSUME ListInv, [MergeNext]_mergeVars PROVE ListInv'
  OBVIOUS
<1> USE DEF ListInv, DistinctRuns, DistinctContent, Content
<1>1. CASE UNCHANGED mergeVars
  BY <1>1 DEF mergeVars
<1>2. CASE Scan \/ BeginRead
  BY <1>2 DEF Scan, BeginRead
<1>3. CASE ScanFails \/ NothingToRead \/ EmptyOrRepeated
  BY <1>3 DEF ScanFails, NothingToRead, EmptyOrRepeated, Fail
<1>4. ASSUME NEW entry \in listed, Read(entry) PROVE ListInv'
  BY <1>4, FS_AddElement DEF Read
<1>5. ASSUME NEW entry \in listed, ReadFails(entry) PROVE ListInv'
  BY <1>5 DEF ReadFails, Fail
<1>6. CASE BeginMerge
  <2>1. DistinctContent
    BY <1>6, CountingContent DEF BeginMerge
  <2> QED
    BY <1>6, <2>1 DEF BeginMerge
<1>7. ASSUME NEW d \in Content, Add(d) PROVE ListInv'
  <2>1. /\ pc = "merge" /\ merged' = merged \cup {d}
        /\ \A e \in merged : Shards[e].run # Shards[d].run
        /\ UNCHANGED <<pc, listed, loaded>>
    BY <1>7 DEF Add, Compatible
  <2> QED
    BY <2>1
<1>8. ASSUME NEW d \in Content, AddFails(d) PROVE ListInv'
  BY <1>8 DEF AddFails, Fail
<1>9. CASE Finish
  BY <1>9 DEF Finish
<1>10. ASSUME NEW f \in Files, Appear(f) \/ Remove(f) PROVE ListInv'
  BY <1>10 DEF Appear, Remove
<1> QED
  BY <1>1, <1>2, <1>3, <1>4, <1>5, <1>6, <1>7, <1>8, <1>9, <1>10
     DEF MergeNext, MergeStep, Environment

\* What was merged at the end is what was listed.
LEMMA ListInvComplete == ListInv => MergesEveryListedRun
<1> SUFFICES ASSUME ListInv, pc = "ok"
             PROVE  /\ merged = {Holds[entry[2]] : entry \in listed}
                    /\ \A p, q \in listed :
                          p # q => Shards[Holds[p[2]]].run # Shards[Holds[q[2]]].run
  BY DEF MergesEveryListedRun
<1>1. loaded = listed /\ DistinctContent /\ DistinctRuns /\ merged = Content
  BY DEF ListInv
<1>2. \A p \in listed : Holds[p[2]] \in merged
  BY <1>1 DEF Content
<1> QED
  BY <1>1, <1>2 DEF Content, DistinctContent, DistinctRuns

\* A merge that succeeds adds every shard that was complete when its directory
\* was listed, each one run, each once, for any inputs and any directory.
THEOREM MergeIsComplete == MergeSpec => []MergesEveryListedRun
BY ListInvComplete, ListInvInit, ListInvStep, PTL DEF MergeSpec

-----------------------------------------------------------------------------
(* pgo build.  The outputs are as they were found until the training run     *)
(* succeeded and its one shard was merged; from there on what the output     *)
(* transaction guarantees is what the command returns.                       *)

\* The transaction of PgoBuild and the one proved about are the same.
LEMMA SameCardinality == Output!Cardinality(failures) = OutputProofs!Cardinality(failures)
BY Zenon DEF Output!Cardinality, OutputProofs!Cardinality

LEMMA SameTransaction ==
    /\ Output!Init <=> OutputProofs!Init
    /\ Output!Next <=> OutputProofs!Next
    /\ Output!Crash <=> OutputProofs!Crash
<1> USE SameCardinality
    DEF Output!Fails, OutputProofs!Fails, Output!Duplicate, OutputProofs!Duplicate,
        Output!Dest, OutputProofs!Dest, Output!files, OutputProofs!files,
        Output!Absent, OutputProofs!Absent, Output!Old, OutputProofs!Old
<1>1. Output!Init <=> OutputProofs!Init
  BY DEF Output!Init, OutputProofs!Init
<1>2. /\ Output!Stage <=> OutputProofs!Stage
      /\ Output!StageFails <=> OutputProofs!StageFails
      /\ Output!BeginCommit <=> OutputProofs!BeginCommit
  BY DEF Output!Stage, OutputProofs!Stage, Output!StageFails, OutputProofs!StageFails,
         Output!BeginCommit, OutputProofs!BeginCommit
<1>3. /\ Output!Check <=> OutputProofs!Check
      /\ Output!Backup <=> OutputProofs!Backup
      /\ Output!Replace <=> OutputProofs!Replace
  BY DEF Output!Check, OutputProofs!Check, Output!Backup, OutputProofs!Backup,
         Output!Replace, OutputProofs!Replace
<1>4. /\ Output!CommitFails <=> OutputProofs!CommitFails
      /\ Output!BeginDiscard <=> OutputProofs!BeginDiscard
      /\ Output!Discard <=> OutputProofs!Discard
      /\ Output!EndCommit <=> OutputProofs!EndCommit
  BY DEF Output!CommitFails, OutputProofs!CommitFails, Output!RollBack, OutputProofs!RollBack,
         Output!BeginDiscard, OutputProofs!BeginDiscard, Output!Discard, OutputProofs!Discard,
         Output!EndCommit, OutputProofs!EndCommit
<1>5. /\ Output!RemoveNew <=> OutputProofs!RemoveNew
      /\ Output!Restore <=> OutputProofs!Restore
      /\ Output!EndRollback <=> OutputProofs!EndRollback
  BY DEF Output!RemoveNew, OutputProofs!RemoveNew, Output!Restore, OutputProofs!Restore,
         Output!EndRollback, OutputProofs!EndRollback
<1>6. /\ Output!DropStage <=> OutputProofs!DropStage
      /\ Output!DropBackup <=> OutputProofs!DropBackup
      /\ Output!EndDrop <=> OutputProofs!EndDrop
  BY DEF Output!DropStage, OutputProofs!DropStage, Output!DropBackup, OutputProofs!DropBackup,
         Output!EndDrop, OutputProofs!EndDrop
<1>7. Output!Crash <=> OutputProofs!Crash
  BY DEF Output!Crash, OutputProofs!Crash
<1> HIDE SameCardinality
    DEF Output!Fails, OutputProofs!Fails, Output!Duplicate, OutputProofs!Duplicate,
        Output!Dest, OutputProofs!Dest, Output!files, OutputProofs!files,
        Output!Absent, OutputProofs!Absent, Output!Old, OutputProofs!Old
<1> QED
  BY <1>1, <1>2, <1>3, <1>4, <1>5, <1>6, <1>7 DEF Output!Next, OutputProofs!Next

\* The aggregate of one shard is that shard's.
OneShardCounts ==
    /\ IsFiniteSet(merged)
    /\ merged = {} => count = [c \in Cells |-> 0]
    /\ \A d \in merged : merged = {d} => count = Shards[d].count

\* The training run counted.
TrainedOnce == training = "success" /\ \E d \in merged : merged = {d}

Returned == step \in {"drop", "exit"}

PgoInv ==
    /\ step \in {"create", "generate", "train", "merge", "rebuild", "commit", "drop", "exit", "killed"}
    /\ root \in BOOLEAN
    /\ training \in {"none", "running", "success", "failure", "abnormal"}
    /\ outcome \in {"none", "ok", "error"}
    /\ CountInv /\ OneShardCounts /\ OutputProofs!OutputInv
    /\ step \in {"create", "generate", "train", "merge", "rebuild"} =>
          disk = entry0 /\ outcome = "none"
    /\ step = "merge" => training = "success"
    /\ step \in {"rebuild", "commit"} => TrainedOnce
    /\ disk # entry0 => TrainedOnce
    /\ Returned /\ outcome = "ok" => phase = "ended" /\ result = "ok"
    /\ Returned /\ outcome = "error" => disk = entry0 \/ (phase = "ended" /\ result = "error")

USE DEF outputVars

\* The first shard makes the aggregate its own (merge.rs).
LEMMA OneShardStep ==
    CountInv /\ OneShardCounts /\ [MergeNext]_mergeVars => OneShardCounts'
<1> SUFFICES ASSUME CountInv, OneShardCounts, [MergeNext]_mergeVars PROVE OneShardCounts'
  OBVIOUS
<1>1. CASE UNCHANGED <<merged, count>>
  BY <1>1 DEF OneShardCounts
<1>2. ASSUME NEW d \in Content, Add(d) PROVE OneShardCounts'
  <2>1. d \in Digests /\ d \notin merged /\ merged' = merged \cup {d}
    BY <1>2 DEF Add, IsNext, CountInv, ReadShards
  <2>2. IsFiniteSet(merged')
    BY <2>1, FS_AddElement DEF OneShardCounts
  <2>3. count' = [c \in Cells |->
                    IF Shards[d].count[c] > Max - count[c] THEN Max
                    ELSE count[c] + Shards[d].count[c]]
    BY <1>2 DEF Add, Overflows
  <2>4. CASE merged = {}
    <3>1. Shards[d].count \in [Cells -> 0 .. Max] /\ Max \in Nat
      BY <2>1, MergeAssumption DEF Shard
    <3>2. \A c \in Cells : count[c] = 0
      BY <2>4 DEF OneShardCounts
    <3>3. \A c \in Cells : count'[c] = Shards[d].count[c]
      BY <2>3, <3>1, <3>2
    <3>4. count' = Shards[d].count
      BY <2>3, <3>1, <3>3
    <3> QED
      BY <2>1, <2>4, <2>2, <3>4 DEF OneShardCounts
  <2>5. CASE merged # {}
    BY <2>1, <2>5, <2>2 DEF OneShardCounts
  <2> QED
    BY <2>4, <2>5
<1>3. ASSUME NEW d \in Content, AddFails(d) PROVE OneShardCounts'
  BY <1>1, <1>3 DEF AddFails, Fail
<1>4. ASSUME NEW entry \in listed, Read(entry) \/ ReadFails(entry) PROVE OneShardCounts'
  BY <1>1, <1>4 DEF Read, ReadFails, Fail
<1>5. CASE Scan \/ ScanFails \/ BeginRead \/ NothingToRead \/ BeginMerge \/ EmptyOrRepeated \/ Finish
  BY <1>1, <1>5 DEF Scan, ScanFails, BeginRead, NothingToRead, BeginMerge, EmptyOrRepeated,
                    Finish, Fail
<1>6. ASSUME NEW f \in Files, Appear(f) \/ Remove(f) PROVE OneShardCounts'
  BY <1>1, <1>6 DEF Appear, Remove
<1>7. CASE UNCHANGED mergeVars
  BY <1>1, <1>7 DEF mergeVars
<1> QED
  BY <1>2, <1>3, <1>4, <1>5, <1>6, <1>7 DEF MergeNext, MergeStep, Environment

\* Nothing is built, trained or written when the command begins (pgo.rs).
LEMMA PgoInvInit ==
    ASSUME MergeInit, Output!Init, step = "create", root = FALSE, training = "none",
           outcome = "none"
    PROVE  PgoInv
<1>1. CountInv
  BY CountInvInit
<1>2. OneShardCounts
  BY FS_EmptySet DEF MergeInit, OneShardCounts
<1>3. OutputProofs!TransactionAssumption
  BY PgoAssumption DEF OutputProofs!TransactionAssumption
<1>4. OutputProofs!OutputInv
  BY <1>3, SameTransaction, OutputProofs!OutputInvInit
<1>5. disk = entry0
  BY DEF Output!Init
<1> QED
  BY <1>1, <1>2, <1>4, <1>5 DEF PgoInv, Returned

\* A step of the transaction keeps what is proved of it.
LEMMA OutputStep ==
    ASSUME OutputProofs!OutputInv, Output!Next \/ Output!Crash \/ UNCHANGED outputVars
    PROVE  OutputProofs!OutputInv'
<1>1. OutputProofs!TransactionAssumption
  BY PgoAssumption DEF OutputProofs!TransactionAssumption
<1>2. [OutputProofs!Next]_(OutputProofs!vars)
  BY SameTransaction DEF OutputProofs!vars, OutputProofs!Next
<1> QED
  BY <1>1, <1>2, OutputProofs!OutputInvStep

\* What the command waits for does not move the outputs.
LEMMA PgoFrame ==
    ASSUME PgoInv, UNCHANGED outputVars, [MergeNext]_mergeVars
    PROVE  CountInv' /\ OneShardCounts' /\ OutputProofs!OutputInv' /\ disk' = disk /\ entry0' = entry0
BY CountInvStep, OneShardStep, OutputStep DEF PgoInv

LEMMA PgoInvStep == PgoInv /\ [PgoNext]_pgoVars => PgoInv'
<1> SUFFICES ASSUME PgoInv, [PgoNext]_pgoVars PROVE PgoInv'
  OBVIOUS
<1> USE DEF PgoInv, Returned, Goto
<1>1. CASE CreateRoot \/ CreateFails \/ Generate \/ GenerateFails
  <2>1. UNCHANGED <<mergeVars, outputVars>>
    BY <1>1 DEF CreateRoot, CreateFails, Generate, GenerateFails, GiveUp
  <2> QED
    BY <1>1, <2>1, PgoFrame DEF CreateRoot, CreateFails, Generate, GenerateFails, GiveUp, TrainedOnce
<1>2. CASE TrainingWrites
  <2>1. MergeNext /\ merged' = merged /\ UNCHANGED outputVars
    BY <1>2 DEF TrainingWrites, MergeNext, Environment, Appear
  <2> QED
    BY <1>2, <2>1, PgoFrame DEF TrainingWrites, TrainedOnce
<1>3. ASSUME NEW how \in {"success", "failure", "abnormal"}, TrainingEnds(how) PROVE PgoInv'
  BY <1>3, PgoFrame DEF TrainingEnds, TrainedOnce
<1>4. CASE Trained \/ TrainingFailed
  BY <1>4, PgoFrame DEF Trained, TrainingFailed, GiveUp, TrainedOnce
<1>5. CASE MergeShards
  BY <1>5, PgoFrame DEF MergeShards, MergeNext, TrainedOnce
<1>6. CASE Merged
  <2>1. \E d \in merged : merged = {d}
    BY <1>6, FS_Singleton DEF Merged, OneShardCounts
  <2> QED
    BY <1>6, <2>1, PgoFrame DEF Merged, TrainedOnce, mergeVars
<1>7. CASE NotOneShard \/ Rebuild \/ RebuildFails
  BY <1>7, PgoFrame DEF NotOneShard, Rebuild, RebuildFails, GiveUp, TrainedOnce, mergeVars
<1>8. CASE Commit
  <2>1. CountInv' /\ OneShardCounts' /\ TrainedOnce'
    BY <1>8, CountInvStep, OneShardStep DEF Commit, TrainedOnce, mergeVars
  <2>2. OutputProofs!OutputInv'
    BY <1>8, OutputStep DEF Commit
  <2> QED
    BY <1>8, <2>1, <2>2 DEF Commit
<1>9. CASE Committed
  <2>1. result \in {"none", "ok", "error"}
    BY DEF OutputProofs!OutputInv, OutputProofs!Shape
  <2> QED
    BY <1>9, <2>1, PgoFrame DEF Committed, TrainedOnce, mergeVars
<1>10. CASE DropRoot
  BY <1>10, PgoFrame DEF DropRoot, TrainedOnce, mergeVars
<1>11. CASE PgoKilled
  <2>1. OutputProofs!OutputInv'
    BY <1>11, OutputStep DEF PgoKilled
  <2>2. CountInv' /\ OneShardCounts' /\ (TrainedOnce <=> TrainedOnce')
    BY <1>11, CountInvStep, OneShardStep DEF PgoKilled, TrainedOnce, mergeVars
  <2>3. disk' = disk /\ entry0' = entry0
    BY <1>11 DEF PgoKilled, Output!Crash, Output!files
  <2> QED
    BY <1>11, <2>1, <2>2, <2>3 DEF PgoKilled
<1>12. CASE UNCHANGED pgoVars
  BY <1>12, PgoFrame DEF pgoVars, TrainedOnce, mergeVars
<1> QED
  BY <1>1, <1>2, <1>3, <1>4, <1>5, <1>6, <1>7, <1>8, <1>9, <1>10, <1>11, <1>12 DEF PgoNext

\* The invariant implies what the command promises.
LEMMA PgoInvOutputs == PgoInv => OutputsFollowTraining
<1> SUFFICES ASSUME PgoInv PROVE OutputsFollowTraining
  OBVIOUS
<1>1. ASSUME disk # entry0
      PROVE  training = "success" /\ \E d \in Digests : merged = {d} /\ count = Shards[d].count
  BY <1>1 DEF PgoInv, TrainedOnce, OneShardCounts, CountInv, MergeTypeOK
<1>2. ASSUME step = "exit", outcome = "ok"
      PROVE  \A i \in DOMAIN requests : disk[requests[i]] = i
  <2>1. OutputProofs!SuccessReplacesAll
    BY OutputProofs!InvSuccess, PgoAssumption DEF PgoInv, OutputProofs!TransactionAssumption
  <2> QED
    BY <1>2, <2>1 DEF PgoInv, Returned, OutputProofs!SuccessReplacesAll, OutputProofs!Dest
<1>3. ASSUME step = "exit", outcome = "error", failures = {}
      PROVE  disk = entry0
  <2>1. OutputProofs!FailureRestoresAll
    BY OutputProofs!InvFailure, PgoAssumption DEF PgoInv, OutputProofs!TransactionAssumption
  <2>2. disk \in [Destinations -> OutputProofs!Contents] /\ entry0 \in [Destinations -> {OutputProofs!Absent, OutputProofs!Old}]
    BY DEF PgoInv, OutputProofs!OutputInv, OutputProofs!Shape
  <2>3. phase = "ended" /\ result = "error" => \A d \in Destinations : disk[d] = entry0[d]
    BY <1>3, <2>1 DEF OutputProofs!FailureRestoresAll
  <2> QED
    BY <1>3, <2>2, <2>3 DEF PgoInv, Returned
<1> QED
  BY <1>1, <1>2, <1>3 DEF OutputsFollowTraining

\* The types of the workflow and of the transaction in it.
LEMMA PgoInvTypes == PgoInv => PgoTypeOK
<1>1. OutputProofs!OutputInv => OutputProofs!TypeOK
  BY OutputProofs!InvTypes, PgoAssumption DEF OutputProofs!TransactionAssumption
<1>2. OutputProofs!TypeOK => Output!TypeOK
  BY DEF Output!TypeOK, OutputProofs!TypeOK, Output!Contents, OutputProofs!Contents,
         Output!Absent, OutputProofs!Absent, Output!Old, OutputProofs!Old,
         Output!Phases, OutputProofs!Phases
<1> QED
  BY <1>1, <1>2 DEF PgoInv, PgoTypeOK

\* Every behaviour of `ckc pgo build` satisfies the invariant.
THEOREM PgoInvariant == PgoSpec => []PgoInv
BY PgoInvInit, PgoInvStep, PTL DEF PgoSpec, PgoInit

\* An output changes only after a training run that counts, with the counts of
\* its one shard; success replaces both outputs, an error neither (pgo.rs,
\* run_native_build_workflow).
THEOREM OutputsFollowTrainingHolds == PgoSpec => []OutputsFollowTraining
BY PgoInvOutputs, PgoInvariant, PTL

-----------------------------------------------------------------------------
(* ckc lsp.  What is shown for a document is what is kept for it; folders     *)
(* and files are cut by their rank, the number of those before them.         *)

LspInv == LspTypeOK /\ shown = documents

Low(n, S, before) == {x \in S : Cardinality(before[x]) < n}

\* Of a finite set S ordered by its sets of predecessors, at most n members have
\* a rank below n, and exactly n when there are that many.
LEMMA RankCut ==
    ASSUME NEW S, IsFiniteSet(S), NEW n \in Nat, NEW before \in [S -> SUBSET S],
           \A x \in S : x \notin before[x],
           \A x, y \in S : x = y \/ before[x] \cup {x} \subseteq before[y]
                                 \/ before[y] \cup {y} \subseteq before[x]
    PROVE  /\ IsFiniteSet(Low(n, S, before)) /\ Cardinality(Low(n, S, before)) <= n
           /\ n <= Cardinality(S) => Cardinality(Low(n, S, before)) = n
           /\ Cardinality(S) <= n => Low(n, S, before) = S
<1> DEFINE low == {x \in S : Cardinality(before[x]) < n}
           high == S \ low
           size == Cardinality(S)
           rank == [x \in S |-> Cardinality(before[x])]
<1>1. size \in Nat
  BY FS_CardinalityType
<1>2. ASSUME NEW x \in S PROVE IsFiniteSet(before[x]) /\ rank[x] \in 0 .. size - 1
  <2>1. before[x] \subseteq S /\ before[x] # S
    OBVIOUS
  <2>2. IsFiniteSet(before[x]) /\ Cardinality(before[x]) <= size /\ Cardinality(before[x]) # size
    BY <2>1, FS_Subset
  <2> QED
    BY <1>1, <2>2, FS_CardinalityType
<1>3. ASSUME NEW x \in S, NEW y \in S, x # y PROVE rank[x] # rank[y]
  <2>1. ASSUME NEW a \in S, NEW b \in S, before[a] \cup {a} \subseteq before[b]
        PROVE  rank[a] # rank[b]
    <3>1. before[a] \subseteq before[b] /\ before[a] # before[b]
      BY <2>1
    <3> QED
      BY <1>2, <3>1, FS_Subset
  <2> QED
    BY <1>3, <2>1
<1>4. low \subseteq S /\ IsFiniteSet(low) /\ IsFiniteSet(high)
  BY FS_Subset
<1>5. Cardinality(low) \in Nat /\ Cardinality(high) \in Nat /\ Cardinality(low) + Cardinality(high) = size
  <2>1. low \cap high = {} /\ low \cup high = S
    OBVIOUS
  <2> HIDE DEF low, high
  <2>2. Cardinality(low \cap high) = 0
    BY <2>1, FS_EmptySet
  <2>3. Cardinality(low \cup high) = Cardinality(low) + Cardinality(high) - Cardinality(low \cap high)
    BY <1>4, FS_Union
  <2>5. size = Cardinality(low \cup high)
    BY <2>1, Zenon
  <2>4. Cardinality(low) \in Nat /\ Cardinality(high) \in Nat
    BY <1>4, FS_CardinalityType
  <2> QED
    BY <1>1, <2>2, <2>3, <2>4, <2>5
<1>6. Cardinality(low) <= n
  <2> DEFINE f == [x \in low |-> rank[x]]
  <2>1. \A x \in low : rank[x] \in 0 .. n - 1
    BY <1>1, <1>2
  <2> HIDE DEF low, rank
  <2>2. f \in Injection(low, 0 .. n - 1)
    BY <1>3, <1>4, <2>1 DEF Injection, IsInjective
  <2> QED
    BY <2>2, FS_Injection, FS_Interval
<1>7. n <= size => Cardinality(high) <= size - n
  <2> DEFINE f == [x \in high |-> rank[x]]
  <2> SUFFICES ASSUME n <= size PROVE Cardinality(high) <= size - n
    OBVIOUS
  <2>1. \A x \in high : rank[x] \in n .. size - 1
    BY <1>1, <1>2
  <2> HIDE DEF high, rank
  <2>2. f \in Injection(high, n .. size - 1)
    BY <1>3, <2>1 DEF Injection, IsInjective, high
  <2>3. n \in Int /\ size - 1 \in Int /\ size - 1 - n + 1 = size - n /\ (n > size - 1 => size - n = 0)
    BY <1>1
  <2> HIDE DEF f, size
  <2> QED
    BY <2>2, <2>3, FS_Injection, FS_Interval
<1>8. size <= n => low = S
  BY <1>1, <1>2
<1> HIDE DEF low, high, size
<1> QED
  BY <1>1, <1>4, <1>5, <1>6, <1>7, <1>8 DEF low, size, Low

\* Of finitely many numbers, the n smallest are at most n, and all when there are
\* no more than n (workspace.rs, truncate and take).
LEMMA SmallestFacts ==
    ASSUME NEW n \in Nat, NEW S \in SUBSET Nat, IsFiniteSet(S)
    PROVE  /\ Smallest(n, S) \subseteq S /\ Cardinality(Smallest(n, S)) <= n
           /\ n <= Cardinality(S) => Cardinality(Smallest(n, S)) = n
           /\ Cardinality(S) <= n => Smallest(n, S) = S
<1> DEFINE before == [x \in S |-> {y \in S : y < x}]
<1>0. \A x \in S : x \in Nat
  OBVIOUS
<1>1. before \in [S -> SUBSET S] /\ \A x \in S : x \notin before[x]
  OBVIOUS
<1>2. \A x, y \in S : x = y \/ before[x] \cup {x} \subseteq before[y] \/ before[y] \cup {y} \subseteq before[x]
  <2> TAKE x, y \in S
  <2>1. x \in Nat /\ y \in Nat
    BY <1>0
  <2>2. ASSUME NEW a \in S, NEW b \in S, a < b PROVE before[a] \cup {a} \subseteq before[b]
    <3> SUFFICES ASSUME NEW c \in before[a] \cup {a} PROVE c \in S /\ c < b
      OBVIOUS
    <3>1. c \in S /\ (c < a \/ c = a)
      OBVIOUS
    <3> QED
      BY <1>0, <2>2, <3>1
  <2> QED
    BY <2>1, <2>2
<1>3. Smallest(n, S) = Low(n, S, before)
  BY DEF Smallest, Low
<1> HIDE DEF before
<1>5. /\ Cardinality(Low(n, S, before)) <= n
      /\ n <= Cardinality(S) => Cardinality(Low(n, S, before)) = n
      /\ Cardinality(S) <= n => Low(n, S, before) = S
  BY <1>1, <1>2, RankCut, Zenon
<1>6. Low(n, S, before) \subseteq S
  BY DEF Low
<1> QED
  BY <1>3, <1>5, <1>6, Zenon

\* Numbers have a first one.
LEMMA LeastExists ==
    ASSUME NEW S \in SUBSET Nat, S # {}
    PROVE  \E x \in S : \A y \in S : x <= y
<1>0. \A y \in S : y \in Nat
  OBVIOUS
<1>1. PICK z \in S : TRUE
  OBVIOUS
<1> DEFINE T == {y \in S : y <= z}
<1>2. T \in SUBSET Nat /\ IsFiniteSet(T) /\ T # {}
  <2>0. z \in Nat /\ z <= z
    BY <1>0, <1>1
  <2>1. z \in Nat /\ z \in T /\ T \in SUBSET Nat /\ \A y \in T : y <= z
    BY <1>0, <1>1, <2>0
  <2> HIDE DEF T
  <2> QED
    BY <2>1, FS_BoundedSetOfNaturals
<1>3. 1 \in Nat /\ 1 <= Cardinality(T)
  <2> HIDE DEF T
  <2>1. Cardinality(T) \in Nat /\ Cardinality(T) # 0
    BY <1>2, FS_CardinalityType, FS_EmptySet
  <2> QED
    BY <2>1
<1>4. PICK x \in T : Cardinality({y \in T : y < x}) < 1
  <2> HIDE DEF T
  <2>1. Cardinality(Smallest(1, T)) = 1
    BY <1>2, <1>3, SmallestFacts, Zenon
  <2>2. Smallest(1, T) # {}
    BY <2>1, FS_EmptySet
  <2> QED
    BY <2>2 DEF Smallest
<1>5. {y \in T : y < x} = {}
  <2> DEFINE L == {y \in T : y < x}
  <2>1. IsFiniteSet(L)
    BY <1>2, FS_Subset
  <2>2. Cardinality(L) \in Nat
    BY <2>1, FS_CardinalityType
  <2> HIDE DEF L
  <2>3. Cardinality(L) < 1 => Cardinality(L) = 0
    BY <2>2
  <2> QED
    BY <1>4, <2>1, <2>3, FS_EmptySet DEF L
<1>6. \A y \in S : x <= y
  <2> TAKE y \in S
  <2>1. x \in Nat /\ y \in Nat /\ z \in Nat /\ x <= z /\ (y \in T => ~(y < x))
    BY <1>0, <1>1, <1>5
  <2>2. y <= z => y \in T
    OBVIOUS
  <2> QED
    BY <2>1, <2>2
<1> QED
  BY <1>6

\* A scanned folder is known, and a file that counts has its first folder.
LEMMA ScanFacts ==
    ASSUME LspTypeOK
    PROVE  /\ Scanned \subseteq Folders
           /\ Eligible \subseteq SourceFiles \ OpenFiles /\ IsFiniteSet(Eligible)
           /\ \A f \in Eligible : FolderOf(f) \in Scanned
           /\ IsFiniteSet(OpenFiles) /\ Cardinality(OpenFiles) \in Nat
<1>1. Scanned \subseteq Folders
  BY DEF Scanned, Smallest, LspTypeOK
<1>2. Eligible \subseteq SourceFiles \ OpenFiles
  <2> SUFFICES ASSUME NEW f \in Eligible PROVE f \in SourceFiles \ OpenFiles
    OBVIOUS
  <2>0. f \notin OpenFiles
    BY DEF Eligible, Shadowed
  <2>1. PICK r \in Scanned : f \in SourcesBelow[r]
    BY DEF Eligible
  <2>2. SourcesBelow[r] \subseteq DOMAIN DiskText
    BY <1>1, ServerAssumption
  <2> QED
    BY <2>0, <2>1, <2>2 DEF SourceFiles
<1>3. \A f \in Eligible : FolderOf(f) \in Scanned
  <2> TAKE f \in Eligible
  <2> DEFINE above == {r \in Scanned : f \in SourcesBelow[r]}
  <2>1. above # {} /\ above \subseteq Nat
    BY <1>1, ServerAssumption DEF Eligible
  <2>3. \E r \in above : \A q \in above : r <= q
    BY <2>1, LeastExists
  <2> QED
    BY <2>3 DEF FolderOf
<1>4. IsFiniteSet(OpenFiles) /\ IsFiniteSet(Eligible)
  BY <1>2, ServerAssumption, FS_Subset DEF OpenFiles, SourceFiles
<1> QED
  BY <1>1, <1>2, <1>3, <1>4, FS_CardinalityType

\* What an open file contributes is the text of one of its URIs, and the same for
\* each of them (workspace.rs, symbols).
LEMMA OpenSourceFacts ==
    ASSUME LspTypeOK
    PROVE  /\ \A s \in OpenSources :
                 /\ s \in SymbolSource /\ s.file \in OpenFiles
                 /\ \E u \in OpenUris(s.file) : documents[u].text = s.text
           /\ \A r, s \in OpenSources : r.file = s.file => r = s
<1> DEFINE uri(f) == CHOOSE u \in OpenUris(f) : \A w \in OpenUris(f) : u <= w
<1>1. \A f \in OpenFiles : uri(f) \in OpenUris(f)
  <2> TAKE f \in OpenFiles
  <2>1. OpenUris(f) \in SUBSET Nat /\ OpenUris(f) # {}
    BY ServerAssumption DEF OpenFiles, OpenUris
  <2>2. \E u \in OpenUris(f) : \A w \in OpenUris(f) : u <= w
    BY <2>1, LeastExists
  <2> QED
    BY <2>2
<1> HIDE DEF uri
<1>2. OpenSources = {[file |-> f, text |-> documents[uri(f)].text] :
                        f \in {g \in Smallest(MaxFiles, OpenFiles) : documents[uri(g)].text # NoText}}
  BY DEF OpenSources, uri
<1>3. \A s \in OpenSources :
         \E f \in OpenFiles : /\ s = [file |-> f, text |-> documents[uri(f)].text]
                              /\ documents[uri(f)].text # NoText
  BY <1>2 DEF Smallest
<1>4. ASSUME NEW s \in OpenSources
      PROVE  /\ s \in SymbolSource /\ s.file \in OpenFiles
             /\ \E u \in OpenUris(s.file) : documents[u].text = s.text
  <2>1. PICK f \in OpenFiles : /\ s = [file |-> f, text |-> documents[uri(f)].text]
                               /\ documents[uri(f)].text # NoText
    BY <1>3
  <2>2. uri(f) \in Uris /\ uri(f) \in OpenUris(f)
    BY <1>1 DEF OpenUris
  <2>3. documents[uri(f)].text \in Texts
    BY <2>1, <2>2 DEF LspTypeOK, Documents, Closed
  <2> QED
    BY <2>1, <2>2, <2>3 DEF SymbolSource, OpenFiles
<1>5. \A r, s \in OpenSources : r.file = s.file => r = s
  BY <1>3
<1> QED
  BY <1>4, <1>5

\* What a scan contributes is on disk below a folder and not open.
LEMMA ScanSourceFacts ==
    ASSUME LspTypeOK
    PROVE  /\ ScanFolders.files \subseteq SourceFiles \ OpenFiles
           /\ ScanFolders.truncated \in BOOLEAN
<1>1. ScanFolders.files \subseteq Eligible /\ ScanFolders.truncated \in BOOLEAN
  BY DEF ScanFolders
<1> QED
  BY <1>1, ScanFacts

\* An answer has sources of the right kind, one for each file.
LEMMA SymbolFacts ==
    ASSUME LspTypeOK
    PROVE  /\ Symbols.items \subseteq SymbolSource /\ Symbols.truncated \in BOOLEAN
           /\ \A s \in Symbols.items :
                 s.file \in OpenFiles => \E u \in OpenUris(s.file) : documents[u].text = s.text
           /\ \A r, s \in Symbols.items : r.file = s.file => r = s
<1> DEFINE full == Cardinality(OpenFiles) >= MaxFiles
           disk0 == IF full THEN {} ELSE ScanFolders.files
           onDisk == {[file |-> f, text |-> DiskText[f]] : f \in disk0}
<1>1. Symbols.items \subseteq OpenSources \cup onDisk /\ Symbols.truncated \in BOOLEAN
  BY DEF Symbols
<1>2. \A s \in onDisk : s \in SymbolSource /\ s.file \notin OpenFiles /\ s.text = DiskText[s.file]
  BY ScanSourceFacts, ServerAssumption DEF SymbolSource, SourceFiles
<1> HIDE DEF onDisk
<1>3. \A r, s \in onDisk : r.file = s.file => r = s
  BY <1>2 DEF SymbolSource
<1> QED
  BY <1>1, <1>2, <1>3, OpenSourceFacts

\* The server starts with nothing open and no folder (lsp/mod.rs, ServerState).
LEMMA LspInvInit == LspInit => LspInv
<1> SUFFICES ASSUME LspInit PROVE LspInv
  OBVIOUS
<1>1. roots \subseteq Folders /\ Cardinality(roots) <= MaxRoots + 1
  BY FS_EmptySet, ServerAssumption DEF LspInit
<1> QED
  BY <1>1 DEF LspInit, LspInv, LspTypeOK, Documents

\* The folders an editor names at once are cut to one more than the limit.
LEMMA CanonicalFacts ==
    ASSUME NEW F \in SUBSET Folders, NEW S \in Canonical(F)
    PROVE  S \subseteq Folders /\ IsFiniteSet(S) /\ Cardinality(S) <= MaxRoots + 1
<1>1. S \subseteq F /\ (Cardinality(S) = MaxRoots + 1 \/ Cardinality(S) <= MaxRoots)
  BY DEF Canonical
<1>2. S \subseteq Folders /\ IsFiniteSet(S)
  BY <1>1, ServerAssumption, FS_Subset
<1>3. Cardinality(S) \in Nat
  BY <1>2, FS_CardinalityType
<1> QED
  BY <1>1, <1>2, <1>3, ServerAssumption

\* A document is kept and shown together, for each notification.
LEMMA AnalyzeKeeps ==
    ASSUME LspInv, NEW u \in Uris, NEW v \in Versions, NEW t \in Texts, Analyze(u, v, t)
    PROVE  documents' \in [Uris -> Documents] /\ shown' = documents'
<1> DEFINE snapshot == [version |-> v, text |-> IF t \in Oversized THEN NoText ELSE t]
<1>1. snapshot \in Documents
  BY DEF Documents
<1>2. documents' = [documents EXCEPT ![u] = snapshot] /\ shown' = [shown EXCEPT ![u] = snapshot]
  BY DEF Analyze
<1> QED
  BY <1>1, <1>2 DEF LspInv, LspTypeOK

LEMMA LspInvStep == LspInv /\ [LspNext]_lspVars => LspInv'
<1> SUFFICES ASSUME LspInv, [LspNext]_lspVars PROVE LspInv'
  OBVIOUS
<1> USE DEF LspInv, LspTypeOK
<1>1. ASSUME NEW F \in SUBSET Folders, Initialize(F) PROVE LspInv'
  <2>1. roots' \subseteq Folders /\ Cardinality(roots') <= MaxRoots + 1
    BY <1>1, CanonicalFacts DEF Initialize
  <2> QED
    BY <1>1, <2>1 DEF Initialize
<1>2. CASE Initialized \/ Refuse \/ Shutdown \/ Exit
  BY <1>2 DEF Initialized, Refuse, Shutdown, Exit
<1>3. ASSUME NEW u \in Uris, NEW v \in Versions, NEW t \in Texts, DidOpen(u, v, t) \/ DidChange(u, v, t)
      PROVE  LspInv'
  <2>1. Analyze(u, v, t) /\ UNCHANGED <<server, roots, folders, answer, reply>>
    BY <1>3 DEF DidOpen, DidChange
  <2>2. documents' \in [Uris -> Documents] /\ shown' = documents'
    BY <2>1, AnalyzeKeeps
  <2> QED
    BY <2>1, <2>2
<1>4. ASSUME NEW u \in Uris, DidClose(u) PROVE LspInv'
  <2>1. Closed \in Documents
    BY DEF Documents
  <2> QED
    BY <1>4, <2>1 DEF DidClose
<1>5. ASSUME NEW u \in Uris, DocumentRequest(u) PROVE LspInv'
  BY <1>5 DEF DocumentRequest
<1>6. ASSUME NEW added \in SUBSET Folders, NEW removed \in SUBSET Folders, ChangeFolders(added, removed)
      PROVE  LspInv'
  <2>1. PICK S \in Canonical(added) : roots' = Smallest(MaxRoots + 1, (roots \ removed) \cup S)
    BY <1>6 DEF ChangeFolders
  <2> DEFINE all == (roots \ removed) \cup S
  <2>2. all \subseteq Folders /\ all \in SUBSET Nat /\ IsFiniteSet(all)
    <3>1. all \subseteq Folders
      BY <2>1, CanonicalFacts
    <3> HIDE DEF all
    <3> QED
      BY <3>1, ServerAssumption, FS_Subset
  <2>3. MaxRoots + 1 \in Nat
    BY ServerAssumption
  <2> HIDE DEF all
  <2>4. Smallest(MaxRoots + 1, all) \subseteq all /\ Cardinality(Smallest(MaxRoots + 1, all)) <= MaxRoots + 1
    BY <2>2, <2>3, SmallestFacts, Zenon
  <2>5. roots' = Smallest(MaxRoots + 1, all)
    BY <2>1 DEF all
  <2>6. roots' \subseteq Folders /\ Cardinality(roots') <= MaxRoots + 1
    BY <2>2, <2>4, <2>5
  <2> QED
    BY <1>6, <2>6 DEF ChangeFolders
<1>7. CASE WorkspaceSymbol
  BY <1>7, SymbolFacts DEF WorkspaceSymbol
<1>8. CASE UNCHANGED lspVars
  BY <1>8 DEF lspVars
<1> QED
  BY <1>1, <1>2, <1>3, <1>4, <1>5, <1>6, <1>7, <1>8 DEF LspNext

\* Every behaviour of `ckc lsp` satisfies the invariant.
THEOREM LspInvariant == LspSpec => []LspInv
BY LspInvInit, LspInvStep, PTL DEF LspSpec

LEMMA ShadowStep ==
    LspInv /\ [LspNext]_lspVars =>
        [answer' # answer =>
            \A s \in answer'.items :
                /\ s.file \in OpenFiles => \E u \in OpenUris(s.file) : shown[u].text = s.text
                /\ \A r \in answer'.items : r.file = s.file => r = s]_lspVars
<1> SUFFICES ASSUME LspInv, LspNext, answer' # answer
             PROVE  \A s \in answer'.items :
                       /\ s.file \in OpenFiles => \E u \in OpenUris(s.file) : shown[u].text = s.text
                       /\ \A r \in answer'.items : r.file = s.file => r = s
  OBVIOUS
<1>1. answer' = Symbols
  BY DEF LspNext, Initialize, Initialized, Refuse, Shutdown, Exit, DidOpen, DidChange, DidClose,
         DocumentRequest, ChangeFolders, WorkspaceSymbol
<1> QED
  BY <1>1, SymbolFacts DEF LspInv

\* A file open in the editor is answered from one text, the one last accepted for
\* a URI of that file (workspace.rs, symbols), however folders and files change.
THEOREM OpenTextHolds == LspSpec => OpenTextShadowsDisk
BY LspInvariant, ShadowStep, PTL DEF LspSpec, OpenTextShadowsDisk

\* A scan that leaves a file out has read as many as there was room for.
LEMMA ScanFillsRoom ==
    ASSUME LspTypeOK, Cardinality(OpenFiles) < MaxFiles,
           NEW f \in Eligible, f \notin ScanFolders.files
    PROVE  Cardinality(ScanFolders.files) = MaxFiles - Cardinality(OpenFiles)
<1> DEFINE room == MaxFiles - Cardinality(OpenFiles)
           before == [g \in Eligible |-> Earlier(g)]
<1>1. room \in Nat /\ IsFiniteSet(Eligible)
  BY ScanFacts, ServerAssumption
<1>2. \A g \in Eligible : g \in Nat /\ FolderOf(g) \in Nat
  BY ScanFacts, ServerAssumption DEF SourceFiles
<1>3. \A g \in Eligible : Earlier(g) \subseteq Eligible /\ g \notin Earlier(g)
  BY <1>2 DEF Earlier, InEarlierFolders
<1>4. ASSUME NEW x \in Eligible, NEW y \in Eligible, x \in Earlier(y)
      PROVE  Earlier(x) \cup {x} \subseteq Earlier(y)
  <2> SUFFICES ASSUME NEW z \in Earlier(x) PROVE z \in Earlier(y)
    BY <1>4
  <2>1. z \in Eligible
    BY <1>3
  <2>2. FolderOf(z) < FolderOf(x) \/ (FolderOf(z) = FolderOf(x) /\ z > x)
    BY DEF Earlier, InEarlierFolders
  <2>3. FolderOf(x) < FolderOf(y) \/ (FolderOf(x) = FolderOf(y) /\ x > y)
    BY <1>4 DEF Earlier, InEarlierFolders
  <2>4. FolderOf(z) < FolderOf(y) \/ (FolderOf(z) = FolderOf(y) /\ z > y)
    BY <1>2, <2>1, <2>2, <2>3
  <2> QED
    BY <2>1, <2>4 DEF Earlier, InEarlierFolders
<1>5. \A x, y \in Eligible : x = y \/ x \in Earlier(y) \/ y \in Earlier(x)
  BY <1>2 DEF Earlier, InEarlierFolders
<1>6. ScanFolders.files = Low(room, Eligible, before)
  BY DEF ScanFolders, Low
<1>7. room <= Cardinality(Eligible)
  <2>1. Earlier(f) \subseteq Eligible /\ ~(Cardinality(Earlier(f)) < room)
    BY <1>3 DEF ScanFolders
  <2>2. Cardinality(Earlier(f)) <= Cardinality(Eligible) /\ Cardinality(Earlier(f)) \in Nat
    BY <1>1, <2>1, FS_Subset, FS_CardinalityType
  <2>3. Cardinality(Eligible) \in Nat
    BY <1>1, FS_CardinalityType
  <2> QED
    BY <1>1, <2>1, <2>2, <2>3
<1>8. /\ before \in [Eligible -> SUBSET Eligible]
      /\ \A x \in Eligible : x \notin before[x]
      /\ \A x, y \in Eligible : x = y \/ before[x] \cup {x} \subseteq before[y]
                                      \/ before[y] \cup {y} \subseteq before[x]
  BY <1>3, <1>4, <1>5
<1> HIDE DEF before, room
<1>9. Cardinality(Low(room, Eligible, before)) = room
  BY <1>1, <1>7, <1>8, RankCut, Zenon
<1> QED
  BY <1>6, <1>9 DEF room

\* An answer that leaves out files of the workspace says so, below the limits.
LEMMA OmissionIsMarked == LspTypeOK => OmissionIsReportedBelowLimits
<1> SUFFICES ASSUME LspTypeOK, Omitted # {}, folders = roots,
                    Cardinality(OpenFiles \cup {s.file : s \in Symbols.items}) < MaxFiles,
                    ~Symbols.truncated
             PROVE  FALSE
  BY SymbolFacts DEF OmissionIsReportedBelowLimits
<1> DEFINE full == Cardinality(OpenFiles) >= MaxFiles
           answered == {s.file : s \in Symbols.items}
           read == OpenSources \cup {[file |-> f, text |-> DiskText[f]] :
                                        f \in IF full THEN {} ELSE ScanFolders.files}
<1>1. /\ ~(Cardinality(roots) > MaxRoots) /\ ~(full /\ roots # {})
      /\ \A s \in read : s.text \notin Oversized
  BY DEF Symbols
<1>2. PICK f \in Omitted : TRUE
  OBVIOUS
<1>3. PICK r \in roots : f \in SourcesBelow[r]
  BY <1>2 DEF Omitted
<1>4. ~full
  BY <1>1, <1>3
<1>5. f \in Eligible
  <2>1. roots \subseteq Folders /\ IsFiniteSet(roots) /\ roots \in SUBSET Nat
    BY ServerAssumption, FS_Subset DEF LspTypeOK
  <2>2. Cardinality(roots) \in Nat /\ Cardinality(roots) <= MaxRoots /\ MaxRoots \in Nat
    BY <1>1, <2>1, FS_CardinalityType, ServerAssumption
  <2>3. Scanned = roots
    BY <2>1, <2>2, SmallestFacts, Zenon DEF Scanned
  <2>4. f \notin OpenFiles
    BY <1>2 DEF Omitted
  <2> QED
    BY <1>3, <2>3, <2>4 DEF Eligible, Shadowed
<1>6. Symbols.items = read
  <2>1. Symbols.items = {s \in read : s.text \notin Oversized}
    BY DEF Symbols
  <2> QED
    BY <1>1, <2>1
<1>7. ScanFolders.files \subseteq answered
  <2> SUFFICES ASSUME NEW g \in ScanFolders.files PROVE g \in answered
    OBVIOUS
  <2>1. [file |-> g, text |-> DiskText[g]] \in Symbols.items
    BY <1>4, <1>6
  <2> QED
    BY <2>1
<1>8. f \notin ScanFolders.files
  BY <1>2, <1>7 DEF Omitted
<1> HIDE DEF answered, read
<1>9. Cardinality(OpenFiles) \in Nat /\ MaxFiles \in Nat
  BY ScanFacts, ServerAssumption
<1>10. Cardinality(ScanFolders.files) = MaxFiles - Cardinality(OpenFiles)
  BY <1>4, <1>5, <1>8, <1>9, ScanFillsRoom
<1>11. Cardinality(OpenFiles \cup ScanFolders.files) = MaxFiles
  <2>1. IsFiniteSet(OpenFiles) /\ IsFiniteSet(ScanFolders.files) /\ OpenFiles \cap ScanFolders.files = {}
    <3>1. ScanFolders.files \subseteq SourceFiles \ OpenFiles
      BY ScanSourceFacts
    <3>2. IsFiniteSet(ScanFolders.files)
      BY <3>1, ServerAssumption, FS_Subset DEF SourceFiles
    <3> QED
      BY <3>1, <3>2, ScanFacts
  <2>2. Cardinality(OpenFiles \cap ScanFolders.files) = 0
    BY <2>1, FS_EmptySet
  <2>3. Cardinality(OpenFiles \cup ScanFolders.files)
          = Cardinality(OpenFiles) + Cardinality(ScanFolders.files) - Cardinality(OpenFiles \cap ScanFolders.files)
    BY <2>1, FS_Union
  <2> QED
    BY <1>9, <1>10, <2>2, <2>3
<1>12. OpenFiles \cup answered \subseteq SourceFiles /\ IsFiniteSet(OpenFiles \cup answered)
  <2>1. OpenFiles \cup answered \subseteq SourceFiles
    BY SymbolFacts DEF answered, SymbolSource, OpenFiles
  <2> QED
    BY <2>1, ServerAssumption, FS_Subset DEF SourceFiles
<1>13. Cardinality(OpenFiles \cup ScanFolders.files) <= Cardinality(OpenFiles \cup answered)
  <2>1. OpenFiles \cup ScanFolders.files \subseteq OpenFiles \cup answered
    BY <1>7
  <2> QED
    BY <1>12, <2>1, FS_Subset
<1>14. Cardinality(OpenFiles \cup answered) \in Nat /\ Cardinality(OpenFiles \cup answered) < MaxFiles
  BY <1>12, FS_CardinalityType DEF answered
<1> QED
  BY <1>9, <1>11, <1>13, <1>14

\* A bounded answer admits what it leaves out (workspace.rs, symbols).
THEOREM OmissionHolds == LspSpec => []OmissionIsReportedBelowLimits
<1>1. LspInv => OmissionIsReportedBelowLimits
  BY OmissionIsMarked DEF LspInv
<1> QED
  BY <1>1, LspInvariant, PTL

-----------------------------------------------------------------------------
(* A process is one command.  Its steps are those of that command, and the   *)
(* others keep their first state, so that each invariant holds of the whole. *)

CommandsInv ==
    /\ RunInv /\ LspInv /\ ListInv /\ PgoInv /\ PassInv /\ MvInv
    /\ command # "pgo build" => step = "create"

LEMMA CommandsInvInit == Init => CommandsInv
BY RunInvInit, LspInvInit, ListInvInit, PgoInvInit, InitEstablishes, MvInvInit DEF Init, CommandsInv

\* A step of the merge alone is a step of the workflow that contains it.
LEMMA MergeAlone ==
    ASSUME PgoInv, MergeNext, step = "create",
           UNCHANGED <<outputVars, step, root, training, outcome>>
    PROVE  PgoInv'
BY PgoFrame DEF PgoInv, Returned, TrainedOnce

\* The workflow moves the merge by steps of the merge only.
LEMMA PgoMerges == ASSUME PgoNext PROVE [MergeNext]_mergeVars
BY DEF PgoNext, CreateRoot, CreateFails, Generate, GenerateFails, GiveUp, TrainingWrites,
       TrainingEnds, Trained, TrainingFailed, MergeShards, Merged, NotOneShard, Rebuild,
       RebuildFails, Commit, Committed, DropRoot, PgoKilled, MergeNext, Environment

\* A step of a command is a step of its component, and leaves the others alone.
LEMMA CommandSteps ==
    ASSUME [Next]_commandVars
    PROVE  /\ [RunNext]_runVars /\ [LspNext]_lspVars /\ [PassNext]_passVars /\ [MvNext]_mvVars
           /\ [MergeNext]_mergeVars /\ UNCHANGED command
           /\ \/ [PgoNext]_pgoVars /\ (command # "pgo build" => UNCHANGED step)
              \/ /\ command = "pgo merge" /\ MergeNext
                 /\ UNCHANGED <<outputVars, step, root, training, outcome>>
<1>1. CASE UNCHANGED commandVars
  BY <1>1 DEF commandVars, pgoVars
<1>2. CASE command = "run" /\ RunNext /\ UNCHANGED <<command, lspVars, pgoVars, passVars, mvVars>>
  BY <1>2 DEF pgoVars
<1>3. CASE /\ command = "pgo merge" /\ MergeNext
           /\ UNCHANGED <<command, runVars, lspVars, outputVars, step, root, training, outcome,
                          passVars, mvVars>>
  BY <1>3
<1>4. CASE command = "pgo build" /\ PgoNext /\ UNCHANGED <<command, runVars, lspVars, passVars, mvVars>>
  BY <1>4, PgoMerges
<1>5. CASE \/ command = "lsp" /\ LspNext /\ UNCHANGED <<command, runVars, pgoVars, passVars, mvVars>>
           \/ command = "build" /\ PassNext /\ UNCHANGED <<command, runVars, lspVars, pgoVars, mvVars>>
           \/ command = "build --cpu" /\ MvNext /\ UNCHANGED <<command, runVars, lspVars, pgoVars, passVars>>
  BY <1>5 DEF pgoVars
<1> QED
  BY <1>1, <1>2, <1>3, <1>4, <1>5 DEF Next

\* The invariant of the commands is inductive.
LEMMA CommandsInvStep == CommandsInv /\ [Next]_commandVars => CommandsInv'
<1> SUFFICES ASSUME CommandsInv, [Next]_commandVars PROVE CommandsInv'
  OBVIOUS
<1>1. RunInv' /\ LspInv' /\ ListInv' /\ PassInv' /\ MvInv'
  BY CommandSteps, RunInvStep, LspInvStep, ListInvStep, PassInvStep, MvInvStep DEF CommandsInv
<1>2. PgoInv' /\ (command # "pgo build" => step' = "create") /\ command' = command
  BY CommandSteps, PgoInvStep, MergeAlone DEF CommandsInv
<1> QED
  BY <1>1, <1>2 DEF CommandsInv

THEOREM CommandsInvariant == Spec => []CommandsInv
BY CommandsInvInit, CommandsInvStep, PTL DEF Spec

\* The types of the whole, of every component at once.
THEOREM CommandsTypes == Spec => []TypeOK
<1>1. CommandsInv => TypeOK
  BY PgoInvTypes DEF CommandsInv, TypeOK, RunInv, LspInv, PassInv, MvInv, PgoInv, CountInv
<1> QED
  BY <1>1, CommandsInvariant, PTL

\* Whichever command a process is, for any values of the constants: no orphan, exact
\* and complete merges, outputs that follow their training, answers that admit what
\* they leave out, verified artifacts, one variant per root and the best one.
THEOREM EveryCommandIsSafe ==
    Spec => [](/\ NoOrphan /\ UnmarkedIsExact /\ MergesEveryListedRun
               /\ OutputsFollowTraining /\ OmissionIsReportedBelowLimits
               /\ ArtifactIsVerified /\ OnlyBrokenPassesFail
               /\ OneVariantPerRoot /\ BestTierForEveryHost)
<1>1. ASSUME CommandsInv
      PROVE  /\ NoOrphan /\ UnmarkedIsExact /\ MergesEveryListedRun
             /\ OutputsFollowTraining /\ OmissionIsReportedBelowLimits
             /\ ArtifactIsVerified /\ OnlyBrokenPassesFail
             /\ OneVariantPerRoot /\ BestTierForEveryHost
  BY <1>1, RunInvSafe, CountInvExact, ListInvComplete, PgoInvOutputs, OmissionIsMarked,
     PassInvSafe, MvInvSafe
     DEF CommandsInv, PgoInv, LspInv
<1> QED
  BY <1>1, CommandsInvariant, PTL

\* And no answer of the language server mixes the disk with an open document.
THEOREM OpenTextOfCommands == Spec => OpenTextShadowsDisk
<1>1. CommandsInv /\ [Next]_commandVars =>
        [answer' # answer =>
            \A s \in answer'.items :
                /\ s.file \in OpenFiles => \E u \in OpenUris(s.file) : shown[u].text = s.text
                /\ \A r \in answer'.items : r.file = s.file => r = s]_lspVars
  BY CommandSteps, ShadowStep DEF CommandsInv
<1> QED
  BY <1>1, CommandsInvariant, PTL DEF Spec, OpenTextShadowsDisk

\* In the whole as in `ckc run` alone, a kill can go astray only between the
\* return of wait and the clearing of the cell.
THEOREM StrayWindowOfCommands == Spec => StrayOnlyBeforeDisarm
<1>1. CommandsInv /\ [Next]_commandVars => [stray' # stray => parent = "disarm"]_runVars
  BY CommandSteps, StrayStep DEF CommandsInv
<1> QED
  BY <1>1, CommandsInvariant, PTL DEF Spec, StrayOnlyBeforeDisarm
=============================================================================
