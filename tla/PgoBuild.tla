------------------------------ MODULE PgoBuild ------------------------------
(***************************************************************************)
(* `ckc pgo build` (cli/pgo.rs): an instrumented build in a private         *)
(* directory, a training run of it, the merge of its shards, the final      *)
(* build with the merged profile, and one transaction for the executable    *)
(* and the profile.  The merge is ProfileMerge with the private directory   *)
(* as its input, the transaction is OutputTransaction with two outputs.     *)
(***************************************************************************)
EXTENDS ProfileMerge

CONSTANTS Destinations, \* identities of the executable and of the profile
          RequestLists, \* the two of them, in stage order
          FaultyOps,    \* as in OutputTransaction
          MaxFaults

ASSUME PgoAssumption == RequestLists \subseteq Seq(Destinations) /\ MaxFaults \in Nat

VARIABLES requests, entry0, disk, staged, backup, entries, phase, at, result,
          failures \* the variables of OutputTransaction

Output == INSTANCE OutputTransaction

outputVars == <<requests, entry0, disk, staged, backup, entries, phase, at,
                result, failures>>

VARIABLES step,     \* where the workflow is
          root,     \* the private directory exists
          training, \* how the training process ended
          outcome   \* what the command returns: "none", "ok" or "error"

pgoVars == <<mergeVars, outputVars, step, root, training, outcome>>

PgoInit ==
    /\ MergeInit /\ dir = {} /\ inputs = <<Dir>>
    /\ Output!Init
    /\ step = "create" /\ root = FALSE /\ training = "none" /\ outcome = "none"

Goto(from, to) == step = from /\ step' = to

GiveUp(from) ==
    /\ Goto(from, "drop")
    /\ outcome' = "error"
    /\ UNCHANGED <<mergeVars, outputVars, root, training>>

-----------------------------------------------------------------------------
\* A directory of this process that nobody has, tried up to 128 times.
CreateRoot ==
    /\ Goto("create", "generate")
    /\ root' = TRUE
    /\ UNCHANGED <<mergeVars, outputVars, training, outcome>>

CreateFails ==
    /\ Goto("create", "exit")
    /\ outcome' = "error"
    /\ UNCHANGED <<mergeVars, outputVars, root, training>>

Generate ==
    /\ Goto("generate", "train")
    /\ training' = "running"
    /\ UNCHANGED <<mergeVars, outputVars, root, outcome>>

\* The directory of shards, the instrumented build, or starting it fails.
GenerateFails == GiveUp("generate")

\* The training process publishes a shard or leaves a temporary.
TrainingWrites ==
    /\ step = "train" /\ training = "running"
    /\ \E f \in Files : Appear(f)
    /\ UNCHANGED <<outputVars, step, root, training, outcome>>

TrainingEnds(how) ==
    /\ step = "train" /\ training = "running"
    /\ training' = how
    /\ UNCHANGED <<mergeVars, outputVars, step, root, outcome>>

\* Mutant: only a training process that was killed is an error.
TrainedSomehow ==
    /\ Goto("train", "merge")
    /\ training \in {"success", "failure"}
    /\ UNCHANGED <<mergeVars, outputVars, root, training, outcome>>

\* Nothing but a successful exit of the training process counts.
Trained ==
    /\ Goto("train", "merge")
    /\ training = "success"
    /\ UNCHANGED <<mergeVars, outputVars, root, training, outcome>>

TrainingFailed ==
    /\ training \in {"failure", "abnormal"}
    /\ GiveUp("train")

MergeShards ==
    /\ step = "merge"
    /\ MergeStep
    /\ UNCHANGED <<outputVars, step, root, training, outcome>>

\* Exactly one completed shard goes on to the final build.
Merged ==
    /\ Goto("merge", "rebuild")
    /\ pc = "ok" /\ Cardinality(merged) = 1
    /\ UNCHANGED <<mergeVars, outputVars, root, training, outcome>>

NotOneShard ==
    /\ pc = "error" \/ (pc = "ok" /\ Cardinality(merged) # 1)
    /\ GiveUp("merge")

Rebuild ==
    /\ Goto("rebuild", "commit")
    /\ UNCHANGED <<mergeVars, outputVars, root, training, outcome>>

\* The profile, the final build, or the path of an output is not usable.
RebuildFails == GiveUp("rebuild")

\* The transaction runs to the end of its drop, the directory is next.
Commit ==
    /\ step = "commit" /\ phase # "ended"
    /\ Output!Next /\ phase' # "crashed"
    /\ UNCHANGED <<mergeVars, step, root, training, outcome>>

Committed ==
    /\ Goto("commit", "drop")
    /\ phase = "ended"
    /\ outcome' = result
    /\ UNCHANGED <<mergeVars, outputVars, root, training>>

\* remove_dir_all, whose failure is ignored.
DropRoot ==
    /\ Goto("drop", "exit")
    /\ root' \in {FALSE, TRUE}
    /\ UNCHANGED <<mergeVars, outputVars, training, outcome>>

\* The command has no handler of its own: a signal ends it where it stands.
PgoKilled ==
    /\ step \notin {"exit", "killed"}
    /\ step' = "killed"
    /\ IF step = "commit" /\ phase # "ended"
       THEN Output!Crash
       ELSE UNCHANGED outputVars
    /\ UNCHANGED <<mergeVars, root, training, outcome>>

PgoNext ==
    \/ CreateRoot \/ CreateFails \/ Generate \/ GenerateFails
    \/ TrainingWrites
    \/ \E how \in {"success", "failure", "abnormal"} : TrainingEnds(how)
    \/ Trained \/ TrainingFailed
    \/ MergeShards \/ Merged \/ NotOneShard
    \/ Rebuild \/ RebuildFails
    \/ Commit \/ Committed \/ DropRoot
    \/ PgoKilled

PgoSpec == PgoInit /\ [][PgoNext]_pgoVars

-----------------------------------------------------------------------------
PgoTypeOK ==
    /\ step \in {"create", "generate", "train", "merge", "rebuild", "commit",
                 "drop", "exit", "killed"}
    /\ root \in BOOLEAN
    /\ training \in {"none", "running", "success", "failure", "abnormal"}
    /\ outcome \in {"none", "ok", "error"}
    /\ Output!TypeOK

\* An output of pgo build changes only after a training run that succeeded and
\* left one shard, with counts that are that shard's; a command that returns
\* success has replaced both outputs, one that returns an error for a reason
\* other than the transaction has touched neither: run_native_build_workflow.
OutputsFollowTraining ==
    /\ disk # entry0 =>
          /\ training = "success"
          /\ \E d \in Digests : merged = {d} /\ count = Shards[d].count
    /\ step = "exit" /\ outcome = "ok" =>
          \A i \in DOMAIN requests : disk[requests[i]] = i
    /\ step = "exit" /\ outcome = "error" /\ failures = {} => disk = entry0
=============================================================================
