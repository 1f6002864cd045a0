------------------------------ MODULE Commands ------------------------------
(***************************************************************************)
(* The commands of `ckc` (cli/mod.rs): those that live with other processes *)
(* - `run` with its child and the sender of signals, `pgo merge` with the   *)
(* processes that publish shards, `pgo build` with its training process,    *)
(* `lsp` with its editor - and `build` with the pass manager, or with       *)
(* `--cpu multiversion` and the threads of the program it makes.  A process *)
(* is one of them; the state of the others stays as it began.               *)
(***************************************************************************)
EXTENDS RunCommand, LanguageServer, PgoBuild, PassPipeline, Multiversion

VARIABLE command \* the first argument

commandVars == <<command, runVars, lspVars, pgoVars, passVars, mvVars>>

\* A component that is not the command starts in its first state.
Init ==
    /\ command \in {"run", "pgo merge", "pgo build", "lsp", "build", "build --cpu"}
    /\ RunInit /\ (command # "run" => previous = "default")
    /\ LspInit
    /\ MergeInit
    /\ command # "pgo merge" => dir = {} /\ inputs = <<Dir>>
    /\ Output!Init
    /\ command # "pgo build" => disk = [d \in Destinations |-> Output!Absent]
    /\ step = "create" /\ root = FALSE /\ training = "none" /\ outcome = "none"
    /\ PassInit
    /\ command # "build" =>
          stages = PlanOf("O0") /\ evidence.facts /\ \A f \in KirFunctions : evidence.body[f] = "plain"
    /\ MvInit
    /\ command # "build --cpu" =>
          eligible = {} /\ host = BaselineTier /\ score = [t \in Tiers |-> CHOOSE s \in Scores : TRUE]

Next ==
    \/ command = "run" /\ RunNext /\ UNCHANGED <<command, lspVars, pgoVars, passVars, mvVars>>
    \/ /\ command = "pgo merge" /\ MergeNext
       /\ UNCHANGED <<command, runVars, lspVars, outputVars, step, root, training, outcome, passVars, mvVars>>
    \/ command = "pgo build" /\ PgoNext /\ UNCHANGED <<command, runVars, lspVars, passVars, mvVars>>
    \/ command = "lsp" /\ LspNext /\ UNCHANGED <<command, runVars, pgoVars, passVars, mvVars>>
    \/ command = "build" /\ PassNext /\ UNCHANGED <<command, runVars, lspVars, pgoVars, mvVars>>
    \/ command = "build --cpu" /\ MvNext /\ UNCHANGED <<command, runVars, lspVars, pgoVars, passVars>>

\* The parent of `run` is scheduled, and SIGINT ends the child it reaches.
Fairness ==
    LET running(A) ==
            command = "run" /\ A /\ UNCHANGED <<command, lspVars, pgoVars, passVars, mvVars>>
    IN  WF_commandVars(running(ParentStep)) /\ WF_commandVars(running(signalled /\ ChildDies))

Spec == Init /\ [][Next]_commandVars /\ Fairness

TypeOK == RunTypeOK /\ LspTypeOK /\ MergeTypeOK /\ PgoTypeOK /\ PassTypeOK /\ MvTypeOK
=============================================================================
