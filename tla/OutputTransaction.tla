-------------------------- MODULE OutputTransaction --------------------------
(***************************************************************************)
(* The multi-file output transaction of the command line (cli/output.rs):  *)
(* every output is staged beside its destination, then each destination in *)
(* turn is renamed to a backup and replaced by its stage; an error rolls   *)
(* back in reverse order, success discards the backups, and dropping the   *)
(* transaction retries what is left.  Any file operation may fail and the  *)
(* process may die between any two of them.                                *)
(*                                                                         *)
(* A destination is its canonical identity; the contents of a file are     *)
(* Absent, Old, or the number of the request that wrote it.                *)
(***************************************************************************)
EXTENDS Integers, SequencesExt

CONSTANTS Destinations, \* identities of output files
          RequestLists, \* the outputs a command may ask for, in stage order
          FaultyOps,    \* the file operations that may fail
          MaxFaults     \* failures in one behaviour

ASSUME TransactionAssumption ==
    /\ RequestLists \subseteq Seq(Destinations)
    /\ MaxFaults \in Nat

Absent == -1
Old == 0
Contents == Nat \cup {Absent}

VARIABLES requests,  \* the outputs of this command
          entry0,    \* the destinations as the command found them
          disk,      \* the destinations
          staged,    \* request -> what its staging file holds
          backup,    \* request -> what its backup file holds
          entries,   \* the staged requests: is the backup held, is it committed
          phase,     \* where the process is
          at,        \* the entry the current loop is at
          result,    \* what commit returns: "none", "ok" or "error"
          failures   \* the operations that failed

vars == <<requests, entry0, disk, staged, backup, entries, phase, at, result, failures>>

files == <<disk, staged, backup>>

Init ==
    /\ requests \in RequestLists
    /\ entry0 \in [Destinations -> {Absent, Old}]
    /\ disk = entry0
    /\ staged = [i \in DOMAIN requests |-> Absent]
    /\ backup = [i \in DOMAIN requests |-> Absent]
    /\ entries = <<>>
    /\ phase = "staging"
    /\ at = 1
    /\ result = "none"
    /\ failures = {}

Dest(i) == requests[i]

\* An operation fails at most once, and MaxFaults of them in all.
Fails(op) ==
    /\ op \in FaultyOps \ failures
    /\ Cardinality(failures) < MaxFaults
    /\ failures' = failures \cup {op}

-----------------------------------------------------------------------------
(* stage, once per request. *)

Duplicate(i) == \E j \in DOMAIN entries : Dest(j) = Dest(i)

\* Mutant: only the neighbour is compared.
StageBesideNeighbour ==
    /\ phase = "staging" /\ at <= Len(requests)
    /\ ~(at > 2 /\ Dest(at) = Dest(at - 1))
    /\ staged' = [staged EXCEPT ![at] = at]
    /\ entries' = Append(entries, [held |-> FALSE, committed |-> FALSE])
    /\ at' = at + 1
    /\ UNCHANGED <<requests, entry0, disk, backup, phase, result, failures>>

Stage ==
    /\ phase = "staging" /\ at <= Len(requests)
    /\ ~Duplicate(at)
    /\ staged' = [staged EXCEPT ![at] = at]
    /\ entries' = Append(entries, [held |-> FALSE, committed |-> FALSE])
    /\ at' = at + 1
    /\ UNCHANGED <<requests, entry0, disk, backup, phase, result, failures>>

\* A repeated destination, or an error before the file is complete (what was
\* written is removed): the command gives up and drops the transaction.
StageFails ==
    /\ phase = "staging" /\ at <= Len(requests)
    /\ \/ Duplicate(at) /\ UNCHANGED failures
       \/ Fails("stage")
    /\ result' = "error"
    /\ phase' = "drop" /\ at' = 1
    /\ UNCHANGED <<requests, entry0, files, entries>>

BeginCommit ==
    /\ phase = "staging" /\ at > Len(requests)
    /\ phase' = "check" /\ at' = 1
    /\ UNCHANGED <<requests, entry0, files, entries, result, failures>>

-----------------------------------------------------------------------------
(* commit_inner: for each entry check, back up, replace. *)

RollBack ==
    /\ result' = "error"
    /\ phase' = "remove-new" /\ at' = Len(entries)

\* The destination still has its identity and is no symlink.
Check ==
    /\ phase = "check" /\ at <= Len(entries)
    /\ phase' = IF disk[Dest(at)] = Absent THEN "replace" ELSE "backup"
    /\ UNCHANGED <<requests, entry0, files, entries, at, result, failures>>

\* The destination moves to its backup name.
Backup ==
    /\ phase = "backup"
    /\ backup' = [backup EXCEPT ![at] = disk[Dest(at)]]
    /\ disk' = [disk EXCEPT ![Dest(at)] = Absent]
    /\ entries' = [entries EXCEPT ![at].held = TRUE]
    /\ phase' = "replace"
    /\ UNCHANGED <<requests, entry0, staged, at, result, failures>>

\* Mutant: the backup is discarded as soon as its destination is replaced.
ReplaceAndDiscard ==
    /\ phase = "replace"
    /\ disk' = [disk EXCEPT ![Dest(at)] = staged[at]]
    /\ staged' = [staged EXCEPT ![at] = Absent]
    /\ backup' = [backup EXCEPT ![at] = Absent]
    /\ entries' = [entries EXCEPT ![at] = [held |-> FALSE, committed |-> TRUE]]
    /\ phase' = "check" /\ at' = at + 1
    /\ UNCHANGED <<requests, entry0, result, failures>>

\* The stage takes its place.
Replace ==
    /\ phase = "replace"
    /\ disk' = [disk EXCEPT ![Dest(at)] = staged[at]]
    /\ staged' = [staged EXCEPT ![at] = Absent]
    /\ entries' = [entries EXCEPT ![at].committed = TRUE]
    /\ phase' = "check" /\ at' = at + 1
    /\ UNCHANGED <<requests, entry0, backup, result, failures>>

\* Any of the three steps fails.
CommitFails ==
    /\ phase \in {"check", "backup", "replace"} /\ at <= Len(entries)
    /\ Fails(phase)
    /\ RollBack
    /\ UNCHANGED <<requests, entry0, files, entries>>

BeginDiscard ==
    /\ phase = "check" /\ at > Len(entries)
    /\ phase' = "discard" /\ at' = 1
    /\ UNCHANGED <<requests, entry0, files, entries, result, failures>>

\* The backup is let go of before the attempt to remove it; a failed removal
\* returns at once, with no rollback and the later backups still held.
Discard ==
    /\ phase = "discard" /\ at <= Len(entries)
    /\ entries' = [entries EXCEPT ![at].held = FALSE]
    /\ \/ /\ backup' = [backup EXCEPT ![at] = Absent]
          /\ at' = at + 1
          /\ UNCHANGED <<phase, result, failures>>
       \/ /\ entries[at].held
          /\ Fails("discard")
          /\ result' = "error"
          /\ phase' = "drop" /\ at' = 1
          /\ UNCHANGED backup
    /\ UNCHANGED <<requests, entry0, disk, staged>>

EndCommit ==
    /\ phase = "discard" /\ at > Len(entries)
    /\ result' = "ok"
    /\ phase' = "drop" /\ at' = 1
    /\ UNCHANGED <<requests, entry0, files, entries, failures>>

-----------------------------------------------------------------------------
(* rollback, last entry first: remove what was committed, restore the backup. *)

RemoveNew ==
    /\ phase = "remove-new" /\ at >= 1
    /\ IF entries[at].committed
       THEN \/ disk' = [disk EXCEPT ![Dest(at)] = Absent] /\ UNCHANGED failures
            \/ Fails("remove-new") /\ UNCHANGED disk
       ELSE UNCHANGED <<disk, failures>>
    /\ entries' = [entries EXCEPT ![at].committed = FALSE]
    /\ phase' = "restore"
    /\ UNCHANGED <<requests, entry0, staged, backup, at, result>>

\* Mutant: a backup that could not be restored is forgotten.
RestoreAndForget ==
    /\ phase = "restore"
    /\ IF entries[at].held
       THEN \/ /\ disk' = [disk EXCEPT ![Dest(at)] = backup[at]]
               /\ backup' = [backup EXCEPT ![at] = Absent]
               /\ UNCHANGED failures
            \/ Fails("restore") /\ UNCHANGED <<disk, backup>>
       ELSE UNCHANGED <<disk, backup, failures>>
    /\ entries' = [entries EXCEPT ![at].held = FALSE]
    /\ phase' = "remove-new" /\ at' = at - 1
    /\ UNCHANGED <<requests, entry0, staged, result>>

\* A backup that cannot be restored stays held, for the drop to try again.
Restore ==
    /\ phase = "restore"
    /\ IF entries[at].held
       THEN \/ /\ disk' = [disk EXCEPT ![Dest(at)] = backup[at]]
               /\ backup' = [backup EXCEPT ![at] = Absent]
               /\ entries' = [entries EXCEPT ![at].held = FALSE]
               /\ UNCHANGED failures
            \/ Fails("restore") /\ UNCHANGED <<disk, backup, entries>>
       ELSE UNCHANGED <<disk, backup, entries, failures>>
    /\ phase' = "remove-new" /\ at' = at - 1
    /\ UNCHANGED <<requests, entry0, staged, result>>

EndRollback ==
    /\ phase = "remove-new" /\ at = 0
    /\ phase' = "drop" /\ at' = 1
    /\ UNCHANGED <<requests, entry0, files, entries, result, failures>>

-----------------------------------------------------------------------------
(* Drop, on every way out: remove the stage, restore a backup still held. *)

DropStage ==
    /\ phase = "drop" /\ at <= Len(entries)
    /\ \/ staged' = [staged EXCEPT ![at] = Absent] /\ UNCHANGED failures
       \/ staged[at] # Absent /\ Fails("drop-stage") /\ UNCHANGED staged
    /\ phase' = "drop-backup"
    /\ UNCHANGED <<requests, entry0, disk, backup, entries, at, result>>

DropBackup ==
    /\ phase = "drop-backup"
    /\ IF entries[at].held
       THEN \/ /\ disk' = [disk EXCEPT ![Dest(at)] = backup[at]]
               /\ backup' = [backup EXCEPT ![at] = Absent]
               /\ UNCHANGED failures
            \/ Fails("drop-backup") /\ UNCHANGED <<disk, backup>>
       ELSE UNCHANGED <<disk, backup, failures>>
    /\ phase' = "drop" /\ at' = at + 1
    /\ UNCHANGED <<requests, entry0, staged, entries, result>>

EndDrop ==
    /\ phase = "drop" /\ at > Len(entries)
    /\ phase' = "ended"
    /\ UNCHANGED <<requests, entry0, files, entries, at, result, failures>>

\* The process is killed: nothing more runs, not even the drop.
Crash ==
    /\ phase \notin {"ended", "crashed"}
    /\ phase' = "crashed"
    /\ UNCHANGED <<requests, entry0, files, entries, at, result, failures>>

Next ==
    \/ Stage \/ StageFails \/ BeginCommit
    \/ Check \/ Backup \/ Replace \/ CommitFails \/ BeginDiscard
    \/ Discard \/ EndCommit
    \/ RemoveNew \/ Restore \/ EndRollback
    \/ DropStage \/ DropBackup \/ EndDrop
    \/ Crash

Spec == Init /\ [][Next]_vars

-----------------------------------------------------------------------------
(* Properties. *)

Phases == {"staging", "check", "backup", "replace", "discard", "remove-new",
           "restore", "drop", "drop-backup", "ended", "crashed"}

Requested == {Dest(i) : i \in DOMAIN requests}

\* Every variable keeps its shape, and an entry holds a backup exactly while a
\* backup file of its own is there to be restored.
TypeOK ==
    /\ disk \in [Destinations -> Contents]
    /\ staged \in [DOMAIN requests -> Contents]
    /\ backup \in [DOMAIN requests -> Contents]
    /\ entries \in Seq([held : BOOLEAN, committed : BOOLEAN])
    /\ phase \in Phases
    /\ at \in 0 .. Len(requests) + 1
    /\ result \in {"none", "ok", "error"}
    /\ failures \subseteq FaultyOps
    /\ phase \notin {"drop", "drop-backup", "ended", "crashed"} =>
          \A i \in DOMAIN entries : entries[i].held <=> backup[i] # Absent

\* A command that reports success has replaced every output, its own content
\* in each, and left no staging or backup file behind.
SuccessReplacesAll ==
    phase = "ended" /\ result = "ok" =>
        \A i \in DOMAIN requests :
            /\ disk[Dest(i)] = i
            /\ backup[i] = Absent
            /\ staged[i] = Absent

\* A command that reports an error has left every destination as it found it,
\* even if one restore failed during the rollback, unless the last attempt to
\* restore a file, or to remove a new one, failed too, or every output was in
\* place already and only the removal of a backup failed.
FailureRestoresAll ==
    phase = "ended" /\ result = "error" /\ "discard" \notin failures =>
        \A d \in Destinations :
            \/ disk[d] = entry0[d]
            \/ entry0[d] = Old /\ "drop-backup" \in failures
            \/ entry0[d] = Absent /\ "remove-new" \in failures

\* At no instant, whatever failed and even if the process dies now, is an old
\* output gone before every new one is in place: it is at its destination or
\* in a backup beside it (the window between the two renames of an entry).
NothingLost ==
    \/ \A d \in Destinations : entry0[d] = Old =>
          \/ disk[d] = Old
          \/ \E i \in DOMAIN requests : Dest(i) = d /\ backup[i] = Old
    \/ \A i \in DOMAIN requests : disk[Dest(i)] = i
    \/ "discard" \in failures

\* The outputs of a command move together (docs/reference/cli.md:121, "commit
\* as one transaction"): a command that was not killed, and whose rollback did
\* not itself fail, leaves all of them new or none.
OutputsMoveTogether ==
    phase = "ended" /\ failures \cap {"remove-new", "restore", "drop-backup"} = {} =>
        \/ \A i \in DOMAIN requests : disk[Dest(i)] = i
        \/ disk = entry0
=============================================================================
