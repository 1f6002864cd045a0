---------------------------- MODULE ProfileMerge ----------------------------
(***************************************************************************)
(* Merging profile shards (profile/merge.rs): every input is a shard file   *)
(* or a directory of them; the completed shards are listed, read one by     *)
(* one, put in the order of their digests and added up with saturation.     *)
(* Meanwhile instrumented processes publish further shards, leave           *)
(* temporaries behind, and files go away.                                   *)
(*                                                                         *)
(* A shard is known by its digest, a number in the order of the digests.    *)
(* Its counters are cells; the cells of a histogram or of a table of        *)
(* constants share one flag that says that one of them is saturated.        *)
(***************************************************************************)
EXTENDS Integers, Sequences, FiniteSets

CONSTANTS Files,     \* file names that may appear in the directory
          Kind,      \* file -> "shard", "temporary", "final" or "other", by name
          Holds,     \* file -> the digest of its shard, or Broken
          Digests,   \* the digests of the shards there are
          Shards,    \* digest -> the shard
          Cells,     \* counter cells
          Tables,    \* counters of several cells
          TableOf,   \* cell -> its table; a scalar has none
          Max,       \* the largest value of a cell, 2^64 - 1 in the code
          MaxShards, \* CK_PROFILE_MAX_SHARDS
          Inputs     \* the input lists, of Dir and of file names

Dir == 0
Broken == -1

Scalars == {c \in Cells : TableOf[c] \notin Tables}

Shard == [run : Nat, identity : Nat, count : [Cells -> 0 .. Max],
          flag : [Tables -> BOOLEAN], overflowed : BOOLEAN, incomplete : BOOLEAN]

ASSUME MergeAssumption ==
    /\ Max \in Nat /\ MaxShards \in Nat
    /\ Digests \subseteq Nat
    /\ Shards \in [Digests -> Shard]
    /\ Holds \in [Files -> Digests \cup {Broken}]

VARIABLES dir,        \* the files of the directory
          gone,       \* the files that were removed
          inputs,     \* the inputs of this merge
          pc,         \* where the merge is
          next,       \* the input to scan next
          listed,     \* what the scan found: <<input, file>>
          loaded,     \* the part of it that was read
          merged,     \* the digests added up so far
          count,      \* cell -> the aggregate
          flag,       \* table -> the aggregate is saturated
          overflowed, \* the aggregate is too low somewhere
          incomplete, \* an observation is missing from a shard
          totals      \* cell -> what the merged shards add up to (history)

files == <<dir, gone>>
aggregate == <<merged, count, flag, overflowed, incomplete, totals>>
mergeVars == <<files, inputs, pc, next, listed, loaded, aggregate>>

MergeInit ==
    /\ dir \in SUBSET Files /\ gone = {}
    /\ inputs \in Inputs
    /\ pc = "scan" /\ next = 1
    /\ listed = {} /\ loaded = {} /\ merged = {}
    /\ count = [c \in Cells |-> 0] /\ totals = [c \in Cells |-> 0]
    /\ flag = [t \in Tables |-> FALSE]
    /\ overflowed = FALSE /\ incomplete = FALSE

Fail ==
    /\ pc' = "error"
    /\ UNCHANGED <<files, inputs, next, listed, loaded, aggregate>>

-----------------------------------------------------------------------------
(* scan_input *)

Completed(f) == Kind[f] = "shard"

\* A directory with a terminal profile in it is no directory of shards; its
\* temporaries and unrelated files are passed over.
Listing(input) ==
    IF input = Dir THEN {f \in dir : Completed(f)} ELSE {input}

Refused(input) ==
    IF input = Dir THEN \E f \in dir : Kind[f] = "final"
    ELSE input \notin dir \/ ~Completed(input)

Scan ==
    /\ pc = "scan" /\ next <= Len(inputs)
    /\ ~Refused(inputs[next])
    /\ listed' = listed \cup ({next} \X Listing(inputs[next]))
    /\ next' = next + 1
    /\ UNCHANGED <<files, inputs, pc, loaded, aggregate>>

ScanFails ==
    /\ pc = "scan" /\ next <= Len(inputs)
    /\ Refused(inputs[next])
    /\ Fail

BeginRead ==
    /\ pc = "scan" /\ next > Len(inputs)
    /\ inputs # <<>> /\ Cardinality(listed) <= MaxShards
    /\ pc' = "read"
    /\ UNCHANGED <<files, inputs, next, listed, loaded, aggregate>>

NothingToRead ==
    /\ pc = "scan" /\ next > Len(inputs)
    /\ inputs = <<>> \/ Cardinality(listed) > MaxShards
    /\ Fail

-----------------------------------------------------------------------------
(* merge_profile_inputs: read and parse in the order of the scan (any order *)
(* here), then refuse one content twice.                                    *)

Read(entry) ==
    /\ pc = "read" /\ entry \in listed \ loaded
    /\ entry[2] \in dir /\ Holds[entry[2]] # Broken
    /\ loaded' = loaded \cup {entry}
    /\ UNCHANGED <<files, inputs, pc, next, listed, aggregate>>

\* The file went away since it was listed, or is no shard.
ReadFails(entry) ==
    /\ pc = "read" /\ entry \in listed \ loaded
    /\ entry[2] \notin dir \/ Holds[entry[2]] = Broken
    /\ Fail

Content == {Holds[entry[2]] : entry \in loaded}

\* Mutant: the same content counts once instead of being refused.
BeginMergeOnce ==
    /\ pc = "read" /\ loaded = listed
    /\ loaded # {}
    /\ pc' = "merge"
    /\ UNCHANGED <<files, inputs, next, listed, loaded, aggregate>>

BeginMerge ==
    /\ pc = "read" /\ loaded = listed
    /\ loaded # {} /\ Cardinality(Content) = Cardinality(loaded)
    /\ pc' = "merge"
    /\ UNCHANGED <<files, inputs, next, listed, loaded, aggregate>>

EmptyOrRepeated ==
    /\ pc = "read" /\ loaded = listed
    /\ loaded = {} \/ Cardinality(Content) # Cardinality(loaded)
    /\ Fail

-----------------------------------------------------------------------------
(* merge_profile_shards *)

\* The next shard in the order of the digests, and the first one merged.
IsNext(d) == d \in Content \ merged /\ \A e \in Content \ merged : d <= e
First == CHOOSE d \in merged : \A e \in merged : d <= e

Compatible(d) ==
    /\ \A e \in merged : Shards[e].run # Shards[d].run
    /\ merged # {} => Shards[d].identity = Shards[First].identity

Overflows(c, x) == x > Max - count[c]

IsSaturated(s) == (\E c \in Scalars : s.count[c] = Max) \/ (\E t \in Tables : s.flag[t])

\* Mutant: the flag of a table follows the flags of the shards only.
AddKeepingFlags(d) ==
    LET s == Shards[d]
    IN  /\ pc = "merge" /\ IsNext(d) /\ Compatible(d)
        /\ count' = [c \in Cells |->
                        IF Overflows(c, s.count[c]) THEN Max ELSE count[c] + s.count[c]]
        /\ flag' = [t \in Tables |-> flag[t] \/ s.flag[t]]
        /\ overflowed' = (\/ overflowed \/ s.overflowed \/ IsSaturated(s)
                          \/ \E c \in Cells : Overflows(c, s.count[c]))
        /\ incomplete' = (incomplete \/ s.incomplete)
        /\ totals' = [c \in Cells |-> totals[c] + s.count[c]]
        /\ merged' = merged \cup {d}
        /\ UNCHANGED <<files, inputs, pc, next, listed, loaded>>

\* Every cell saturates; a saturated cell marks its table and the profile.
Add(d) ==
    LET s == Shards[d]
    IN  /\ pc = "merge" /\ IsNext(d) /\ Compatible(d)
        /\ count' = [c \in Cells |->
                        IF Overflows(c, s.count[c]) THEN Max ELSE count[c] + s.count[c]]
        /\ flag' = [t \in Tables |->
                        \/ flag[t] \/ s.flag[t]
                        \/ \E c \in Cells : TableOf[c] = t /\ Overflows(c, s.count[c])]
        /\ overflowed' = (\/ overflowed \/ s.overflowed \/ IsSaturated(s)
                          \/ \E c \in Cells : Overflows(c, s.count[c]))
        /\ incomplete' = (incomplete \/ s.incomplete)
        /\ totals' = [c \in Cells |-> totals[c] + s.count[c]]
        /\ merged' = merged \cup {d}
        /\ UNCHANGED <<files, inputs, pc, next, listed, loaded>>

\* A run merged already, or another module or site table.
AddFails(d) ==
    /\ pc = "merge" /\ IsNext(d) /\ ~Compatible(d)
    /\ Fail

Finish ==
    /\ pc = "merge" /\ merged = Content
    /\ pc' = "ok"
    /\ UNCHANGED <<files, inputs, next, listed, loaded, aggregate>>

-----------------------------------------------------------------------------
(* The other processes. *)

\* An instrumented process publishes its shard or leaves a temporary behind.
Appear(f) ==
    /\ f \notin dir \cup gone
    /\ dir' = dir \cup {f}
    /\ UNCHANGED <<gone, inputs, pc, next, listed, loaded, aggregate>>

Remove(f) ==
    /\ f \in dir
    /\ dir' = dir \ {f} /\ gone' = gone \cup {f}
    /\ UNCHANGED <<inputs, pc, next, listed, loaded, aggregate>>

MergeStep ==
    \/ Scan \/ ScanFails \/ BeginRead \/ NothingToRead
    \/ \E entry \in listed : Read(entry) \/ ReadFails(entry)
    \/ BeginMerge \/ EmptyOrRepeated
    \/ \E d \in Content : Add(d) \/ AddFails(d)
    \/ Finish

Environment == \E f \in Files : Appear(f) \/ Remove(f)

MergeNext == MergeStep \/ Environment

MergeSpec == MergeInit /\ [][MergeNext]_mergeVars

-----------------------------------------------------------------------------
(* Properties. *)

MergeTypeOK ==
    /\ dir \subseteq Files /\ gone \subseteq Files
    /\ pc \in {"scan", "read", "merge", "ok", "error"}
    /\ loaded \subseteq listed
    /\ merged \subseteq Digests
    /\ count \in [Cells -> 0 .. Max] /\ totals \in [Cells -> Nat]
    /\ flag \in [Tables -> BOOLEAN]
    /\ overflowed \in BOOLEAN /\ incomplete \in BOOLEAN

Unsaturated(c) == IF c \in Scalars THEN count[c] < Max ELSE ~flag[TableOf[c]]

\* A count that is not marked as saturated is exactly what the merged shards
\* add up to, and a count that is too low marks the whole profile: add_counter
\* and saturating_add, whatever the order of the digests.
UnmarkedIsExact ==
    \A c \in Cells :
        /\ Unsaturated(c) => count[c] = totals[c]
        /\ count[c] # totals[c] => overflowed

\* A merge that succeeds has added every shard that was complete when its
\* directory was listed, each one run, each once; scan_input drops none by its
\* name, and a shard that went away meanwhile is an error.
MergesEveryListedRun ==
    pc = "ok" =>
        /\ merged = {Holds[entry[2]] : entry \in listed}
        /\ \A p, q \in listed :
              p # q => Shards[Holds[p[2]]].run # Shards[Holds[q[2]]].run
=============================================================================
