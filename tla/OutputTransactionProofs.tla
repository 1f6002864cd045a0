----------------------- MODULE OutputTransactionProofs -----------------------
(***************************************************************************)
(* What the output transaction guarantees for any number of outputs, any   *)
(* destinations and any failures.  The invariant says, for each place of   *)
(* the process, what became of the outputs before, at and behind the entry *)
(* the current loop is at: left alone, backed up, replaced, taken back.    *)
(***************************************************************************)
EXTENDS OutputTransaction, SequenceTheorems, TLAPS

\* What the destination of entry i held when the command began.
Found(i) == entry0[Dest(i)]

\* Entry i has only been staged.
Untouched(i) ==
    /\ ~entries[i].held /\ ~entries[i].committed
    /\ disk[Dest(i)] = Found(i) /\ backup[i] = Absent /\ staged[i] = i

\* Its destination was moved away, the stage is still to take its place.
BackedUp(i) ==
    /\ entries[i].held /\ ~entries[i].committed
    /\ Found(i) = Old
    /\ disk[Dest(i)] = Absent /\ backup[i] = Old /\ staged[i] = i

\* The new output is in place.
InPlace(i) == disk[Dest(i)] = i /\ staged[i] = Absent

\* A backup is there, and held, exactly if there was something to back up.
BackupFits(i) ==
    /\ backup[i] = Found(i)
    /\ entries[i].held <=> Found(i) = Old

Replaced(i) == InPlace(i) /\ BackupFits(i) /\ entries[i].committed

\* The rollback went past it: its destination is as found, or a failed removal
\* left the new output, or a failed restore left the backup, still held.
RolledBack(i) ==
    \/ /\ ~entries[i].held /\ backup[i] = Absent
       /\ \/ disk[Dest(i)] = Found(i)
          \/ Found(i) = Absent /\ "remove-new" \in failures
    \/ entries[i].held /\ backup[i] = Old /\ Found(i) = Old

\* The drop went past it too.
Settled(i) ==
    \/ disk[Dest(i)] = Found(i)
    \/ Found(i) = Old /\ backup[i] = Old /\ "drop-backup" \in failures
    \/ Found(i) = Absent /\ "remove-new" \in failures

Staged == DOMAIN entries
Before == {i \in Staged : i < at}
Behind == {i \in Staged : i > at}

-----------------------------------------------------------------------------
(* The invariant, by what the process is doing. *)

EntryState == [held : BOOLEAN, committed : BOOLEAN]

Shape ==
    /\ requests \in Seq(Destinations)
    /\ entry0 \in [Destinations -> {Absent, Old}]
    /\ disk \in [Destinations -> Contents]
    /\ staged \in [DOMAIN requests -> Contents]
    /\ backup \in [DOMAIN requests -> Contents]
    /\ entries \in Seq(EntryState)
    /\ phase \in Phases
    /\ result \in {"none", "ok", "error"}
    /\ failures \subseteq FaultyOps

\* No two entries share a destination, and nothing else is touched.
Apart ==
    /\ Len(entries) <= Len(requests)
    /\ \A i, j \in Staged : Dest(i) = Dest(j) => i = j
    /\ \A d \in Destinations : (\A i \in Staged : Dest(i) # d) => disk[d] = entry0[d]
    /\ \A i \in DOMAIN requests \ Staged : backup[i] = Absent

AtFits ==
    /\ at \in 0 .. Len(entries) + 1
    /\ phase \in {"backup", "replace", "restore", "drop-backup"} => at \in Staged
    /\ phase \in {"check", "discard", "drop"} => at >= 1
    /\ phase = "remove-new" => at <= Len(entries)
    /\ phase \in {"staging", "ended"} => at = Len(entries) + 1
    /\ phase \in {"check", "backup", "replace", "discard"} => Len(entries) = Len(requests)

Staging == phase = "staging" => \A i \in Staged : Untouched(i)

Committing ==
    phase \in {"check", "backup", "replace"} =>
        /\ \A i \in Before : Replaced(i)
        /\ \A i \in Behind : Untouched(i)
        /\ phase = "check" /\ at \in Staged => Untouched(at)
        /\ phase = "backup" => Untouched(at) /\ Found(at) = Old
        /\ phase = "replace" => BackedUp(at) \/ (Untouched(at) /\ Found(at) = Absent)

Discarding ==
    phase = "discard" =>
        \A i \in Staged :
            /\ InPlace(i)
            /\ IF i < at THEN ~entries[i].held /\ backup[i] = Absent ELSE BackupFits(i)

RollingBack ==
    phase \in {"remove-new", "restore"} =>
        /\ result = "error"
        /\ \A i \in Before : Untouched(i) \/ BackedUp(i) \/ Replaced(i)
        /\ \A i \in Behind : RolledBack(i)
        /\ at \in Staged =>
              IF phase = "restore" THEN RolledBack(at)
              ELSE Untouched(at) \/ BackedUp(at) \/ Replaced(at)

Dropping ==
    phase \in {"drop", "drop-backup", "ended"} =>
        \/ /\ result = "ok" /\ Len(entries) = Len(requests)
           /\ \A i \in Staged : InPlace(i) /\ backup[i] = Absent /\ ~entries[i].held
        \/ result = "error" /\ "discard" \in failures
        \/ /\ result = "error"
           /\ \A i \in Before : Settled(i)
           /\ \A i \in Behind : RolledBack(i)
           /\ at \in Staged => RolledBack(at)

OutputInv ==
    /\ Shape /\ Apart /\ AtFits
    /\ Staging /\ Committing /\ Discarding /\ RollingBack /\ Dropping
    /\ phase = "crashed" => NothingLost

-----------------------------------------------------------------------------
(* Entries are numbered like the requests they stage. *)

LEMMA EntryFacts ==
    ASSUME Shape, Apart
    PROVE  /\ Staged = 1 .. Len(entries) /\ Len(entries) \in Nat
           /\ DOMAIN requests = 1 .. Len(requests) /\ Len(requests) \in Nat
           /\ Staged \subseteq DOMAIN requests
           /\ \A i \in Staged : Dest(i) \in Destinations /\ entries[i] \in EntryState
<1>1. /\ Staged = 1 .. Len(entries) /\ Len(entries) \in Nat
      /\ DOMAIN requests = 1 .. Len(requests) /\ Len(requests) \in Nat
  BY LenProperties DEF Shape, Staged
<1>2. Staged \subseteq DOMAIN requests
  BY <1>1 DEF Apart
<1>3. \A i \in Staged : requests[i] \in Destinations /\ entries[i] \in EntryState
  BY <1>1, <1>2, ElementOfSeq DEF Shape
<1> QED
  BY <1>1, <1>2, <1>3 DEF Dest

\* Taking or letting go of a backup changes one field of one entry.
LEMMA HeldUpdated ==
    ASSUME Shape, at \in Staged, NEW b \in BOOLEAN,
           entries' = [entries EXCEPT ![at].held = b]
    PROVE  /\ entries' \in Seq(EntryState) /\ Len(entries') = Len(entries) /\ Staged' = Staged
           /\ \A i \in Staged : i # at => entries'[i] = entries[i]
           /\ entries'[at].held = b /\ entries'[at].committed = entries[at].committed
<1> DEFINE e == [entries[at] EXCEPT !.held = b]
<1>1. entries \in Seq(EntryState) /\ at \in 1 .. Len(entries) /\ Staged = 1 .. Len(entries)
  BY LenProperties DEF Shape, Staged
<1>2. entries[at] \in EntryState
  BY <1>1, ElementOfSeq
<1>3. e \in EntryState /\ e.held = b /\ e.committed = entries[at].committed
  BY <1>2 DEF EntryState
<1>4. entries' = [entries EXCEPT ![at] = e]
  OBVIOUS
<1> HIDE DEF e
<1>5. /\ entries' \in Seq(EntryState) /\ Len(entries') = Len(entries)
      /\ \A i \in 1 .. Len(entries) : entries'[i] = IF i = at THEN e ELSE entries[i]
  BY <1>1, <1>3, <1>4, ExceptSeq
<1>6. Staged' = Staged
  BY <1>1, <1>5, LenProperties DEF Staged
<1> QED
  BY <1>1, <1>3, <1>5, <1>6

\* So does committing it or taking that back.
LEMMA CommittedUpdated ==
    ASSUME Shape, at \in Staged, NEW b \in BOOLEAN,
           entries' = [entries EXCEPT ![at].committed = b]
    PROVE  /\ entries' \in Seq(EntryState) /\ Len(entries') = Len(entries) /\ Staged' = Staged
           /\ \A i \in Staged : i # at => entries'[i] = entries[i]
           /\ entries'[at].committed = b /\ entries'[at].held = entries[at].held
<1> DEFINE e == [entries[at] EXCEPT !.committed = b]
<1>1. entries \in Seq(EntryState) /\ at \in 1 .. Len(entries) /\ Staged = 1 .. Len(entries)
  BY LenProperties DEF Shape, Staged
<1>2. entries[at] \in EntryState
  BY <1>1, ElementOfSeq
<1>3. e \in EntryState /\ e.committed = b /\ e.held = entries[at].held
  BY <1>2 DEF EntryState
<1>4. entries' = [entries EXCEPT ![at] = e]
  OBVIOUS
<1> HIDE DEF e
<1>5. /\ entries' \in Seq(EntryState) /\ Len(entries') = Len(entries)
      /\ \A i \in 1 .. Len(entries) : entries'[i] = IF i = at THEN e ELSE entries[i]
  BY <1>1, <1>3, <1>4, ExceptSeq
<1>6. Staged' = Staged
  BY <1>1, <1>5, LenProperties DEF Staged
<1> QED
  BY <1>1, <1>3, <1>5, <1>6

\* The initial states satisfy the invariant (output.rs: OutputTransaction::new).
LEMMA OutputInvInit == Init => OutputInv
<1> SUFFICES ASSUME Init PROVE OutputInv
  OBVIOUS
<1> USE DEF Init
<1>1. requests \in Seq(Destinations)
  BY TransactionAssumption
<1>2. Shape
  BY <1>1 DEF Shape, Phases, Contents, Absent, Old
<1>3. entries = <<>> /\ Len(entries) = 0 /\ Staged = {}
  BY DEF Staged
<1>4. Apart /\ AtFits
  BY <1>1, <1>3, LenProperties DEF Apart, AtFits
<1>5. Staging /\ Committing /\ Discarding /\ RollingBack /\ Dropping
  BY <1>3 DEF Staging, Committing, Discarding, RollingBack, Dropping
<1> QED
  BY <1>2, <1>4, <1>5 DEF OutputInv

-----------------------------------------------------------------------------
(* Staging. *)

\* `stage` appends an entry for a destination that has none.
LEMMA StagePreserves == OutputInv /\ Stage => OutputInv'
<1> SUFFICES ASSUME OutputInv, Stage PROVE OutputInv'
  OBVIOUS
<1> USE EntryFacts DEF OutputInv, Stage
<1>1. Staged' = Staged \cup {at} /\ at = Len(entries) + 1 /\ Len(entries') = at
  BY DEF Shape, AtFits, Staged
<1>2. /\ ~entries'[at].held /\ ~entries'[at].committed
      /\ \A i \in Staged : entries'[i] = entries[i] /\ i < at
  BY <1>1 DEF Shape, Staged
<1>3. at \in DOMAIN requests /\ Dest(at) \in Destinations
  BY <1>1 DEF Shape, Dest
<1>4. Shape'
  <2>1. entries' \in Seq(EntryState)
    BY AppendProperties DEF Shape, EntryState
  <2> QED
    BY <1>1, <1>3, <2>1 DEF Shape, Contents, Absent
<1>5. \A i \in Staged : Dest(i) # Dest(at)
  BY DEF Duplicate, Staged
<1>6. Apart'
  BY <1>1, <1>5 DEF Apart, Dest
<1>7. at \notin Staged /\ backup[at] = Absent /\ disk[Dest(at)] = Found(at)
  BY <1>1, <1>3, <1>5 DEF Apart, Found, Dest
<1>8. Staging'
  <2> SUFFICES ASSUME NEW i \in Staged \cup {at} PROVE Untouched(i)'
    BY <1>1 DEF Staging
  <2>1. CASE i = at
    BY <2>1, <1>2, <1>3, <1>7 DEF Untouched, Found, Dest, Shape
  <2>2. CASE i \in Staged
    BY <2>2, <1>2, <1>7 DEF Untouched, Found, Dest, Shape, Staging
  <2> QED
    BY <2>1, <2>2
<1>9. AtFits'
  BY <1>1 DEF AtFits
<1> QED
  BY <1>4, <1>6, <1>8, <1>9 DEF Committing, Discarding, RollingBack, Dropping

\* A failed stage leaves all entries as they are: the drop undoes nothing.
LEMMA StageFailsPreserves == OutputInv /\ StageFails => OutputInv'
<1> SUFFICES ASSUME OutputInv, StageFails PROVE OutputInv'
  OBVIOUS
<1> USE EntryFacts DEF OutputInv, StageFails, files, Fails
<1>1. Shape' /\ Apart' /\ AtFits'
  BY DEF Shape, Phases, Apart, AtFits, Staged, Dest
<1>2. \A i \in Staged : RolledBack(i)'
  BY DEF Staging, Untouched, RolledBack, Found, Dest
<1>3. Dropping'
  BY <1>2 DEF Dropping, Before, Behind, Staged, AtFits
<1> QED
  BY <1>1, <1>3 DEF Staging, Committing, Discarding, RollingBack

\* All requests are staged: the first entry is checked next.
LEMMA BeginCommitPreserves == OutputInv /\ BeginCommit => OutputInv'
<1> SUFFICES ASSUME OutputInv, BeginCommit PROVE OutputInv'
  OBVIOUS
<1> USE EntryFacts DEF OutputInv, BeginCommit, files
<1>1. Shape' /\ Apart' /\ AtFits'
  BY DEF Shape, Phases, Apart, AtFits, Staged, Dest
<1>2. \A i \in Staged : Untouched(i)'
  BY DEF Staging, Untouched, Found, Dest
<1>3. Committing'
  BY <1>2 DEF Committing, Before, Behind, Staged
<1> QED
  BY <1>1, <1>3 DEF Staging, Dropping, Discarding, RollingBack

-----------------------------------------------------------------------------
(* commit_inner. *)

\* Where only the entry at hand changes, the others keep what they are.
LEMMA OthersKeep ==
    ASSUME OutputInv, at \in Staged,
           UNCHANGED <<requests, entry0>>, failures \subseteq failures',
           \A i \in DOMAIN requests : i # at => staged'[i] = staged[i] /\ backup'[i] = backup[i],
           \A d \in Destinations : d # Dest(at) => disk'[d] = disk[d],
           Staged' = Staged,
           \A i \in Staged : i # at => entries'[i] = entries[i]
    PROVE  \A i \in Staged : i # at =>
               /\ Untouched(i) => Untouched(i)'
               /\ BackedUp(i) => BackedUp(i)'
               /\ InPlace(i) => InPlace(i)'
               /\ BackupFits(i) => BackupFits(i)'
               /\ Replaced(i) => Replaced(i)'
               /\ RolledBack(i) => RolledBack(i)'
               /\ Settled(i) => Settled(i)'
<1> SUFFICES ASSUME NEW i \in Staged, i # at
             PROVE  /\ Untouched(i) => Untouched(i)'
                    /\ BackedUp(i) => BackedUp(i)'
                    /\ InPlace(i) => InPlace(i)'
                    /\ BackupFits(i) => BackupFits(i)'
                    /\ Replaced(i) => Replaced(i)'
                    /\ RolledBack(i) => RolledBack(i)'
                    /\ Settled(i) => Settled(i)'
  OBVIOUS
<1>1. i \in DOMAIN requests /\ Dest(i) \in Destinations /\ Dest(i) # Dest(at)
  BY EntryFacts DEF OutputInv, Apart
<1>2. /\ disk'[Dest(i)] = disk[Dest(i)] /\ staged'[i] = staged[i]
      /\ backup'[i] = backup[i] /\ entries'[i] = entries[i]
      /\ Dest(i)' = Dest(i) /\ Found(i)' = Found(i)
  BY <1>1 DEF Dest, Found
<1>3. InPlace(i) => InPlace(i)'
  BY <1>2 DEF InPlace
<1>4. BackupFits(i) => BackupFits(i)'
  BY <1>2 DEF BackupFits
<1>5. (Untouched(i) => Untouched(i)') /\ (BackedUp(i) => BackedUp(i)')
  BY <1>2 DEF Untouched, BackedUp
<1>6. (RolledBack(i) => RolledBack(i)') /\ (Settled(i) => Settled(i)')
  BY <1>2 DEF RolledBack, Settled
<1> QED
  BY <1>2, <1>3, <1>4, <1>5, <1>6 DEF Replaced

\* The check looks and changes nothing.
LEMMA CheckPreserves == OutputInv /\ Check => OutputInv'
<1> SUFFICES ASSUME OutputInv, Check PROVE OutputInv'
  OBVIOUS
<1> USE EntryFacts DEF OutputInv, Check, files
<1>1. Shape' /\ Apart' /\ AtFits'
  BY DEF Shape, Phases, Apart, AtFits, Staged, Dest
<1>2. at \in Staged /\ Untouched(at)
  BY DEF AtFits, Committing
<1>3. Found(at) \in {Absent, Old} /\ disk[Dest(at)] = Found(at)
  BY <1>2 DEF Found, Untouched, Shape
<1>4. Committing'
  BY <1>2, <1>3 DEF Committing, Before, Behind, Staged, Untouched, BackedUp, Replaced,
                    InPlace, BackupFits, Found, Dest, Absent, Old
<1> QED
  BY <1>1, <1>4 DEF Staging, Dropping, Discarding, RollingBack

\* The destination moves to its backup.
LEMMA BackupPreserves == OutputInv /\ Backup => OutputInv'
<1> SUFFICES ASSUME OutputInv, Backup PROVE OutputInv'
  OBVIOUS
<1> USE EntryFacts DEF OutputInv, Backup
<1>1. at \in Staged /\ Untouched(at) /\ Found(at) = Old /\ at' = at
  BY DEF AtFits, Committing
<1>2. /\ entries' \in Seq(EntryState) /\ Len(entries') = Len(entries) /\ Staged' = Staged
      /\ \A i \in Staged : i # at => entries'[i] = entries[i]
      /\ entries'[at].held /\ ~entries'[at].committed
  BY <1>1, HeldUpdated DEF Untouched
<1>4. Shape'
  BY <1>1, <1>2 DEF Shape, Phases, Contents, Absent, Old
<1>5. Apart' /\ AtFits'
  BY <1>1, <1>2 DEF Apart, AtFits, Dest, Shape
<1>6. BackedUp(at)'
  BY <1>1, <1>2 DEF BackedUp, Untouched, Found, Dest, Shape, Staged
<1>7. \A i \in Staged : i # at => (Replaced(i) => Replaced(i)') /\ (Untouched(i) => Untouched(i)')
  BY <1>1, <1>2, OthersKeep DEF Staged, Shape
<1>8. Committing'
  BY <1>1, <1>2, <1>6, <1>7 DEF Committing, Before, Behind
<1> QED
  BY <1>4, <1>5, <1>8 DEF Staging, Dropping, Discarding, RollingBack

\* The stage takes the place of the destination.
LEMMA ReplacePreserves == OutputInv /\ Replace => OutputInv'
<1> SUFFICES ASSUME OutputInv, Replace PROVE OutputInv'
  OBVIOUS
<1> USE EntryFacts DEF OutputInv, Replace
<1>1. at \in Staged /\ at' = at + 1
  BY DEF AtFits
<1>2. BackedUp(at) \/ (Untouched(at) /\ Found(at) = Absent)
  BY DEF Committing
<1>3. staged[at] = at /\ BackupFits(at) /\ entries[at] \in EntryState
  BY <1>1, <1>2 DEF BackedUp, Untouched, BackupFits, Absent, Old
<1>4. /\ entries' \in Seq(EntryState) /\ Len(entries') = Len(entries) /\ Staged' = Staged
      /\ \A i \in Staged : i # at => entries'[i] = entries[i]
      /\ entries'[at].committed /\ entries'[at].held = entries[at].held
  BY <1>1, CommittedUpdated
<1>6. Shape'
  BY <1>1, <1>4 DEF Shape, Phases, Contents, Absent
<1>7. Apart' /\ AtFits'
  BY <1>1, <1>4 DEF Apart, AtFits, Dest, Shape
<1>8. \A i \in Staged : i = at => Replaced(i)'
  BY <1>1, <1>3, <1>4 DEF Replaced, InPlace, BackupFits, Found, Dest, Shape, Staged
<1>9. \A i \in Staged : i # at => (Replaced(i) => Replaced(i)') /\ (Untouched(i) => Untouched(i)')
  BY <1>1, <1>4, OthersKeep DEF Staged, Shape
<1>10. Committing'
  BY <1>1, <1>4, <1>8, <1>9 DEF Committing, Before, Behind
<1> QED
  BY <1>6, <1>7, <1>10 DEF Staging, Dropping, Discarding, RollingBack

\* A failure turns to the rollback, from the last entry.
LEMMA CommitFailsPreserves == OutputInv /\ CommitFails => OutputInv'
<1> SUFFICES ASSUME OutputInv, CommitFails PROVE OutputInv'
  OBVIOUS
<1> USE EntryFacts DEF OutputInv, CommitFails, files, Fails, RollBack
<1>1. Shape' /\ Apart' /\ AtFits'
  BY DEF Shape, Phases, Apart, AtFits, Staged, Dest
<1>2. \A i \in Staged : Untouched(i) \/ BackedUp(i) \/ Replaced(i)
  BY DEF Committing, Before, Behind, AtFits
<1>3. \A i \in Staged : Untouched(i)' \/ BackedUp(i)' \/ Replaced(i)'
  BY <1>2 DEF Untouched, BackedUp, Replaced, InPlace, BackupFits, Found, Dest
<1>4. Staged' = Staged /\ Behind' = {}
  BY DEF Staged, Behind
<1>5. RollingBack'
  <2>1. at' = Len(entries) /\ phase' = "remove-new" /\ result' = "error"
    OBVIOUS
  <2>2. \A i \in Before' : Untouched(i)' \/ BackedUp(i)' \/ Replaced(i)'
    BY <1>3, <1>4 DEF Before
  <2>3. at' \in Staged' => (Untouched(at) \/ BackedUp(at) \/ Replaced(at))'
    <3> DEFINE n == Len(entries)
    <3>1. n \in Staged => Untouched(n)' \/ BackedUp(n)' \/ Replaced(n)'
      BY <1>3
    <3> QED
      BY <2>1, <1>4, <3>1 DEF Untouched, BackedUp, Replaced, InPlace, BackupFits, Found, Dest
  <2> QED
    BY <2>1, <2>2, <2>3, <1>4 DEF RollingBack
<1> QED
  BY <1>1, <1>5 DEF Staging, Dropping, Discarding, Committing

\* Every output is in place: the backups go, one after another.
LEMMA BeginDiscardPreserves == OutputInv /\ BeginDiscard => OutputInv'
<1> SUFFICES ASSUME OutputInv, BeginDiscard PROVE OutputInv'
  OBVIOUS
<1> USE EntryFacts DEF OutputInv, BeginDiscard, files
<1>1. Shape' /\ Apart' /\ AtFits'
  BY DEF Shape, Phases, Apart, AtFits, Staged, Dest
<1>2. \A i \in Staged : Replaced(i)
  BY DEF Committing, Before, AtFits
<1>3. Discarding'
  BY <1>2 DEF Discarding, Replaced, InPlace, BackupFits, Found, Dest, Staged
<1> QED
  BY <1>1, <1>3 DEF Staging, Dropping, Committing, RollingBack

\* A backup is let go of, and removed or not; if not the command gives up.
LEMMA DiscardPreserves == OutputInv /\ Discard => OutputInv'
<1> SUFFICES ASSUME OutputInv, Discard PROVE OutputInv'
  OBVIOUS
<1> USE EntryFacts DEF OutputInv, Discard, Fails
<1>1. at \in Staged
  BY DEF AtFits
<1>2. /\ entries' \in Seq(EntryState) /\ Len(entries') = Len(entries) /\ Staged' = Staged
      /\ \A i \in Staged : i # at => entries'[i] = entries[i]
      /\ ~entries'[at].held
  BY <1>1, HeldUpdated
<1>3. Shape'
  BY <1>1, <1>2 DEF Shape, Phases, Contents
<1>4. Apart' /\ AtFits'
  BY <1>1, <1>2 DEF Apart, AtFits, Dest, Shape
<1>5. \A i \in Staged : InPlace(i)'
  BY <1>1 DEF Discarding, InPlace, Dest
<1>6. CASE backup' = [backup EXCEPT ![at] = Absent] /\ at' = at + 1
           /\ UNCHANGED <<phase, result, failures>>
  <2>1. backup'[at] = Absent
    BY <1>1, <1>6 DEF Shape
  <2>2. ASSUME NEW i \in Staged, i # at
        PROVE  IF i < at THEN ~entries'[i].held /\ backup'[i] = Absent ELSE BackupFits(i)'
    BY <2>2, <1>2, <1>6 DEF Discarding, BackupFits, Found, Dest, Shape
  <2>3. Discarding'
    BY <1>1, <1>2, <1>5, <1>6, <2>1, <2>2 DEF Discarding
  <2> QED
    BY <1>3, <1>4, <1>6, <2>3 DEF Staging, Dropping, Committing, RollingBack
<1>7. CASE Fails("discard") /\ result' = "error" /\ phase' = "drop"
  BY <1>3, <1>4, <1>7 DEF Staging, Dropping, Committing, RollingBack, Discarding
<1> QED
  BY <1>6, <1>7

\* The command succeeded.
LEMMA EndCommitPreserves == OutputInv /\ EndCommit => OutputInv'
<1> SUFFICES ASSUME OutputInv, EndCommit PROVE OutputInv'
  OBVIOUS
<1> USE EntryFacts DEF OutputInv, EndCommit, files
<1>1. Shape' /\ Apart' /\ AtFits'
  BY DEF Shape, Phases, Apart, AtFits, Staged, Dest
<1>2. \A i \in Staged : InPlace(i)' /\ backup'[i] = Absent /\ ~entries'[i].held
  BY DEF Discarding, InPlace, Dest, AtFits
<1>3. Dropping'
  BY <1>2 DEF Dropping, AtFits, Staged
<1> QED
  BY <1>1, <1>3 DEF Staging, Discarding, Committing, RollingBack

-----------------------------------------------------------------------------
(* rollback. *)

\* What was committed is removed; a failed removal is on record.
LEMMA RemoveNewPreserves == OutputInv /\ RemoveNew => OutputInv'
<1> SUFFICES ASSUME OutputInv, RemoveNew PROVE OutputInv'
  OBVIOUS
<1> USE EntryFacts DEF OutputInv, RemoveNew, Fails
<1>1. at \in Staged /\ at' = at
  BY DEF AtFits
<1>2. /\ entries' \in Seq(EntryState) /\ Len(entries') = Len(entries) /\ Staged' = Staged
      /\ \A i \in Staged : i # at => entries'[i] = entries[i]
      /\ entries'[at].held = entries[at].held
  BY <1>1, CommittedUpdated
<1>3. Shape'
  BY <1>1, <1>2 DEF Shape, Phases, Contents
<1>4. Apart' /\ AtFits'
  BY <1>1, <1>2 DEF Apart, AtFits, Dest, Shape
<1>5. \A i \in Staged : i # at =>
          /\ Untouched(i) => Untouched(i)'
          /\ BackedUp(i) => BackedUp(i)'
          /\ Replaced(i) => Replaced(i)'
          /\ RolledBack(i) => RolledBack(i)'
  BY <1>1, <1>2, OthersKeep DEF Shape
<1>6. RolledBack(at)'
  <2>1. Untouched(at) \/ BackedUp(at) \/ Replaced(at)
    BY <1>1 DEF RollingBack
  <2>2. Found(at) \in {Absent, Old} /\ Found(at)' = Found(at) /\ Dest(at) \in Destinations
    BY <1>1 DEF Found, Dest, Shape
  <2>3. CASE Untouched(at)
    BY <1>1, <1>2, <2>2, <2>3 DEF RolledBack, Untouched, Dest
  <2>4. CASE BackedUp(at)
    BY <1>1, <1>2, <2>2, <2>4 DEF RolledBack, BackedUp, Dest
  <2>5. CASE Replaced(at)
    BY <1>1, <1>2, <2>2, <2>5
       DEF RolledBack, Replaced, InPlace, BackupFits, Dest, Shape, Absent, Old
  <2> QED
    BY <2>1, <2>3, <2>4, <2>5
<1>7. RollingBack'
  BY <1>1, <1>2, <1>5, <1>6 DEF RollingBack, Before, Behind
<1> QED
  BY <1>3, <1>4, <1>7 DEF Staging, Dropping, Committing, Discarding

\* A restore that fails keeps the backup held.
LEMMA RestorePreserves == OutputInv /\ Restore => OutputInv'
<1> SUFFICES ASSUME OutputInv, Restore PROVE OutputInv'
  OBVIOUS
<1> USE EntryFacts DEF OutputInv, Restore, Fails
<1>1. at \in Staged /\ RolledBack(at)
  BY DEF AtFits, RollingBack
<1>2. /\ entries' \in Seq(EntryState) /\ Len(entries') = Len(entries) /\ Staged' = Staged
      /\ \A i \in Staged : i # at => entries'[i] = entries[i]
      /\ \/ UNCHANGED <<entries, disk, backup>>
         \/ /\ entries[at].held /\ ~entries'[at].held
            /\ disk' = [disk EXCEPT ![Dest(at)] = backup[at]]
            /\ backup' = [backup EXCEPT ![at] = Absent]
  <2>1. CASE UNCHANGED <<entries, disk, backup>>
    BY <2>1 DEF Shape, Staged
  <2>2. CASE /\ entries[at].held
             /\ disk' = [disk EXCEPT ![Dest(at)] = backup[at]]
             /\ backup' = [backup EXCEPT ![at] = Absent]
             /\ entries' = [entries EXCEPT ![at].held = FALSE]
    BY <1>1, <2>2, HeldUpdated
  <2> QED
    BY <2>1, <2>2
<1>3. Shape'
  BY <1>1, <1>2 DEF Shape, Phases, Contents
<1>4. Apart' /\ AtFits'
  BY <1>1, <1>2 DEF Apart, AtFits, Dest, Shape
<1>5. \A i \in Staged : i # at =>
          /\ Untouched(i) => Untouched(i)'
          /\ BackedUp(i) => BackedUp(i)'
          /\ Replaced(i) => Replaced(i)'
          /\ RolledBack(i) => RolledBack(i)'
  BY <1>1, <1>2, OthersKeep DEF Shape
<1>6. \A i \in Staged : i = at => RolledBack(i)'
  BY <1>1, <1>2 DEF RolledBack, Found, Dest, Shape
<1>7. RollingBack'
  BY <1>1, <1>2, <1>5, <1>6 DEF RollingBack, Before, Behind, AtFits
<1> QED
  BY <1>3, <1>4, <1>7 DEF Staging, Dropping, Committing, Discarding

\* The rollback is through: the transaction is dropped.
LEMMA EndRollbackPreserves == OutputInv /\ EndRollback => OutputInv'
<1> SUFFICES ASSUME OutputInv, EndRollback PROVE OutputInv'
  OBVIOUS
<1> USE EntryFacts DEF OutputInv, EndRollback, files
<1>1. Shape' /\ Apart' /\ AtFits'
  BY DEF Shape, Phases, Apart, AtFits, Staged, Dest
<1>2. \A i \in Staged : RolledBack(i)'
  BY DEF RollingBack, Behind, RolledBack, Found, Dest
<1>3. Dropping'
  <2>1. Staged' = Staged /\ at' = 1 /\ Before' = {} /\ result' = "error"
    BY DEF Staged, Before, RollingBack
  <2>2. \A i \in Behind' : RolledBack(i)'
    BY <1>2, <2>1 DEF Behind
  <2>3. at' \in Staged' => RolledBack(at)'
    BY <1>2, <2>1 DEF RolledBack, Found, Dest
  <2> QED
    BY <2>1, <2>2, <2>3 DEF Dropping
<1> QED
  BY <1>1, <1>3 DEF Staging, RollingBack, Committing, Discarding

-----------------------------------------------------------------------------
(* Drop and kill. *)

\* Removing a stage concerns no destination and no backup.
LEMMA DropStagePreserves == OutputInv /\ DropStage => OutputInv'
<1> SUFFICES ASSUME OutputInv, DropStage PROVE OutputInv'
  OBVIOUS
<1> USE EntryFacts DEF OutputInv, DropStage, Fails
<1>1. at \in Staged /\ Staged' = Staged
  BY DEF AtFits, Staged
<1>2. Shape' /\ Apart' /\ AtFits'
  BY <1>1 DEF Shape, Phases, Contents, Apart, AtFits, Dest
<1>3. \A i \in Staged : staged[i] = Absent => staged'[i] = Absent
  BY DEF Shape
<1>4. \A i \in Staged :
          /\ InPlace(i) => InPlace(i)'
          /\ RolledBack(i) => RolledBack(i)'
          /\ Settled(i) => Settled(i)'
  BY <1>3 DEF InPlace, RolledBack, Settled, Found, Dest
<1>5. Dropping'
  BY <1>1, <1>4 DEF Dropping, Before, Behind
<1> QED
  BY <1>2, <1>5 DEF Staging, RollingBack, Committing, Discarding

\* A backup still held is restored, or the failure is on record.
LEMMA DropBackupPreserves == OutputInv /\ DropBackup => OutputInv'
<1> SUFFICES ASSUME OutputInv, DropBackup PROVE OutputInv'
  OBVIOUS
<1> USE EntryFacts DEF OutputInv, DropBackup, Fails
<1>1. at \in Staged /\ Staged' = Staged /\ at' = at + 1
  BY DEF AtFits, Staged
<1>2. Shape' /\ Apart' /\ AtFits'
  <2>1. Shape'
    BY <1>1 DEF Shape, Phases, Contents
  <2>2. Apart'
    BY <1>1 DEF Apart, Dest, Shape
  <2>3. AtFits'
    BY <1>1 DEF AtFits
  <2> QED
    BY <2>1, <2>2, <2>3
<1>3. CASE /\ result = "ok" /\ Len(entries) = Len(requests)
           /\ \A i \in Staged : InPlace(i) /\ backup[i] = Absent /\ ~entries[i].held
  <2>1. UNCHANGED <<disk, backup>>
    BY <1>1, <1>3
  <2>2. Dropping'
    BY <1>1, <1>3, <2>1 DEF Dropping, InPlace, Dest
  <2> QED
    BY <1>2, <2>2 DEF Staging, RollingBack, Committing, Discarding
<1>4. CASE result = "error" /\ "discard" \in failures
  BY <1>2, <1>4 DEF Dropping, Staging, RollingBack, Committing, Discarding
<1>5. CASE /\ result = "error"
           /\ \A i \in Before : Settled(i)
           /\ \A i \in Behind : RolledBack(i)
           /\ RolledBack(at)
  <2>1. \A i \in Staged : i # at =>
            /\ RolledBack(i) => RolledBack(i)'
            /\ Settled(i) => Settled(i)'
    BY <1>1, OthersKeep DEF Shape
  <2>2. \A i \in Staged : i = at => Settled(i)'
    BY <1>1, <1>5 DEF RolledBack, Settled, Found, Dest, Shape
  <2>3. /\ \A i \in Before' : Settled(i)'
        /\ \A i \in Staged : i >= at' => RolledBack(i)'
    BY <1>1, <1>5, <2>1, <2>2 DEF Before, Behind
  <2>4. Dropping'
    BY <1>1, <1>5, <2>3 DEF Dropping, Behind
  <2> QED
    BY <1>2, <2>4 DEF Staging, RollingBack, Committing, Discarding
<1> QED
  BY <1>1, <1>3, <1>4, <1>5 DEF Dropping

\* Every entry was dropped.
LEMMA EndDropPreserves == OutputInv /\ EndDrop => OutputInv'
<1> SUFFICES ASSUME OutputInv, EndDrop PROVE OutputInv'
  OBVIOUS
<1> USE EntryFacts DEF OutputInv, EndDrop, files
<1>1. Shape' /\ Apart' /\ AtFits'
  BY DEF Shape, Phases, Apart, AtFits, Staged, Dest
<1>2. Dropping'
  BY DEF Dropping, InPlace, Settled, RolledBack, Before, Behind, Found, Dest, Staged
<1> QED
  BY <1>1, <1>2 DEF Staging, RollingBack, Committing, Discarding

\* An old output is at its destination or in the backup of its entry, whatever
\* became of the entry.
LEMMA OldIsSomewhere ==
    ASSUME OutputInv, NEW i \in Staged, Found(i) = Old,
           \/ Untouched(i) \/ BackedUp(i) \/ Replaced(i)
           \/ RolledBack(i) \/ Settled(i)
    PROVE  disk[Dest(i)] = Old \/ backup[i] = Old
BY DEF Untouched, BackedUp, Replaced, BackupFits, RolledBack, Settled, Absent, Old

\* The invariant implies that nothing is lost, wherever the process is.
LEMMA InvNothingLost == OutputInv => NothingLost
<1> SUFFICES ASSUME OutputInv, phase # "crashed", "discard" \notin failures PROVE NothingLost
  BY DEF OutputInv, NothingLost
<1> USE EntryFacts DEF OutputInv
<1>1. CASE phase = "discard" \/ (result = "ok" /\ phase \in {"drop", "drop-backup", "ended"})
  <2>1. Len(entries) = Len(requests) /\ \A i \in Staged : InPlace(i)
    BY <1>1 DEF Discarding, Dropping, AtFits
  <2> QED
    BY <2>1 DEF NothingLost, InPlace
<1>2. CASE ~(phase = "discard" \/ (result = "ok" /\ phase \in {"drop", "drop-backup", "ended"}))
  <2>1. \A i \in Staged : \/ Untouched(i) \/ BackedUp(i) \/ Replaced(i)
                          \/ RolledBack(i) \/ Settled(i)
    <3> SUFFICES ASSUME NEW i \in Staged
                 PROVE  \/ Untouched(i) \/ BackedUp(i) \/ Replaced(i)
                        \/ RolledBack(i) \/ Settled(i)
      OBVIOUS
    <3>1. i \in Before \/ i = at \/ i \in Behind
      BY DEF Before, Behind, AtFits
    <3>2. CASE phase = "staging"
      BY <3>2 DEF Staging
    <3>3. CASE phase \in {"check", "backup", "replace"}
      BY <3>1, <3>3 DEF Committing
    <3>4. CASE phase \in {"remove-new", "restore"}
      BY <3>1, <3>4 DEF RollingBack
    <3>5. CASE phase \in {"drop", "drop-backup", "ended"}
      BY <1>2, <3>1, <3>5 DEF Dropping
    <3> QED
      BY <1>2, <3>2, <3>3, <3>4, <3>5 DEF Shape, Phases
  <2>2. \A i \in Staged : Found(i) = Old => disk[Dest(i)] = Old \/ backup[i] = Old
    BY <2>1, OldIsSomewhere
  <2>3. ASSUME NEW d \in Destinations, entry0[d] = Old
        PROVE  disk[d] = Old \/ \E i \in DOMAIN requests : Dest(i) = d /\ backup[i] = Old
    BY <2>2, <2>3 DEF Apart, Found
  <2> QED
    BY <2>3 DEF NothingLost
<1> QED
  BY <1>1, <1>2

\* A kill leaves the files as they are.
LEMMA CrashPreserves == OutputInv /\ Crash => OutputInv'
<1> SUFFICES ASSUME OutputInv, Crash PROVE OutputInv'
  OBVIOUS
<1> USE EntryFacts DEF Crash, files
<1>1. Shape' /\ Apart' /\ AtFits'
  BY DEF OutputInv, Shape, Phases, Apart, AtFits, Staged, Dest
<1>2. NothingLost'
  BY InvNothingLost DEF NothingLost, Dest
<1> QED
  BY <1>1, <1>2 DEF OutputInv, Staging, RollingBack, Committing, Discarding, Dropping

-----------------------------------------------------------------------------
(* Theorems. *)

\* The invariant is inductive.
LEMMA OutputInvStep == OutputInv /\ [Next]_vars => OutputInv'
<1> SUFFICES ASSUME OutputInv, [Next]_vars PROVE OutputInv'
  OBVIOUS
<1>1. CASE UNCHANGED vars
  BY <1>1 DEF vars, OutputInv, Shape, Apart, AtFits, Staging, Committing, Discarding,
              RollingBack, Dropping, NothingLost, Untouched, BackedUp, Replaced, InPlace,
              BackupFits, RolledBack, Settled, Found, Dest, Staged, Before, Behind
<1>2. CASE Next
  BY <1>2, StagePreserves, StageFailsPreserves, BeginCommitPreserves, CheckPreserves,
     BackupPreserves, ReplacePreserves, CommitFailsPreserves, BeginDiscardPreserves,
     DiscardPreserves, EndCommitPreserves, RemoveNewPreserves, RestorePreserves,
     EndRollbackPreserves, DropStagePreserves, DropBackupPreserves, EndDropPreserves,
     CrashPreserves DEF Next
<1> QED
  BY <1>1, <1>2

\* Every behaviour of the transaction satisfies the invariant.
THEOREM OutputInvariant == Spec => []OutputInv
BY OutputInvInit, OutputInvStep, PTL DEF Spec

\* The invariant implies the types.
LEMMA InvTypes == OutputInv => TypeOK
<1> SUFFICES ASSUME OutputInv PROVE TypeOK
  OBVIOUS
<1> USE EntryFacts DEF OutputInv
<1>1. at \in 0 .. Len(requests) + 1
  BY DEF AtFits, Apart
<1>2. ASSUME phase \notin {"drop", "drop-backup", "ended", "crashed"}, NEW i \in Staged
      PROVE  entries[i].held <=> backup[i] # Absent
  <2>1. \/ Untouched(i) \/ BackedUp(i) \/ BackupFits(i) \/ RolledBack(i)
        \/ ~entries[i].held /\ backup[i] = Absent
    BY <1>2 DEF Shape, Phases, Staging, Committing, Discarding, RollingBack, Replaced,
                AtFits, Before, Behind
  <2>2. Found(i) \in {Absent, Old}
    BY DEF Shape, Found
  <2> QED
    BY <2>1, <2>2 DEF Untouched, BackedUp, BackupFits, RolledBack, Absent, Old
<1> QED
  BY <1>1, <1>2 DEF TypeOK, Shape, EntryState, Staged

\* Every variable keeps its shape, and a backup is held exactly while it is there.
THEOREM OutputTypes == Spec => []TypeOK
BY InvTypes, OutputInvariant, PTL

\* The invariant implies that a success is one of every output.
LEMMA InvSuccess == OutputInv => SuccessReplacesAll
BY EntryFacts DEF OutputInv, Dropping, SuccessReplacesAll, InPlace

\* A command that reports success replaced every output and left nothing behind
\* (output.rs, commit).
THEOREM SuccessIsTotal == Spec => []SuccessReplacesAll
BY InvSuccess, OutputInvariant, PTL

\* The invariant implies that an error leaves the destinations as they were found.
LEMMA InvFailure == OutputInv => FailureRestoresAll
<1> SUFFICES ASSUME OutputInv, phase = "ended", result = "error", "discard" \notin failures,
                    NEW d \in Destinations
             PROVE  \/ disk[d] = entry0[d]
                    \/ entry0[d] = Old /\ "drop-backup" \in failures
                    \/ entry0[d] = Absent /\ "remove-new" \in failures
  BY DEF FailureRestoresAll
<1>1. \A i \in Staged : Settled(i)
  BY EntryFacts DEF OutputInv, Dropping, AtFits, Before
<1> QED
  BY <1>1 DEF OutputInv, Apart, Settled, Found

\* A command that reports an error left every destination as it found it, but
\* for the failures of its last attempts (output.rs, rollback and drop).
THEOREM FailureIsRolledBack == Spec => []FailureRestoresAll
BY InvFailure, OutputInvariant, PTL

\* No failure and no kill at any instant loses an old output before every new
\* one is in place.
THEOREM NothingIsLost == Spec => []NothingLost
BY InvNothingLost, OutputInvariant, PTL
=============================================================================
