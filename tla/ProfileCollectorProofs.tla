----------------------- MODULE ProfileCollectorProofs -----------------------
(***************************************************************************)
(* What the collection runtime guarantees for any threads, cells, widths,  *)
(* run ids and failures, and that it implements ProfileCounts.  The        *)
(* invariant ties the place of a thread to the call it is in, keeps one    *)
(* thread in the publication, and says what the directory holds at each of *)
(* its steps.                                                              *)
(***************************************************************************)
EXTENDS ProfileCollector, FiniteSetTheorems, SequenceTheorems, TLAPS

Publishing == {"attempt", "create", "rename", "sync"}
Places == {"idle", "ensure", "configure", "add", "flush"} \cup Counting \cup Publishing
Statuses == {"ok", "directory", "write"}
Shards == Image \cup {NoShard, Foreign}

Types ==
    /\ initState \in {"unset", "busy", "ready", "failed"}
    /\ cells \in [Cells -> 0 .. Max]
    /\ overflowed \in BOOLEAN /\ incomplete \in BOOLEAN
    /\ flushState \in {"none", "busy"} \cup Statuses
    /\ pc \in [Threads -> Places]
    /\ calling \in [Threads -> {"none", "work", "flush"}]
    /\ jobs \in [Threads -> Seq(Job)]
    /\ observed \in [Threads -> 0 .. Max]
    /\ returned \in [Threads -> Seq(Statuses \cup {"config", "memory"})]
    /\ image \in Image \cup {NoShard}
    /\ run \in RunIds
    /\ temps \in [RunIds -> Shards]
    /\ shards \in [RunIds -> Shards]

\* Where a thread is fits the call it makes, and work has an addition to make.
CallFits(t) ==
    /\ pc[t] \in {"add"} \cup Counting => calling[t] = "work"
    /\ pc[t] \in {"flush"} \cup Publishing => calling[t] = "flush"
    /\ pc[t] \in {"ensure", "configure"} => calling[t] # "none"
    /\ calling[t] = "work" => jobs[t] # <<>>
    /\ pc[t] = "clamp" => overflowed

\* Instrumented calls and flushes exclude each other.
Quiesced == \A t, u \in Threads : calling[t] = "work" => calling[u] # "flush"

\* The winner of the compare-exchange publishes, and nobody else.
OneFlusher ==
    /\ \A t, u \in Threads : pc[t] \in Publishing /\ pc[u] \in Publishing => t = u
    /\ flushState = "busy" <=> \E t \in Threads : pc[t] \in Publishing

\* What the counters are worth as a shard.
Snapshot == [counts |-> cells,
             overflowed |-> overflowed \/ \E c \in Cells : cells[c] = Max,
             incomplete |-> incomplete]

ImageFits ==
    /\ \A t \in Threads : pc[t] \in {"create", "rename"} => image = Snapshot
    /\ \A t \in Threads : pc[t] = "rename" => temps[run] = image

\* A completed shard is there from the rename on, and never a second one.
ShardFits ==
    /\ \A r, s \in OwnShards : r = s
    /\ flushState = "none" => OwnShards = {}
    /\ flushState = "ok" => OwnShards # {}
    /\ \A t \in Threads : pc[t] \in {"attempt", "create", "rename"} => OwnShards = {}
    /\ \A t \in Threads : pc[t] = "sync" => OwnShards # {}

\* A temporary is there from its creation to the rename, under the current id.
TemporaryFits ==
    \A r \in RunIds : temps[r] \notin {NoShard, Foreign} =>
        r = run /\ \E t \in Threads : pc[t] = "rename"

\* Every call that got as far as the flush returned its one status.
Answered ==
    \A t \in Threads : \A i \in DOMAIN returned[t] :
        returned[t][i] \notin {"config", "memory"} => returned[t][i] = flushState

CollectorInv ==
    /\ Types /\ \A t \in Threads : CallFits(t)
    /\ Quiesced /\ OneFlusher /\ ImageFits /\ ShardFits /\ TemporaryFits /\ Answered

\* The initial states satisfy the invariant.
LEMMA CollectorInvInit == Init => CollectorInv
<1> SUFFICES ASSUME Init PROVE CollectorInv
  OBVIOUS
<1> USE CollectorAssumption DEF Init
<1>1. Types
  <2>1. jobs \in [Threads -> Seq(Job)]
    OBVIOUS
  <2>2. returned \in [Threads -> Seq(Statuses \cup {"config", "memory"})]
    BY EmptySeq
  <2>3. temps \in [RunIds -> Shards] /\ shards \in [RunIds -> Shards]
    BY DEF Shards
  <2>4. cells \in [Cells -> 0 .. Max] /\ observed \in [Threads -> 0 .. Max]
    OBVIOUS
  <2> QED
    BY <2>1, <2>2, <2>3, <2>4 DEF Types, Places
<1>2. OwnShards = {}
  BY DEF OwnShards
<1> QED
  BY <1>1, <1>2 DEF CollectorInv, CallFits, Counting, Publishing, Quiesced, OneFlusher,
                    ImageFits, ShardFits, TemporaryFits, Answered

-----------------------------------------------------------------------------
(* The steps of a thread, by what it is doing. *)

Calls(t) == CallWork(t) \/ CallFlush(t)
Initializes(t) == ClaimInitialize(t) \/ Configure(t) \/ Initialized(t)
Adds(t) ==
    \/ MarkIncomplete(t) \/ AddNothing(t) \/ AddFits(t) \/ AddWraps(t)
    \/ MarkOverflowed(t) \/ Clamp(t)
Flushes(t) ==
    \/ ClaimFlush(t) \/ Flushed(t)
    \/ Materialize(t) \/ CreateTemporary(t) \/ Rename(t) \/ SyncDirectory(t)
Moves(t) == Calls(t) \/ Initializes(t) \/ Adds(t) \/ Flushes(t)

USE DEF Goto, Return, Fails, EndFlush, Staying, Proceed, FinishJob, TheJob, Adding,
        runtime, threads, flushing, disk, Counting, Publishing

\* The list of statuses a call adds to keeps the others.
LEMMA ReturnedKeeps ==
    ASSUME Types, NEW t \in Threads, NEW status \in Statuses \cup {"config", "memory"},
           returned' = [returned EXCEPT ![t] = Append(@, status)]
    PROVE  /\ returned' \in [Threads -> Seq(Statuses \cup {"config", "memory"})]
           /\ \A u \in Threads : \A i \in DOMAIN returned'[u] :
                 \/ returned'[u][i] = status
                 \/ i \in DOMAIN returned[u] /\ returned'[u][i] = returned[u][i]
<1>1. returned[t] \in Seq(Statuses \cup {"config", "memory"})
  BY DEF Types
<1>2. /\ Append(returned[t], status) \in Seq(Statuses \cup {"config", "memory"})
      /\ DOMAIN Append(returned[t], status) = 1 .. Len(returned[t]) + 1
      /\ \A i \in 1 .. Len(returned[t]) : Append(returned[t], status)[i] = returned[t][i]
      /\ Append(returned[t], status)[Len(returned[t]) + 1] = status
  BY <1>1, AppendProperties, LenProperties
<1>3. DOMAIN returned[t] = 1 .. Len(returned[t]) /\ Len(returned[t]) \in Nat
  BY <1>1, LenProperties
<1>4. returned' = [u \in Threads |-> IF u = t THEN Append(returned[t], status) ELSE returned[u]]
  BY DEF Types
<1> QED
  BY <1>1, <1>2, <1>3, <1>4 DEF Types

\* The addition a thread is about to make is one, and finishing it leaves a list.
LEMMA JobTypes ==
    ASSUME Types, NEW t \in Threads, CallFits(t), calling[t] = "work"
    PROVE  /\ TheJob(t) \in Job
           /\ jobs' = [jobs EXCEPT ![t] = Tail(@)] => jobs' \in [Threads -> Seq(Job)]
<1>1. jobs[t] \in Seq(Job) /\ jobs[t] # <<>>
  BY DEF Types, CallFits
<1>2. Head(jobs[t]) \in Job /\ Tail(jobs[t]) \in Seq(Job)
  BY <1>1, HeadTailProperties
<1> QED
  BY <1>2 DEF Types

\* A cell stays a word of its width.
LEMMA CellTypes ==
    ASSUME Types, NEW t \in Threads, TheJob(t) \in Job
    PROVE  /\ cells[TheJob(t).cell] \in 0 .. Max
           /\ FetchAdd(t) => cells' \in [Cells -> 0 .. Max]
<1>1. TheJob(t).cell \in Cells /\ TheJob(t).value \in 0 .. Max
  BY DEF Job
<1>2. \A a, b \in 0 .. Max : (a + b) % (Max + 1) \in 0 .. Max
  BY CollectorAssumption
<1>3. ASSUME FetchAdd(t) PROVE cells' \in [Cells -> 0 .. Max]
  <2> DEFINE v == (cells[TheJob(t).cell] + TheJob(t).value) % (Max + 1)
  <2>1. v \in 0 .. Max
    BY <1>1, <1>2 DEF Types
  <2>2. cells' = [cells EXCEPT ![TheJob(t).cell] = v]
    BY <1>3 DEF FetchAdd
  <2> QED
    BY <2>1, <2>2 DEF Types
<1> QED
  BY <1>1, <1>3 DEF Types

\* What is materialized is a shard of this process.
LEMMA SnapshotType == Types => Snapshot \in Image
<1>1. (overflowed \/ \E c \in Cells : cells[c] = Max) \in BOOLEAN
  OBVIOUS
<1> QED
  BY <1>1 DEF Types, Snapshot, Image

\* Types are kept.
LEMMA TypesKept ==
    ASSUME CollectorInv, NEW t \in Threads, Moves(t)
    PROVE  Types'
<1> USE CollectorAssumption DEF CollectorInv
<1>1. CASE Calls(t)
  BY <1>1 DEF Calls, CallWork, CallFlush, Types, Places
<1>2. CASE Initializes(t)
  <2>1. returned' \in [Threads -> Seq(Statuses \cup {"config", "memory"})]
    BY <1>2, ReturnedKeeps DEF Initializes, ClaimInitialize, Configure, Initialized, Types
  <2>2. pc' \in [Threads -> Places] /\ calling' \in [Threads -> {"none", "work", "flush"}]
    BY <1>2 DEF Initializes, ClaimInitialize, Configure, Initialized, Types, Places
  <2> QED
    BY <1>2, <2>1, <2>2 DEF Initializes, ClaimInitialize, Configure, Initialized, Types
<1>3. CASE Adds(t)
  <2>1. calling[t] = "work"
    BY <1>3 DEF Adds, MarkIncomplete, AddNothing, AddFits, AddWraps, MarkOverflowed, Clamp, CallFits
  <2>2. TheJob(t) \in Job /\ TheJob(t).cell \in Cells /\ cells[TheJob(t).cell] \in 0 .. Max
    BY <2>1, JobTypes, CellTypes DEF Job
  <2>3. jobs' \in [Threads -> Seq(Job)]
    BY <1>3, <2>1, JobTypes
       DEF Adds, MarkIncomplete, AddNothing, AddFits, AddWraps, MarkOverflowed, Clamp, Types
  <2>4. cells' \in [Cells -> 0 .. Max]
    BY <1>3, <2>2, CellTypes
       DEF Adds, MarkIncomplete, AddNothing, AddFits, AddWraps, MarkOverflowed, Clamp, Types
  <2>5. observed' \in [Threads -> 0 .. Max]
    BY <1>3, <2>2, <2>4
       DEF Adds, MarkIncomplete, AddNothing, AddFits, AddWraps, MarkOverflowed, Clamp, Types
  <2>6. pc' \in [Threads -> Places] /\ calling' \in [Threads -> {"none", "work", "flush"}]
    BY <1>3
       DEF Adds, MarkIncomplete, AddNothing, AddFits, AddWraps, MarkOverflowed, Clamp, Types, Places
  <2> QED
    BY <1>3, <2>3, <2>4, <2>5, <2>6
       DEF Adds, MarkIncomplete, AddNothing, AddFits, AddWraps, MarkOverflowed, Clamp, Types
<1>4. CASE Flushes(t)
  <2> USE DEF Flushes, ClaimFlush, Flushed, Materialize, CreateTemporary, Rename, SyncDirectory
  <2>1. returned' \in [Threads -> Seq(Statuses \cup {"config", "memory"})]
    BY <1>4, ReturnedKeeps DEF Types, Statuses
  <2>2. pc' \in [Threads -> Places] /\ calling' \in [Threads -> {"none", "work", "flush"}]
    BY <1>4 DEF Types, Places
  <2>3. image' \in Image \cup {NoShard} /\ run' \in RunIds
    BY <1>4, SnapshotType DEF Types, Snapshot
  <2>4. pc[t] \in {"create", "rename"} => image \in Image
    BY SnapshotType DEF ImageFits
  <2>5. temps' \in [RunIds -> Shards] /\ shards' \in [RunIds -> Shards]
    BY <1>4, <2>4 DEF Types, Shards
  <2> QED
    BY <1>4, <2>1, <2>2, <2>3, <2>5 DEF Types, Statuses
<1> QED
  BY <1>1, <1>2, <1>3, <1>4 DEF Moves

\* A thread moves on within its call; the calls of the others are not touched.
LEMMA CallsKept ==
    ASSUME CollectorInv, NEW t \in Threads, Moves(t)
    PROVE  \A u \in Threads : CallFits(u)'
<1> USE CollectorAssumption DEF CollectorInv
<1>1. CASE Calls(t)
  BY <1>1 DEF Calls, CallWork, CallFlush, CallFits, Types
<1>2. CASE Initializes(t)
  BY <1>2 DEF Initializes, ClaimInitialize, Configure, Initialized, CallFits, Types
<1>3. CASE Adds(t)
  BY <1>3
     DEF Adds, MarkIncomplete, AddNothing, AddFits, AddWraps, MarkOverflowed, Clamp,
         CallFits, Types
<1>4. CASE Flushes(t)
  BY <1>4
     DEF Flushes, ClaimFlush, Flushed, Materialize, CreateTemporary, Rename, SyncDirectory,
         CallFits, Types
<1> QED
  BY <1>1, <1>2, <1>3, <1>4 DEF Moves

\* A call begins only while none of the other kind runs.
LEMMA QuiescedKept ==
    ASSUME CollectorInv, NEW t \in Threads, Moves(t)
    PROVE  Quiesced'
<1> USE CollectorAssumption DEF CollectorInv
<1>1. CASE Calls(t)
  BY <1>1 DEF Calls, CallWork, CallFlush, Quiesced, CallFits, Types
<1>2. CASE Initializes(t)
  BY <1>2
     DEF Initializes, ClaimInitialize, Configure, Initialized, Quiesced, CallFits, Types
<1>3. CASE Adds(t)
  BY <1>3
     DEF Adds, MarkIncomplete, AddNothing, AddFits, AddWraps, MarkOverflowed, Clamp,
         Quiesced, CallFits, Types
<1>4. CASE Flushes(t)
  BY <1>4
     DEF Flushes, ClaimFlush, Flushed, Materialize, CreateTemporary, Rename, SyncDirectory,
         Quiesced, CallFits, Types
<1> QED
  BY <1>1, <1>2, <1>3, <1>4 DEF Moves

\* One thread claims the flush, and its last step makes the state final.
LEMMA OneFlusherKept ==
    ASSUME CollectorInv, NEW t \in Threads, Moves(t)
    PROVE  OneFlusher'
<1> USE CollectorAssumption DEF CollectorInv
<1>1. CASE Calls(t)
  BY <1>1 DEF Calls, CallWork, CallFlush, OneFlusher, CallFits, Types, Statuses
<1>2. CASE Initializes(t)
  BY <1>2
     DEF Initializes, ClaimInitialize, Configure, Initialized, OneFlusher, CallFits, Types,
         Statuses
<1>3. CASE Adds(t)
  BY <1>3
     DEF Adds, MarkIncomplete, AddNothing, AddFits, AddWraps, MarkOverflowed, Clamp,
         OneFlusher, CallFits, Types, Statuses
<1>4. CASE Flushes(t)
  <2>1. CASE ClaimFlush(t)
    BY <2>1 DEF ClaimFlush, OneFlusher, CallFits, Types, Statuses
  <2>2. CASE Flushed(t)
    BY <2>2 DEF Flushed, OneFlusher, CallFits, Types, Statuses
  <2>3. CASE Materialize(t)
    BY <2>3 DEF Materialize, OneFlusher, CallFits, Types, Statuses
  <2>4. CASE CreateTemporary(t)
    BY <2>4 DEF CreateTemporary, OneFlusher, CallFits, Types, Statuses
  <2>5. CASE Rename(t)
    BY <2>5 DEF Rename, OneFlusher, CallFits, Types, Statuses
  <2>6. CASE SyncDirectory(t)
    BY <2>6 DEF SyncDirectory, OneFlusher, CallFits, Types, Statuses
  <2> QED
    BY <1>4, <2>1, <2>2, <2>3, <2>4, <2>5, <2>6 DEF Flushes
<1> QED
  BY <1>1, <1>2, <1>3, <1>4 DEF Moves

\* Nothing is added while a flush runs: the image stays what the counters are worth.
LEMMA ImageKept ==
    ASSUME CollectorInv, NEW t \in Threads, Moves(t)
    PROVE  ImageFits'
<1> USE CollectorAssumption DEF CollectorInv
<1>1. CASE Calls(t)
  BY <1>1
     DEF Calls, CallWork, CallFlush, ImageFits, Snapshot, OneFlusher, Quiesced, CallFits,
         Types, FetchAdd
<1>2. CASE Initializes(t)
  <2>1. UNCHANGED <<cells, overflowed, incomplete, image, run, temps>>
    BY <1>2 DEF Initializes, ClaimInitialize, Configure, Initialized
  <2>2. \A u \in Threads : pc'[u] \in {"create", "rename"} => pc'[u] = pc[u]
    BY <1>2 DEF Initializes, ClaimInitialize, Configure, Initialized, Types
  <2> QED
    BY <2>1, <2>2 DEF ImageFits, Snapshot
<1>3. CASE Adds(t)
  BY <1>3
     DEF Adds, MarkIncomplete, AddNothing, AddFits, AddWraps, MarkOverflowed, Clamp,
         ImageFits, Snapshot, OneFlusher, Quiesced, CallFits, Types, FetchAdd
<1>4. CASE Flushes(t)
  BY <1>4
     DEF Flushes, ClaimFlush, Flushed, Materialize, CreateTemporary, Rename, SyncDirectory,
         ImageFits, Snapshot, OneFlusher, Quiesced, CallFits, Types, FetchAdd
<1> QED
  BY <1>1, <1>2, <1>3, <1>4 DEF Moves

\* The rename completes the one shard; no other step touches one.
LEMMA ShardKept ==
    ASSUME CollectorInv, NEW t \in Threads, Moves(t)
    PROVE  ShardFits'
<1> USE CollectorAssumption DEF CollectorInv
<1>1. CASE Calls(t)
  BY <1>1 DEF Calls, CallWork, CallFlush, ShardFits, OwnShards, OneFlusher, CallFits, Types
<1>2. CASE Initializes(t)
  <2>1. CASE ClaimInitialize(t)
    BY <2>1 DEF ClaimInitialize, ShardFits, OwnShards, OneFlusher, CallFits, Types
  <2>2. CASE Configure(t)
    BY <2>2 DEF Configure, ShardFits, OwnShards, OneFlusher, CallFits, Types
  <2>3. CASE Initialized(t)
    BY <2>3 DEF Initialized, ShardFits, OwnShards, OneFlusher, CallFits, Types
  <2> QED
    BY <1>2, <2>1, <2>2, <2>3 DEF Initializes
<1>3. CASE Adds(t)
  BY <1>3
     DEF Adds, MarkIncomplete, AddNothing, AddFits, AddWraps, MarkOverflowed, Clamp,
         ShardFits, OwnShards, OneFlusher, CallFits, Types
<1>4. CASE Flushes(t)
  <2>1. CASE ClaimFlush(t)
    BY <2>1 DEF ClaimFlush, ShardFits, OwnShards, OneFlusher, CallFits, Types
  <2>2. CASE Flushed(t)
    BY <2>2 DEF Flushed, ShardFits, OwnShards, OneFlusher, CallFits, Types
  <2>3. CASE Materialize(t)
    BY <2>3 DEF Materialize, ShardFits, OwnShards, OneFlusher, CallFits, Types
  <2>4. CASE CreateTemporary(t)
    BY <2>4 DEF CreateTemporary, ShardFits, OwnShards, OneFlusher, CallFits, Types
  <2>5. CASE Rename(t)
    <3>1. OwnShards = {} /\ temps[run] \in Image /\ run \in RunIds
      BY <2>5, SnapshotType DEF Rename, ShardFits, ImageFits, Types
    <3>2. CASE shards' = [shards EXCEPT ![run] = temps[run]] /\ pc' = [pc EXCEPT ![t] = "sync"]
               /\ UNCHANGED runtime
      <4>1. OwnShards' = {run}
        BY <3>1, <3>2 DEF OwnShards, Types
      <4>2. flushState' = "busy"
        BY <2>5, <3>2 DEF Rename, OneFlusher
      <4> QED
        BY <2>5, <3>2, <4>1, <4>2 DEF Rename, ShardFits, OneFlusher, Types
    <3>3. CASE UNCHANGED shards /\ EndFlush(t, "directory")
      BY <2>5, <3>1, <3>3 DEF Rename, ShardFits, OwnShards, OneFlusher, Types
    <3> QED
      BY <2>5, <3>2, <3>3 DEF Rename
  <2>6. CASE SyncDirectory(t)
    BY <2>6 DEF SyncDirectory, ShardFits, OwnShards, OneFlusher, CallFits, Types
  <2> QED
    BY <1>4, <2>1, <2>2, <2>3, <2>4, <2>5, <2>6 DEF Flushes
<1> QED
  BY <1>1, <1>2, <1>3, <1>4 DEF Moves

\* The temporary lives from its creation to the rename, whatever that says.
LEMMA TemporaryKept ==
    ASSUME CollectorInv, NEW t \in Threads, Moves(t)
    PROVE  TemporaryFits'
<1> USE CollectorAssumption DEF CollectorInv
<1>1. CASE Calls(t)
  BY <1>1 DEF Calls, CallWork, CallFlush, TemporaryFits, OneFlusher, CallFits, Types
<1>2. CASE Initializes(t)
  BY <1>2
     DEF Initializes, ClaimInitialize, Configure, Initialized, TemporaryFits, OneFlusher,
         CallFits, Types
<1>3. CASE Adds(t)
  BY <1>3
     DEF Adds, MarkIncomplete, AddNothing, AddFits, AddWraps, MarkOverflowed, Clamp,
         TemporaryFits, OneFlusher, CallFits, Types
<1>4. CASE Flushes(t)
  BY <1>4
     DEF Flushes, ClaimFlush, Flushed, Materialize, CreateTemporary, Rename, SyncDirectory,
         TemporaryFits, OneFlusher, CallFits, Types
<1> QED
  BY <1>1, <1>2, <1>3, <1>4 DEF Moves

\* A status is returned only once it is final, or before the flush was reached.
LEMMA AnsweredKept ==
    ASSUME CollectorInv, NEW t \in Threads, Moves(t)
    PROVE  Answered'
<1> USE CollectorAssumption DEF CollectorInv
<1>1. CASE UNCHANGED returned
  <2>1. flushState' = flushState \/ flushState \in {"none", "busy"}
    BY <1>1 DEF Moves, Calls, CallWork, CallFlush, Initializes, ClaimInitialize, Configure,
                Initialized, Adds, MarkIncomplete, AddNothing, AddFits, AddWraps,
                MarkOverflowed, Clamp, Flushes, ClaimFlush, Flushed, Materialize,
                CreateTemporary, Rename, SyncDirectory, OneFlusher
  <2>2. \A u \in Threads : \A i \in DOMAIN returned[u] :
            returned[u][i] \in Statuses \cup {"config", "memory"}
    BY ElementOfSeq, LenProperties DEF Types
  <2> QED
    BY <1>1, <2>1, <2>2 DEF Answered, Statuses
<1>2. ASSUME NEW status \in Statuses \cup {"config", "memory"},
             returned' = [returned EXCEPT ![t] = Append(@, status)],
             status \in {"config", "memory"} \/ status = flushState',
             flushState' = flushState \/ flushState = "busy"
      PROVE  Answered'
  <2>1. \A u \in Threads : \A i \in DOMAIN returned[u] :
            returned[u][i] \in Statuses \cup {"config", "memory"}
    BY ElementOfSeq, LenProperties DEF Types
  <2>2. ASSUME NEW u \in Threads, NEW i \in DOMAIN returned'[u],
               returned'[u][i] \notin {"config", "memory"}
        PROVE  returned'[u][i] = flushState'
    BY <1>2, <2>1, <2>2, ReturnedKeeps DEF Answered, Statuses
  <2> QED
    BY <2>2 DEF Answered
<1>3. CASE Initializes(t)
  BY <1>1, <1>2, <1>3 DEF Initializes, ClaimInitialize, Configure, Initialized, Statuses
<1>4. CASE Flushes(t)
  BY <1>1, <1>2, <1>4
     DEF Flushes, ClaimFlush, Flushed, Materialize, CreateTemporary, Rename, SyncDirectory,
         OneFlusher, Types, Statuses
<1>5. CASE Calls(t) \/ Adds(t)
  BY <1>1, <1>5 DEF Calls, CallWork, CallFlush, Adds, MarkIncomplete, AddNothing, AddFits,
                    AddWraps, MarkOverflowed, Clamp
<1> QED
  BY <1>3, <1>4, <1>5 DEF Moves

\* The invariant is inductive.
LEMMA CollectorInvStep == CollectorInv /\ [Next]_vars => CollectorInv'
<1> SUFFICES ASSUME CollectorInv, [Next]_vars PROVE CollectorInv'
  OBVIOUS
<1>1. CASE UNCHANGED vars \/ Crash
  BY <1>1 DEF vars, Crash, CollectorInv, Types, CallFits, Quiesced, OneFlusher, ImageFits,
              Snapshot, ShardFits, OwnShards, TemporaryFits, Answered
<1>2. ASSUME NEW t \in Threads, Moves(t) PROVE CollectorInv'
  BY <1>2, TypesKept, CallsKept, QuiescedKept, OneFlusherKept, ImageKept, ShardKept,
     TemporaryKept, AnsweredKept DEF CollectorInv
<1> QED
  BY <1>1, <1>2 DEF Next, Step, Moves, Calls, Initializes, Adds, Flushes

\* Every behaviour of the collector satisfies the invariant.
THEOREM CollectorInvariant == Spec => []CollectorInv
BY CollectorInvInit, CollectorInvStep, PTL DEF Spec

\* Every variable keeps its shape, and who has to clamp a cell is in a call.
THEOREM CollectorTypes == Spec => []TypeOK
<1>1. CollectorInv => TypeOK
  BY DEF CollectorInv, Types, CallFits, TypeOK, Statuses
<1> QED
  BY <1>1, CollectorInvariant, PTL

\* The process completes at most one shard, and all flushes return one status
\* (collector.c, __ck_profile_flush).
THEOREM OneShard == Spec => []FlushedOnce
<1>1. CollectorInv => FlushedOnce
  <2> SUFFICES ASSUME CollectorInv PROVE FlushedOnce
    OBVIOUS
  <2>1. OwnShards = {} \/ \E r : OwnShards = {r}
    BY DEF CollectorInv, ShardFits
  <2>2. Cardinality(OwnShards) <= 1
    <3>1. CASE OwnShards = {}
      BY <3>1, FS_EmptySet
    <3>2. ASSUME NEW r, OwnShards = {r} PROVE Cardinality(OwnShards) <= 1
      <4>1. Cardinality({r}) = 1
        BY FS_Singleton
      <4> QED
        BY <3>2, <4>1
    <3> QED
      BY <2>1, <3>1, <3>2
  <2> QED
    BY <2>2 DEF CollectorInv, Answered, ShardFits, FlushedOnce
<1> QED
  BY <1>1, CollectorInvariant, PTL

\* A flush that ended leaves no temporary of its own (linux.c, publish).
THEOREM NothingLeftBehind == Spec => []NoTemporaryStays
<1>1. CollectorInv => NoTemporaryStays
  BY DEF CollectorInv, TemporaryFits, OneFlusher, NoTemporaryStays
<1> QED
  BY <1>1, CollectorInvariant, PTL

-----------------------------------------------------------------------------
(* The collector implements ProfileCounts, with these values of its variables. *)

\* Somebody has still to clamp cell c.
Wrapped(c) == \E t \in Threads : pc[t] \in Counting /\ TheJob(t).cell = c

countBar == [c \in Cells |-> IF Wrapped(c) THEN Max ELSE cells[c]]
lostBar == overflowed \/ \E t \in Threads : pc[t] = "mark"
publishedBar == {shards[r] : r \in RunIds} \ {NoShard, Foreign}
bar == <<countBar, lostBar, incomplete, publishedBar>>

\* Nobody has added, nobody has published.
LEMMA InitRefines == Init => Counts!CountsInit
<1> SUFFICES ASSUME Init PROVE Counts!CountsInit
  OBVIOUS
<1>1. \A c \in Cells : ~Wrapped(c)
  BY DEF Init, Wrapped
<1>2. publishedBar = {}
  BY DEF Init, publishedBar
<1> QED
  BY <1>1, <1>2 DEF Init, Counts!CountsInit, Wrapped, publishedBar

\* A wrapped cell has already been counted as lost.
LEMMA WrappedIsLost ==
    ASSUME CollectorInv, NEW c \in Cells, Wrapped(c)
    PROVE  lostBar
BY DEF CollectorInv, CallFits, Wrapped, lostBar

\* What an addition does to the three values is an addition of ProfileCounts.
LEMMA AddRefines ==
    ASSUME NEW c \in Cells, NEW v \in 1 .. Max,
           countBar' = [countBar EXCEPT ![c] = IF v <= Max - @ THEN @ + v ELSE Max],
           lostBar' = (lostBar \/ v > Max - countBar[c]),
           publishedBar' = publishedBar, incomplete' = incomplete
    PROVE  Counts!CountsNext
<1>1. Counts!Add(c, v)
  BY DEF Counts!Add, countBar, lostBar, publishedBar, Wrapped
<1> QED
  BY <1>1 DEF Counts!CountsNext

\* What a thread adds: to a cell, more than nothing, and the word stays in range.
LEMMA Addition ==
    ASSUME CollectorInv, NEW t \in Threads, AddFits(t) \/ AddWraps(t)
    PROVE  /\ TheJob(t).cell \in Cells /\ TheJob(t).value \in 1 .. Max
           /\ cells[TheJob(t).cell] \in 0 .. Max
<1>1. calling[t] = "work" /\ Types /\ CallFits(t)
  BY DEF CollectorInv, CallFits, AddFits, AddWraps
<1>2. TheJob(t) \in Job
  BY <1>1, JobTypes
<1>3. TheJob(t).cell \in Cells /\ TheJob(t).value \in 0 .. Max
  BY <1>2 DEF Job
<1>4. cells[TheJob(t).cell] \in 0 .. Max
  BY <1>1, <1>3 DEF Types
<1> QED
  BY <1>3, <1>4, CollectorAssumption DEF AddFits, AddWraps

\* An addition that fits is one, or is swallowed by a cell that has wrapped.
LEMMA AddFitsRefines ==
    ASSUME CollectorInv, NEW t \in Threads, AddFits(t)
    PROVE  Counts!CountsNext \/ UNCHANGED bar
<1>1. PICK c \in Cells, v \in 1 .. Max :
          /\ cells[c] \in 0 .. Max /\ v <= Max - cells[c]
          /\ cells' = [cells EXCEPT ![c] = (cells[c] + v) % (Max + 1)]
  BY Addition DEF AddFits, FetchAdd
<1>2. cells' = [cells EXCEPT ![c] = cells[c] + v] /\ Types
  <2>1. cells[c] + v \in 0 .. Max
    BY <1>1, CollectorAssumption
  <2>2. (cells[c] + v) % (Max + 1) = cells[c] + v
    BY <2>1, CollectorAssumption, SMTT(60)
  <2> QED
    BY <1>1, <2>2 DEF CollectorInv
<1>3. \A d \in Cells : Wrapped(d)' = Wrapped(d)
  BY <1>2 DEF AddFits, Wrapped, Types
<1>4. lostBar' = lostBar /\ publishedBar' = publishedBar /\ incomplete' = incomplete
  BY <1>2 DEF AddFits, lostBar, publishedBar, Types
<1>5. CASE Wrapped(c)
  <2>1. countBar' = countBar
    BY <1>1, <1>2, <1>3, <1>5 DEF countBar, Types
  <2> QED
    BY <1>4, <2>1 DEF bar
<1>6. CASE ~Wrapped(c)
  <2>1. countBar[c] = cells[c]
    BY <1>6 DEF countBar
  <2>2. countBar' = [countBar EXCEPT ![c] = cells[c] + v]
    BY <1>1, <1>2, <1>3, <1>6 DEF countBar, Types
  <2>3. ~(v > Max - countBar[c])
    BY <1>1, <2>1, CollectorAssumption
  <2>4. countBar' = [countBar EXCEPT ![c] = IF v <= Max - @ THEN @ + v ELSE Max]
    BY <1>1, <2>1, <2>2
  <2>5. lostBar' = (lostBar \/ v > Max - countBar[c])
    BY <1>4, <2>3 DEF lostBar
  <2> QED
    BY <1>4, <2>4, <2>5, AddRefines
<1> QED
  BY <1>5, <1>6

\* An addition that wraps makes the cell worth Max, and is counted as lost.
LEMMA AddWrapsRefines ==
    ASSUME CollectorInv, NEW t \in Threads, AddWraps(t)
    PROVE  Counts!CountsNext
<1>1. PICK c \in Cells, v \in 1 .. Max :
          /\ c = TheJob(t).cell /\ v = TheJob(t).value
          /\ cells[c] \in 0 .. Max /\ v > Max - cells[c]
          /\ cells' = [cells EXCEPT ![c] = (cells[c] + v) % (Max + 1)]
  BY Addition DEF AddWraps, FetchAdd
<1>2. Types
  BY DEF CollectorInv
<1>3. /\ pc' = [pc EXCEPT ![t] = "mark"] /\ jobs' = jobs /\ pc[t] = "add"
      /\ overflowed' = overflowed /\ incomplete' = incomplete /\ shards' = shards
  BY DEF AddWraps
<1>4. \A d \in Cells : Wrapped(d)' <=> Wrapped(d) \/ d = c
  BY <1>1, <1>2, <1>3 DEF Wrapped, Types
<1>5. lostBar' /\ publishedBar' = publishedBar
  BY <1>2, <1>3 DEF lostBar, publishedBar, Types
<1>6. countBar' = [countBar EXCEPT ![c] = Max]
  BY <1>1, <1>2, <1>4 DEF countBar, Types
<1>7. countBar[c] \in {cells[c], Max}
  BY DEF countBar
<1>8. v > Max - countBar[c]
  BY <1>1, <1>7, CollectorAssumption
<1>9. countBar' = [countBar EXCEPT ![c] = IF v <= Max - @ THEN @ + v ELSE Max]
  <2>1. ~(v <= Max - countBar[c])
    BY <1>1, <1>7, <1>8, CollectorAssumption
  <2> QED
    BY <1>6, <2>1
<1>10. lostBar' = (lostBar \/ v > Max - countBar[c])
  BY <1>5, <1>8 DEF lostBar
<1> QED
  BY <1>3, <1>5, <1>9, <1>10, AddRefines

\* Noticing the wrap and clamping the word change nothing that is promised.
LEMMA ClampRefines ==
    ASSUME CollectorInv, NEW t \in Threads, MarkOverflowed(t) \/ Clamp(t)
    PROVE  UNCHANGED bar
<1> USE DEF CollectorInv
<1>1. publishedBar' = publishedBar /\ incomplete' = incomplete
  BY DEF MarkOverflowed, Clamp, publishedBar
<1>2. CASE MarkOverflowed(t)
  <2>1. \A d \in Cells : Wrapped(d)' = Wrapped(d)
    BY <1>2 DEF MarkOverflowed, Wrapped, Types
  <2>2. countBar' = countBar
    BY <1>2, <2>1 DEF MarkOverflowed, countBar
  <2>3. lostBar' = lostBar
    BY <1>2 DEF MarkOverflowed, lostBar
  <2> QED
    BY <1>1, <2>2, <2>3 DEF bar
<1>3. CASE Clamp(t)
  <2>1. lostBar' = lostBar
    BY <1>3 DEF Clamp, lostBar, CallFits, Types
  <2>2. CASE UNCHANGED <<cells, pc, jobs>>
    <3>1. \A d \in Cells : Wrapped(d)' = Wrapped(d)
      BY <2>2 DEF Wrapped
    <3>2. countBar' = countBar
      BY <2>2, <3>1 DEF countBar
    <3> QED
      BY <1>1, <2>1, <3>2 DEF bar
  <2>3. ASSUME NEW c \in Cells, c = TheJob(t).cell,
               cells' = [cells EXCEPT ![c] = Max], FinishJob(t)
        PROVE  UNCHANGED bar
    <3>1. \A d \in Cells : d # c => Wrapped(d)' = Wrapped(d)
      BY <1>3, <2>3 DEF Wrapped, Types
    <3>2. cells'[c] = Max /\ Wrapped(c) /\ \A d \in Cells : d # c => cells'[d] = cells[d]
      BY <1>3, <2>3 DEF Clamp, Wrapped, Types
    <3>3. countBar' = countBar
      BY <3>1, <3>2 DEF countBar
    <3> QED
      BY <1>1, <2>1, <3>3 DEF bar
  <2>4. TheJob(t).cell \in Cells
    <3>1. calling[t] = "work" /\ Types /\ CallFits(t)
      BY <1>3 DEF Clamp, CallFits
    <3>2. TheJob(t) \in Job
      BY <3>1, JobTypes
    <3> QED
      BY <3>2 DEF Job
  <2> QED
    BY <1>3, <2>2, <2>3, <2>4 DEF Clamp
<1> QED
  BY <1>2, <1>3

\* The shard that the rename completes holds the counters as they are: nothing is
\* added, and no cell waits to be clamped, while a flush runs.
LEMMA RenameRefines ==
    ASSUME CollectorInv, NEW t \in Threads, Rename(t)
    PROVE  Counts!CountsNext \/ UNCHANGED bar
<1> USE DEF CollectorInv
<1>1. \A u \in Threads : pc[u] \notin Counting /\ pc'[u] \notin Counting
  BY DEF Rename, CallFits, Quiesced, Types
<1>2. \A d \in Cells : ~Wrapped(d) /\ ~Wrapped(d)'
  BY <1>1 DEF Wrapped
<1>3. cells' = cells /\ overflowed' = overflowed /\ incomplete' = incomplete
  BY DEF Rename
<1>4. countBar = cells /\ countBar' = cells
  BY <1>2, <1>3 DEF countBar, Types
<1>5. lostBar = overflowed /\ lostBar' = overflowed
  BY <1>1, <1>3 DEF lostBar, Types
<1>6. CASE UNCHANGED shards
  BY <1>3, <1>4, <1>5, <1>6 DEF bar, publishedBar
<1>7. CASE shards' = [shards EXCEPT ![run] = temps[run]]
  <2>1. temps[run] = Snapshot /\ run \in RunIds /\ OwnShards = {}
    BY DEF Rename, ImageFits, ShardFits, Types
  <2>2. Snapshot \notin {NoShard, Foreign}
    BY SnapshotType, CollectorAssumption
  <2>3. publishedBar = {}
    BY <2>1 DEF publishedBar, OwnShards
  <2>4. publishedBar' = {Snapshot}
    BY <1>7, <2>1, <2>2 DEF publishedBar, OwnShards, Types
  <2>5. publishedBar' = {[counts |-> countBar,
                          overflowed |-> lostBar \/ \E c \in Cells : countBar[c] = Max,
                          incomplete |-> incomplete]}
    BY <1>4, <1>5, <2>4 DEF Snapshot
  <2>6. Counts!Publish
    BY <1>3, <1>4, <1>5, <2>3, <2>5
       DEF Counts!Publish, countBar, lostBar, publishedBar, Wrapped
  <2> QED
    BY <2>6 DEF Counts!CountsNext
<1> QED
  BY <1>6, <1>7 DEF Rename

\* Every other step changes nothing that is promised, but for the wide count.
LEMMA OthersRefine ==
    ASSUME CollectorInv, NEW t \in Threads,
           \/ Calls(t) \/ Initializes(t) \/ MarkIncomplete(t) \/ AddNothing(t)
           \/ ClaimFlush(t) \/ Flushed(t) \/ Materialize(t) \/ CreateTemporary(t)
           \/ SyncDirectory(t)
    PROVE  Counts!CountsNext \/ UNCHANGED bar
<1> USE DEF CollectorInv
<1>1. UNCHANGED <<cells, overflowed, shards>>
  BY DEF Calls, CallWork, CallFlush, Initializes, ClaimInitialize, Configure, Initialized,
         MarkIncomplete, AddNothing, ClaimFlush, Flushed, Materialize, CreateTemporary,
         SyncDirectory
<1>2. /\ \A u \in Threads : pc'[u] \in Counting <=> pc[u] \in Counting
      /\ \A u \in Threads : pc'[u] = "mark" <=> pc[u] = "mark"
      /\ \A u \in Threads : pc[u] \in Counting => jobs'[u] = jobs[u]
  BY DEF Calls, CallWork, CallFlush, Initializes, ClaimInitialize, Configure, Initialized,
         MarkIncomplete, AddNothing, ClaimFlush, Flushed, Materialize, CreateTemporary,
         SyncDirectory, Types
<1>3. \A d \in Cells : Wrapped(d)' = Wrapped(d)
  BY <1>2 DEF Wrapped
<1>4. countBar' = countBar /\ lostBar' = lostBar /\ publishedBar' = publishedBar
  BY <1>1, <1>2, <1>3 DEF countBar, lostBar, publishedBar
<1>5. CASE incomplete' = incomplete
  BY <1>4, <1>5 DEF bar
<1>6. CASE MarkIncomplete(t)
  <2>1. Counts!Widen
    BY <1>4, <1>6 DEF MarkIncomplete, Counts!Widen, countBar, lostBar, publishedBar, Wrapped
  <2> QED
    BY <2>1 DEF Counts!CountsNext
<1> QED
  BY <1>5, <1>6
     DEF Calls, CallWork, CallFlush, Initializes, ClaimInitialize, Configure, Initialized,
         AddNothing, ClaimFlush, Flushed, Materialize, CreateTemporary, SyncDirectory

\* Every step maps to a step of ProfileCounts or to none.
LEMMA StepRefines ==
    CollectorInv /\ [Next]_vars => [Counts!CountsNext]_(Counts!countsVars)
<1> SUFFICES ASSUME CollectorInv, [Next]_vars
             PROVE  Counts!CountsNext \/ UNCHANGED Counts!countsVars
  OBVIOUS
<1>1. UNCHANGED bar => UNCHANGED Counts!countsVars
  BY DEF bar, Counts!countsVars, countBar, lostBar, publishedBar, Wrapped
<1>2. CASE UNCHANGED vars \/ Crash
  <2>1. UNCHANGED <<pc, jobs, cells, overflowed, incomplete, shards>>
    BY <1>2 DEF vars, Crash
  <2>2. \A d \in Cells : Wrapped(d)' = Wrapped(d)
    BY <2>1 DEF Wrapped
  <2>3. UNCHANGED bar
    BY <2>1, <2>2 DEF bar, countBar, lostBar, publishedBar
  <2> QED
    BY <1>1, <2>3
<1>3. ASSUME NEW t \in Threads, Moves(t)
      PROVE  Counts!CountsNext \/ UNCHANGED bar
  BY <1>3, AddFitsRefines, AddWrapsRefines, ClampRefines, RenameRefines, OthersRefine
     DEF Moves, Adds, Flushes
<1> QED
  BY <1>1, <1>2, <1>3 DEF Next, Step, Moves, Calls, Initializes, Adds, Flushes

\* The collector counts as ProfileCounts promises: it saturates, loses nothing
\* unannounced, and publishes one whole snapshot (collector.c, ck_profile_add_cell
\* and __ck_profile_flush).
THEOREM CollectorImplementsCounts == Spec => CountsSaturate
BY InitRefines, StepRefines, CollectorInvariant, PTL DEF Spec, CountsSaturate, Counts!CountsSpec
=============================================================================
