-------------------------- MODULE ProfileCollector --------------------------
(***************************************************************************)
(* The collection runtime linked into a profile-generation artifact        *)
(* (native/profile_runtime): threads of one process initialize it, add to  *)
(* its counters without a lock, and flush it into a shard published in a   *)
(* directory that other processes publish into too.                        *)
(*                                                                         *)
(* A cell wraps like the 64-bit word it is: the thread that wrapped it     *)
(* notices afterwards and forces it to the maximum.  The host quiesces all *)
(* calls before it flushes (docs/reference/cli.md:130).  A shard is named  *)
(* by the random run id of the attempt that published it.                  *)
(***************************************************************************)
EXTENDS Naturals, Sequences, FiniteSets

CONSTANTS Threads,
          Cells, Max,
          Scripts,     \* what each thread may have to add: [cell, value, wide]
          RunIds,      \* the values random run ids take
          MaxAttempts, \* of a flush, 16 in the code
          MaxFlushes,  \* flush calls per thread
          MaxFaults,   \* operations of the platform that fail
          NoShard, Foreign

Job == [cell : Cells, value : 0 .. Max, wide : BOOLEAN]

\* What a shard of this process holds.
Image == [counts : [Cells -> 0 .. Max], overflowed : BOOLEAN, incomplete : BOOLEAN]

ASSUME CollectorAssumption ==
    /\ Max \in Nat \ {0}
    /\ Scripts \subseteq [Threads -> Seq(Job)]
    /\ MaxAttempts \in Nat \ {0}
    /\ MaxFaults \in Nat
    /\ NoShard # Foreign /\ {NoShard, Foreign} \cap Image = {}

VARIABLES initState,  \* "unset", "busy", "ready" or "failed"
          cells,      \* the counters, modulo Max + 1
          overflowed, \* ck_profile_overflowed
          incomplete, \* ck_profile_incomplete
          flushState, \* "none", "busy" or the status every flush returns
          alive,      \* the process was not killed
          pc,         \* thread -> where it is
          calling,    \* thread -> the call it makes: "none", "work" or "flush"
          jobs,       \* thread -> the additions still to make
          observed,   \* thread -> the value its compare-exchange expects
          image,      \* the shard bytes being published
          run, attempt, \* run id and number of the current attempt
          temps,      \* run id -> owner of the temporary file of that name
          shards,     \* run id -> the completed shard of that name
          returned,   \* thread -> the statuses its flush calls returned
          faults      \* platform operations that failed

runtime == <<initState, cells, overflowed, incomplete, flushState>>
threads == <<pc, calling, jobs, observed, returned>>
disk == <<temps, shards>>
flushing == <<image, run, attempt>>
vars == <<runtime, alive, threads, flushing, disk, faults>>

\* Other processes left temporaries and completed shards in the directory.
Init ==
    /\ initState = "unset"
    /\ cells = [c \in Cells |-> 0]
    /\ overflowed = FALSE
    /\ incomplete = FALSE
    /\ flushState = "none"
    /\ alive = TRUE
    /\ pc = [t \in Threads |-> "idle"]
    /\ calling = [t \in Threads |-> "none"]
    /\ jobs \in Scripts
    /\ observed = [t \in Threads |-> 0]
    /\ image = NoShard
    /\ run \in RunIds
    /\ attempt = 0
    /\ temps \in [RunIds -> {NoShard, Foreign}]
    /\ shards \in [RunIds -> {NoShard, Foreign}]
    /\ returned = [t \in Threads |-> <<>>]
    /\ faults = 0

Goto(t, where) == pc' = [pc EXCEPT ![t] = where]

Fails == faults < MaxFaults /\ faults' = faults + 1

\* A flush call comes back.
Return(t, status) ==
    /\ Goto(t, "idle")
    /\ calling' = [calling EXCEPT ![t] = "none"]
    /\ returned' = [returned EXCEPT ![t] = Append(@, status)]

-----------------------------------------------------------------------------
(* Calls of the host. *)

\* No instrumented function is entered while a flush runs.
CallWork(t) ==
    /\ pc[t] = "idle" /\ jobs[t] # <<>>
    /\ \A u \in Threads : calling[u] # "flush"
    /\ calling' = [calling EXCEPT ![t] = "work"]
    /\ Goto(t, "ensure")
    /\ UNCHANGED <<runtime, alive, jobs, observed, returned, flushing, disk, faults>>

\* No flush is called while an instrumented function runs.
CallFlush(t) ==
    /\ pc[t] = "idle" /\ Len(returned[t]) < MaxFlushes
    /\ \A u \in Threads : calling[u] # "work"
    /\ calling' = [calling EXCEPT ![t] = "flush"]
    /\ Goto(t, "ensure")
    /\ UNCHANGED <<runtime, alive, jobs, observed, returned, flushing, disk, faults>>

-----------------------------------------------------------------------------
(* __ck_profile_initialize, which every exported function and flush call first. *)

\* The thread that wins the compare-exchange configures the runtime.
ClaimInitialize(t) ==
    /\ pc[t] = "ensure" /\ initState = "unset"
    /\ initState' = "busy"
    /\ Goto(t, "configure")
    /\ UNCHANGED <<cells, overflowed, incomplete, flushState, alive, calling, jobs,
                   observed, returned, flushing, disk, faults>>

\* Where a call goes once the runtime is initialized, or could not be: the
\* instrumented code ignores the status, a flush returns it.
Proceed(t, status) ==
    \/ /\ calling[t] = "work"
       /\ Goto(t, "add")
       /\ UNCHANGED <<calling, returned>>
    \/ /\ calling[t] = "flush" /\ status = "ok"
       /\ Goto(t, "flush")
       /\ UNCHANGED <<calling, returned>>
    \/ /\ calling[t] = "flush" /\ status # "ok"
       /\ Return(t, status)

\* Mutant: a failed initialization leaves the state busy.
ConfigureForgetful(t) ==
    /\ pc[t] = "configure"
    /\ \/ /\ initState' = "ready"
          /\ Proceed(t, "ok")
          /\ UNCHANGED faults
       \/ /\ Fails
          /\ Proceed(t, "memory")
          /\ UNCHANGED initState
    /\ UNCHANGED <<cells, overflowed, incomplete, flushState, alive, jobs, observed,
                   flushing, disk>>

\* The tables are stored and validated, the zeroed cells allocated.
Configure(t) ==
    /\ pc[t] = "configure"
    /\ \/ /\ initState' = "ready"
          /\ Proceed(t, "ok")
          /\ UNCHANGED faults
       \/ /\ Fails
          /\ initState' = "failed"
          /\ Proceed(t, "memory")
    /\ UNCHANGED <<cells, overflowed, incomplete, flushState, alive, jobs, observed,
                   flushing, disk>>

\* Every other thread spins until the state is final.
Initialized(t) ==
    /\ pc[t] = "ensure" /\ initState \in {"ready", "failed"}
    /\ Proceed(t, IF initState = "ready" THEN "ok" ELSE "config")
    /\ UNCHANGED <<runtime, alive, jobs, observed, flushing, disk, faults>>

-----------------------------------------------------------------------------
(* The counters. *)

TheJob(t) == Head(jobs[t])

\* The call returns; the next addition is a call of its own.
FinishJob(t) ==
    /\ jobs' = [jobs EXCEPT ![t] = Tail(@)]
    /\ Goto(t, "idle")
    /\ calling' = [calling EXCEPT ![t] = "none"]

\* __ck_profile_observe_trip on a count wider than its histogram.
MarkIncomplete(t) ==
    /\ pc[t] = "add" /\ TheJob(t).wide /\ ~incomplete
    /\ incomplete' = TRUE
    /\ UNCHANGED <<initState, cells, overflowed, flushState, alive, threads, flushing,
                   disk, faults>>

Adding(t) == pc[t] = "add" /\ (TheJob(t).wide => incomplete)

\* ck_profile_add_cell drops a zero, and everything if initialization failed.
AddNothing(t) ==
    /\ Adding(t)
    /\ TheJob(t).value = 0 \/ initState # "ready"
    /\ FinishJob(t)
    /\ UNCHANGED <<runtime, alive, observed, returned, flushing, disk, faults>>

\* Mutant: the word is wider than the maximum.
FetchAddWide(t) ==
    cells' = [cells EXCEPT ![TheJob(t).cell] = @ + TheJob(t).value]

FetchAdd(t) ==
    cells' = [cells EXCEPT ![TheJob(t).cell] = (@ + TheJob(t).value) % (Max + 1)]

AddFits(t) ==
    /\ Adding(t)
    /\ TheJob(t).value > 0 /\ initState = "ready"
    /\ TheJob(t).value <= Max - cells[TheJob(t).cell]
    /\ FetchAdd(t)
    /\ FinishJob(t)
    /\ UNCHANGED <<initState, overflowed, incomplete, flushState, alive, observed,
                   returned, flushing, disk, faults>>

\* The fetch-add wrapped; other threads may see the small value for a while.
AddWraps(t) ==
    /\ Adding(t)
    /\ initState = "ready"
    /\ TheJob(t).value > Max - cells[TheJob(t).cell]
    /\ FetchAdd(t)
    /\ observed' = [observed EXCEPT ![t] = cells'[TheJob(t).cell]]
    /\ Goto(t, "mark")
    /\ UNCHANGED <<initState, overflowed, incomplete, flushState, alive, calling, jobs,
                   returned, flushing, disk, faults>>

MarkOverflowed(t) ==
    /\ pc[t] = "mark"
    /\ overflowed' = TRUE
    /\ Goto(t, "clamp")
    /\ UNCHANGED <<initState, cells, incomplete, flushState, alive, calling, jobs,
                   observed, returned, flushing, disk, faults>>

\* Mutant: one compare-exchange, not a loop.
ClampOnce(t) ==
    /\ pc[t] = "clamp"
    /\ cells' = [cells EXCEPT ![TheJob(t).cell] = IF @ = observed[t] THEN Max ELSE @]
    /\ FinishJob(t)
    /\ UNCHANGED <<initState, overflowed, incomplete, flushState, alive, observed,
                   returned, flushing, disk, faults>>

\* The compare-exchange loop: it ends on success, or when it observes Max.  A
\* spurious failure changes nothing and is left out.
Clamp(t) ==
    LET c == TheJob(t).cell
    IN  /\ pc[t] = "clamp"
        /\ IF cells[c] \in {observed[t], Max}
           THEN /\ cells' = [cells EXCEPT ![c] = Max]
                /\ FinishJob(t)
                /\ UNCHANGED observed
           ELSE /\ observed' = [observed EXCEPT ![t] = cells[c]]
                /\ UNCHANGED <<cells, pc, calling, jobs>>
        /\ UNCHANGED <<initState, overflowed, incomplete, flushState, alive, returned,
                       flushing, disk, faults>>

-----------------------------------------------------------------------------
(* __ck_profile_flush and __ck_profile_platform_publish. *)

ClaimFlush(t) ==
    /\ pc[t] = "flush" /\ flushState = "none"
    /\ flushState' = "busy"
    /\ attempt' = 0
    /\ Goto(t, "attempt")
    /\ UNCHANGED <<initState, cells, overflowed, incomplete, alive, calling, jobs,
                   observed, returned, image, run, disk, faults>>

\* Later flushes, and those that spin meanwhile, return the same status.
Flushed(t) ==
    /\ pc[t] = "flush" /\ flushState \notin {"none", "busy"}
    /\ Return(t, flushState)
    /\ UNCHANGED <<runtime, alive, jobs, observed, flushing, disk, faults>>

\* The status is final.
EndFlush(t, status) ==
    /\ flushState' = status
    /\ Return(t, status)
    /\ UNCHANGED <<initState, cells, overflowed, incomplete, alive, jobs, observed>>

Staying == UNCHANGED <<runtime, alive, calling, jobs, observed, returned>>

\* A new run id, and the counters copied under it.
Materialize(t) ==
    /\ pc[t] = "attempt"
    /\ \/ /\ run' \in RunIds
          /\ image' = [counts |-> cells,
                       overflowed |-> overflowed \/ \E c \in Cells : cells[c] = Max,
                       incomplete |-> incomplete]
          /\ Goto(t, "create")
          /\ Staying
          /\ UNCHANGED <<attempt, disk, faults>>
       \/ /\ Fails
          /\ EndFlush(t, "write")
          /\ UNCHANGED <<flushing, disk>>

\* The temporary is created exclusively: a name in use is a collision, and the
\* flush tries again under another run id.
CreateTemporary(t) ==
    /\ pc[t] = "create"
    /\ \/ /\ temps[run] = NoShard
          /\ temps' = [temps EXCEPT ![run] = image]
          /\ Goto(t, "rename")
          /\ Staying
          /\ UNCHANGED <<attempt, faults>>
       \/ /\ temps[run] # NoShard
          /\ attempt + 1 < MaxAttempts
          /\ attempt' = attempt + 1
          /\ Goto(t, "attempt")
          /\ Staying
          /\ UNCHANGED <<temps, faults>>
       \/ /\ temps[run] # NoShard
          /\ attempt + 1 = MaxAttempts
          /\ EndFlush(t, "write")
          /\ UNCHANGED <<temps, attempt, faults>>
       \/ /\ Fails
          /\ EndFlush(t, "directory")
          /\ UNCHANGED <<temps, attempt>>
    /\ UNCHANGED <<image, run, shards>>

\* Mutant: the temporary of a failed attempt stays behind.
RenameLeaving(t) ==
    /\ pc[t] = "rename"
    /\ \/ /\ shards[run] = NoShard
          /\ shards' = [shards EXCEPT ![run] = temps[run]]
          /\ temps' = [temps EXCEPT ![run] = NoShard]
          /\ Goto(t, "sync")
          /\ Staying
          /\ UNCHANGED faults
       \/ /\ (shards[run] # NoShard /\ UNCHANGED faults) \/ Fails
          /\ EndFlush(t, "directory")
          /\ UNCHANGED disk
    /\ UNCHANGED flushing

\* Written, synced and renamed without replacing: any failure, a completed
\* shard of that name included, removes the temporary and ends the flush.
Rename(t) ==
    /\ pc[t] = "rename"
    /\ temps' = [temps EXCEPT ![run] = NoShard]
    /\ \/ /\ shards[run] = NoShard
          /\ shards' = [shards EXCEPT ![run] = temps[run]]
          /\ Goto(t, "sync")
          /\ Staying
          /\ UNCHANGED faults
       \/ /\ (shards[run] # NoShard /\ UNCHANGED faults) \/ Fails
          /\ EndFlush(t, "directory")
          /\ UNCHANGED shards
    /\ UNCHANGED flushing

\* Mutant: a directory that does not sync is a collision to retry.
SyncDirectoryRetrying(t) ==
    /\ pc[t] = "sync"
    /\ \/ EndFlush(t, "ok") /\ UNCHANGED <<attempt, faults>>
       \/ /\ Fails
          /\ attempt + 1 < MaxAttempts
          /\ attempt' = attempt + 1
          /\ Goto(t, "attempt")
          /\ Staying
    /\ UNCHANGED <<image, run, disk>>

\* The directory is synced last; the completed shard stays whatever it says.
SyncDirectory(t) ==
    /\ pc[t] = "sync"
    /\ \/ EndFlush(t, "ok") /\ UNCHANGED faults
       \/ Fails /\ EndFlush(t, "directory")
    /\ UNCHANGED <<flushing, disk>>

\* The process is killed.
Crash ==
    /\ alive
    /\ alive' = FALSE
    /\ UNCHANGED <<runtime, threads, flushing, disk, faults>>

Step(t) ==
    /\ alive
    /\ \/ ClaimInitialize(t) \/ Configure(t) \/ Initialized(t)
       \/ MarkIncomplete(t) \/ AddNothing(t) \/ AddFits(t) \/ AddWraps(t)
       \/ MarkOverflowed(t) \/ Clamp(t)
       \/ ClaimFlush(t) \/ Flushed(t)
       \/ Materialize(t) \/ CreateTemporary(t) \/ Rename(t) \/ SyncDirectory(t)

Next ==
    \/ \E t \in Threads : Step(t) \/ (alive /\ (CallWork(t) \/ CallFlush(t)))
    \/ Crash

\* Threads that are in a call keep running; nobody has to make calls.
Spec == Init /\ [][Next]_vars /\ \A t \in Threads : WF_vars(Step(t))

-----------------------------------------------------------------------------
(* Properties. *)

Counting == {"mark", "clamp"}

\* Every variable keeps its shape, and whoever has to clamp a cell is in a call
\* that has not returned.
TypeOK ==
    /\ cells \in [Cells -> 0 .. Max]
    /\ initState \in {"unset", "busy", "ready", "failed"}
    /\ flushState \in {"none", "busy", "ok", "directory", "write"}
    /\ \A t \in Threads : jobs[t] \in Seq(Job) /\ observed[t] \in 0 .. Max
    /\ \A t \in Threads : pc[t] \in Counting => calling[t] = "work"

\* The collector counts as ProfileCounts promises: a cell is worth Max from the
\* moment its addition wraps, although the word is small until it is clamped.
Counts == INSTANCE ProfileCounts WITH
    count <- [c \in Cells |->
                 IF \E t \in Threads : pc[t] \in Counting /\ TheJob(t).cell = c
                 THEN Max ELSE cells[c]],
    lost <- overflowed \/ \E t \in Threads : pc[t] = "mark",
    published <- {shards[r] : r \in RunIds} \ {NoShard, Foreign}

CountsSaturate == Counts!CountsSpec

OwnShards == {r \in RunIds : shards[r] \notin {NoShard, Foreign}}

\* However many threads flush, and however often, the process has at most one
\* completed shard - a second one would count the run twice in every merge - and
\* all of them return one status: "ok" only with the shard in place.
FlushedOnce ==
    /\ Cardinality(OwnShards) <= 1
    /\ \A t \in Threads : \A i \in DOMAIN returned[t] :
          returned[t][i] \notin {"config", "memory"} =>
              /\ returned[t][i] = flushState
              /\ flushState = "ok" => OwnShards # {}

\* A flush that ended, whichever of its attempts failed and how, leaves no
\* temporary of its own in the directory.
NoTemporaryStays ==
    flushState \notin {"none", "busy"} =>
        \A r \in RunIds : temps[r] \in {NoShard, Foreign}

\* Every call comes back: no thread spins forever on an initialization or a
\* flush that another thread began, and none clamps forever.
CallsReturn == \A t \in Threads : (pc[t] # "idle" /\ alive) ~> (pc[t] = "idle" \/ ~alive)

\* True random-name collisions retry (docs/abi/llvm.md:86): a flush reports a
\* directory error only when an operation of the directory failed.
CollisionsRetry == flushState = "directory" => faults > 0
=============================================================================
