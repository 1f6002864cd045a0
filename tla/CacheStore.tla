----------------------------- MODULE CacheStore -----------------------------
(***************************************************************************)
(* The compile cache shared by concurrent ckc processes (cli/cache): load  *)
(* an object or a multiversion bundle, else compile and store it, evict    *)
(* what exceeds the soft limit, and "cache clean".  There is no lock: the  *)
(* protocol is private staging, sync, rename, and checks on every read.    *)
(*                                                                         *)
(* A build is what a compile produces for a cache key: the entry stored    *)
(* under the key (the object, or the index of a bundle) and the digests of *)
(* its parts, each stored under a key derived from the build's key and the *)
(* digest.  SHA-256 is perfect: a damaged entry never decodes.             *)
(***************************************************************************)
EXTENDS Naturals, Sequences, FiniteSets, Functions

CONSTANTS Runners, Cleaners, \* processes
          Builds,            \* [key, parts]: what compiles may produce
          Setups,            \* who takes part: [cleaners, wanted keys, limit]
          MaxDamage,         \* entries the environment damages
          NoFile, Torn

Keys == {b.key : b \in Builds}
PartName(key, digest) == <<key, digest>>
Names == Keys \cup UNION {{PartName(b.key, d) : d \in Range(b.parts)} : b \in Builds}
Processes == Runners \cup Cleaners

\* What entries hold: the object or index of a build, a part of it, or garbage.
Parts == UNION {Range(b.parts) : b \in Builds}
Bodies == Builds \cup Parts \cup {Torn}
File == [body : Bodies, durable : BOOLEAN]

\* Names are strings of 64 hexadecimal digits; no two contents share a name.
ASSUME CacheAssumption ==
    /\ MaxDamage \in Nat /\ Runners \cap Cleaners = {}
    /\ \A s \in Setups : s.cleaners \subseteq Cleaners /\ s.keys \subseteq Keys /\ s.limit \in Nat
    /\ \A b \in Builds : b.parts \in Seq(Parts)
    /\ IsFiniteSet(Names) /\ Names \cap Processes = {}
    /\ \A k \in Keys, d \in Parts : PartName(k, d) \notin Keys
    /\ Torn \notin Builds \cup Parts /\ NoFile \notin File

VARIABLES root,     \* the cache root: its generation, "absent", "raw" or "private"
          entries,  \* name -> [body, durable] or NoFile
          older,    \* <<m, n>>: m was used longer ago than n (mtime)
          temp,     \* process -> its temporary, [body, durable] or NoFile
          pc, dir,  \* process -> where it is, generation of the root it opened
          want,     \* runner -> the key it looks for
          todo,     \* runner -> the entries it has still to write
          listing,  \* process -> names it listed, then those it has to remove
          order,    \* runner -> older, as it was when it looked
          index,    \* runner -> the entry it found under its key
          got,      \* runner -> the parts it read for it
          limit,    \* the soft limit, in entries
          damage,   \* entries damaged by the environment so far
          aborted   \* an eviction gave up over a vanished entry

vars == <<root, entries, older, temp, pc, dir, want, todo, listing, order,
          index, got, limit, damage, aborted>>
store == <<root, entries, older, temp>>
loaded == <<index, got>>
env == <<limit, damage, aborted>>

Init ==
    /\ root = [gen |-> 0, state |-> "absent"]
    /\ entries = [n \in Names |-> NoFile]
    /\ older = {}
    /\ temp = [p \in Processes |-> NoFile]
    /\ \E setup \in Setups :
          /\ limit = setup.limit
          /\ want \in [Runners -> setup.keys]
          /\ pc = [p \in Processes |-> CASE p \in Runners -> "start"
                                         [] p \in setup.cleaners -> "clean"
                                         [] OTHER -> "done"]
    /\ dir = [p \in Processes |-> 0]
    /\ todo = [p \in Runners |-> <<>>]
    /\ listing = [p \in Processes |-> {}]
    /\ order = [p \in Runners |-> {}]
    /\ index = [p \in Runners |-> NoFile]
    /\ got = [p \in Runners |-> <<>>]
    /\ damage = 0
    /\ aborted = FALSE

Present == {n \in Names : entries[n] # NoFile}
Goto(p, where) == pc' = [pc EXCEPT ![p] = where]

\* p stops and takes its local state with it.
Leave(p, where) ==
    /\ Goto(p, where)
    /\ dir' = [dir EXCEPT ![p] = 0]
    /\ todo' = [q \in Runners |-> IF q = p THEN <<>> ELSE todo[q]]
    /\ listing' = [listing EXCEPT ![p] = {}]
    /\ order' = [q \in Runners |-> IF q = p THEN {} ELSE order[q]]

\* The descriptor p holds still names a directory that has entries.
Linked(p) == root.state # "absent" /\ dir[p] = root.gen

Forget(n) == {pair \in older : n \notin {pair[1], pair[2]}}

-----------------------------------------------------------------------------
(* CacheStore::open_at, before the load and again before the store. *)

Opened(p) ==
    /\ Goto(p, IF todo[p] = <<>> THEN "load" ELSE "temporary")
    /\ dir' = [dir EXCEPT ![p] = root.gen]
    /\ UNCHANGED <<todo, listing, order>>

\* Without a usable root a load is a miss and a store is skipped.
Refused(p) == Leave(p, IF todo[p] = <<>> THEN "compile" ELSE "done")

\* A root that is there must be owner-only; a missing one is created.
OpenRoot(p) ==
    /\ pc[p] \in {"start", "open"}
    /\ \/ /\ root.state = "absent"
          /\ Goto(p, "create")
          /\ UNCHANGED <<dir, todo, listing, order>>
       \/ root.state = "raw" /\ Refused(p)
       \/ root.state = "private" /\ Opened(p)
    /\ UNCHANGED <<store, want, loaded, env>>

\* create_dir_all: another process may have been faster.
CreateRoot(p) ==
    /\ pc[p] = "create"
    /\ root' = IF root.state = "absent"
               THEN [gen |-> root.gen + 1, state |-> "raw"] ELSE root
    /\ Goto(p, "protect")
    /\ UNCHANGED <<entries, older, temp, dir, want, todo, listing, order, loaded, env>>

\* set_private_directory, by path, then open and validate.
ProtectRoot(p) ==
    /\ pc[p] = "protect"
    /\ \/ root.state = "absent" /\ Refused(p) /\ UNCHANGED root
       \/ /\ root.state # "absent"
          /\ root' = [root EXCEPT !.state = "private"]
          /\ Opened(p)
    /\ UNCHANGED <<entries, older, temp, want, loaded, env>>

-----------------------------------------------------------------------------
(* load_object and load_multiversion_bundle. *)

\* Mutant: the integrity digest is not compared.
ReadableUnchecked(p, n) == Linked(p) /\ entries[n] # NoFile

\* read_entry: it opens, decodes and matches its digest, key and manifest.
Readable(p, n) == Linked(p) /\ entries[n] # NoFile /\ entries[n].body # Torn

Touch(n) == older' = Forget(n) \cup {<<m, n>> : m \in Present \ {n}}

LoadEntry(p) ==
    /\ pc[p] = "load"
    /\ Readable(p, want[p])
    /\ index' = [index EXCEPT ![p] = entries[want[p]].body]
    /\ Touch(want[p])
    /\ Goto(p, "parts")
    /\ UNCHANGED <<root, entries, temp, dir, want, todo, listing, order, got, env>>

\* The references of an index; an object has none, and garbage does not parse.
PartsOf(body) == IF body \in Builds THEN body.parts ELSE <<>>
Incomplete(p) == Len(got[p]) < Len(PartsOf(index[p]))
NextPart(p) == PartName(want[p], PartsOf(index[p])[Len(got[p]) + 1])

\* A part has to be there and to have the digest the index gives.
LoadPart(p) ==
    /\ pc[p] = "parts" /\ Incomplete(p)
    /\ Readable(p, NextPart(p))
    /\ got' = [got EXCEPT ![p] = Append(@, entries[NextPart(p)].body)]
    /\ Touch(NextPart(p))
    /\ UNCHANGED <<root, entries, temp, pc, dir, want, todo, listing, order, index, env>>

\* Every part was read: the run uses what it loaded.
Hit(p) ==
    /\ pc[p] = "parts" /\ ~Incomplete(p)
    /\ Goto(p, "hit")
    /\ UNCHANGED <<store, dir, want, todo, listing, order, loaded, env>>

\* Anything missing or unreadable is a miss; what was read is dropped.
Miss(p) ==
    /\ \/ pc[p] = "load" /\ ~Readable(p, want[p])
       \/ pc[p] = "parts" /\ Incomplete(p) /\ ~Readable(p, NextPart(p))
    /\ index' = [index EXCEPT ![p] = NoFile]
    /\ got' = [got EXCEPT ![p] = <<>>]
    /\ Goto(p, "compile")
    /\ UNCHANGED <<store, dir, want, todo, listing, order, env>>

-----------------------------------------------------------------------------
(* store_object and store_multiversion_bundle: parts first, the key last. *)

Writes(b) ==
    [i \in DOMAIN b.parts |-> [name |-> PartName(b.key, b.parts[i]), body |-> b.parts[i]]]
        \o <<[name |-> b.key, body |-> b]>>

Compile(p) ==
    /\ pc[p] = "compile"
    /\ \E b \in Builds : b.key = want[p] /\ todo' = [todo EXCEPT ![p] = Writes(b)]
    /\ Goto(p, "open")
    /\ UNCHANGED <<store, dir, want, listing, order, loaded, env>>

\* O_EXCL under a name no other process uses, then all bytes.
CreateTemporary(p) ==
    /\ pc[p] = "temporary" /\ Linked(p)
    /\ temp' = [temp EXCEPT ![p] = [body |-> Head(todo[p]).body, durable |-> FALSE]]
    /\ Goto(p, "sync")
    /\ UNCHANGED <<root, entries, older, dir, want, todo, listing, order, loaded, env>>

\* Mutant: the bytes are left to the operating system.
SkipSync(p) ==
    /\ pc[p] = "sync"
    /\ Goto(p, "publish")
    /\ UNCHANGED <<store, dir, want, todo, listing, order, loaded, env>>

SyncTemporary(p) ==
    /\ pc[p] = "sync"
    /\ temp' = [temp EXCEPT ![p] = IF @ = NoFile THEN @ ELSE [@ EXCEPT !.durable = TRUE]]
    /\ Goto(p, "publish")
    /\ UNCHANGED <<root, entries, older, dir, want, todo, listing, order, loaded, env>>

\* renameat within the opened directory.
Publish(p) ==
    /\ pc[p] = "publish" /\ Linked(p)
    /\ temp[p] # NoFile
    /\ entries' = [entries EXCEPT ![Head(todo[p]).name] = temp[p]]
    /\ Touch(Head(todo[p]).name)
    /\ temp' = [temp EXCEPT ![p] = NoFile]
    /\ Goto(p, "scan")
    /\ UNCHANGED <<root, dir, want, todo, listing, order, loaded, env>>

Storing == {"temporary", "sync", "publish"}

\* Mutant: a failed write is tried again.
RetryWrite(p) ==
    /\ pc[p] \in Storing
    /\ temp' = [temp EXCEPT ![p] = NoFile]
    /\ Goto(p, "temporary")
    /\ UNCHANGED <<root, entries, older, dir, want, todo, listing, order, loaded, env>>

\* Mutant: the temporary of a failed write stays behind.
FailWriteLeaving(p) ==
    /\ pc[p] \in Storing
    /\ Leave(p, "done")
    /\ UNCHANGED <<store, want, loaded, env>>

\* Any step of a write can fail (and fails when a cleaner took the temporary or
\* the root): the temporary is removed and the rest of the build not stored.
FailWrite(p) ==
    /\ pc[p] \in Storing
    /\ temp' = [temp EXCEPT ![p] = NoFile]
    /\ Leave(p, "done")
    /\ UNCHANGED <<root, entries, older, want, loaded, env>>

-----------------------------------------------------------------------------
(* enforce_soft_limit after every write: names, then mtimes, then removals. *)

NextWrite(p) ==
    \/ Len(todo[p]) = 1 /\ Leave(p, "done")
    \/ /\ Len(todo[p]) > 1
       /\ todo' = [todo EXCEPT ![p] = Tail(@)]
       /\ listing' = [listing EXCEPT ![p] = {}]
       /\ Goto(p, "temporary")
       /\ UNCHANGED <<dir, order>>

\* The directory is listed by path.
Scan(p) ==
    /\ pc[p] = "scan"
    /\ listing' = [listing EXCEPT ![p] = Present]
    /\ Goto(p, "stat")
    /\ UNCHANGED <<store, dir, want, todo, order, loaded, env>>

Vanished(p) == \E n \in listing[p] : entries[n] = NoFile

\* An entry that is gone by the time it is looked at ends the eviction.
AbortEviction(p) ==
    /\ pc[p] = "stat"
    /\ Vanished(p)
    /\ aborted' = TRUE
    /\ NextWrite(p)
    /\ UNCHANGED <<store, want, loaded, limit, damage>>

\* The first names in the order of their mtimes, until the rest is within the limit.
Excess(names) == {n \in names : Cardinality({m \in names : <<m, n>> \in older}) + limit < Cardinality(names)}

\* Mutant: the entry just written is not counted.
StatWithoutNew(p) ==
    /\ pc[p] = "stat"
    /\ ~Vanished(p)
    /\ listing' = [listing EXCEPT ![p] = Excess(@ \ {Head(todo[p]).name})]
    /\ order' = [order EXCEPT ![p] = older]
    /\ Goto(p, "evict")
    /\ UNCHANGED <<store, dir, want, todo, loaded, env>>

Stat(p) ==
    /\ pc[p] = "stat"
    /\ ~Vanished(p)
    /\ listing' = [listing EXCEPT ![p] = Excess(@)]
    /\ order' = [order EXCEPT ![p] = older]
    /\ Goto(p, "evict")
    /\ UNCHANGED <<store, dir, want, todo, loaded, env>>

Unlink(n) ==
    /\ entries' = [entries EXCEPT ![n] = NoFile]
    /\ older' = Forget(n)

\* The least recent by then goes, through the descriptor; one that is already
\* gone counts as removed.
Evict(p) ==
    /\ pc[p] = "evict"
    /\ \E n \in listing[p] :
          /\ \A m \in listing[p] : <<m, n>> \notin order[p]
          /\ IF Linked(p) THEN Unlink(n) ELSE UNCHANGED <<entries, older>>
          /\ listing' = [listing EXCEPT ![p] = @ \ {n}]
    /\ UNCHANGED <<root, temp, pc, dir, want, todo, order, loaded, env>>

EndEviction(p) ==
    /\ pc[p] = "evict" /\ listing[p] = {}
    /\ NextWrite(p)
    /\ UNCHANGED <<store, want, loaded, env>>

-----------------------------------------------------------------------------
(* ckc cache clean. *)

Temporaries == {p \in Processes : temp[p] # NoFile}

\* Refused unless the root is private; every name is listed, temporaries too.
CleanList(p) ==
    /\ pc[p] = "clean"
    /\ IF root.state = "private"
       THEN /\ dir' = [dir EXCEPT ![p] = root.gen]
            /\ listing' = [listing EXCEPT ![p] = Present \cup Temporaries]
            /\ Goto(p, "remove")
            /\ UNCHANGED <<todo, order>>
       ELSE Leave(p, "done")
    /\ UNCHANGED <<store, want, loaded, env>>

\* Names are removed in whatever order the directory gives them.
CleanOne(p) ==
    /\ pc[p] = "remove" /\ Linked(p)
    /\ \E n \in listing[p] :
          /\ \/ n \in Present /\ Unlink(n) /\ UNCHANGED temp
             \/ n \in Temporaries /\ temp' = [temp EXCEPT ![n] = NoFile] /\ UNCHANGED <<entries, older>>
          /\ listing' = [listing EXCEPT ![p] = @ \ {n}]
    /\ UNCHANGED <<root, pc, dir, want, todo, order, loaded, env>>

\* The first name that is already gone ends the cleaning with an error.
CleanFails(p) ==
    /\ pc[p] = "remove"
    /\ \E n \in listing[p] : ~(Linked(p) /\ n \in Present \cup Temporaries)
    /\ Leave(p, "done")
    /\ UNCHANGED <<store, want, loaded, env>>

\* Mutant: the directory is removed with what came into it meanwhile.
CleanRootUnchecked(p) ==
    /\ pc[p] = "remove" /\ listing[p] = {}
    /\ root' = [root EXCEPT !.state = "absent"]
    /\ Leave(p, "done")
    /\ UNCHANGED <<entries, older, temp, want, loaded, env>>

\* remove_dir goes by path and fails on a directory that is not empty.
CleanRoot(p) ==
    /\ pc[p] = "remove" /\ listing[p] = {}
    /\ root' = IF Present = {} /\ Temporaries = {}
               THEN [root EXCEPT !.state = "absent"] ELSE root
    /\ Leave(p, "done")
    /\ UNCHANGED <<entries, older, temp, want, loaded, env>>

-----------------------------------------------------------------------------
(* The environment. *)

Ended == {"done", "hit", "crashed"}

\* A process is killed where it stands.
Crash(p) ==
    /\ pc[p] \notin Ended \cup {"start", "clean"}
    /\ Leave(p, "crashed")
    /\ UNCHANGED <<store, want, loaded, env>>

\* The machine stops: bytes that were not synced are gone.
PowerLoss ==
    LET killed == {p \in Processes : pc[p] \notin Ended \cup {"start", "clean"}}
    IN  /\ killed # {}
        /\ entries' = [n \in Names |->
              IF entries[n] # NoFile /\ ~entries[n].durable
              THEN [entries[n] EXCEPT !.body = Torn] ELSE entries[n]]
        /\ pc' = [p \in Processes |-> IF p \in killed THEN "crashed" ELSE pc[p]]
        /\ dir' = [p \in Processes |-> IF p \in killed THEN 0 ELSE dir[p]]
        /\ todo' = [p \in Runners |-> IF p \in killed THEN <<>> ELSE todo[p]]
        /\ listing' = [p \in Processes |-> IF p \in killed THEN {} ELSE listing[p]]
        /\ order' = [p \in Runners |-> IF p \in killed THEN {} ELSE order[p]]
        /\ UNCHANGED <<root, older, temp, want, loaded, env>>

\* The bytes of an entry rot.
Damage(n) ==
    /\ damage < MaxDamage
    /\ entries[n] # NoFile
    /\ entries' = [entries EXCEPT ![n].body = Torn]
    /\ damage' = damage + 1
    /\ UNCHANGED <<root, older, temp, pc, dir, want, todo, listing, order, loaded, limit, aborted>>

Step(p) ==
    \/ /\ p \in Runners
       /\ \/ OpenRoot(p) \/ CreateRoot(p) \/ ProtectRoot(p)
          \/ LoadEntry(p) \/ LoadPart(p) \/ Hit(p) \/ Miss(p)
          \/ Compile(p) \/ CreateTemporary(p) \/ SyncTemporary(p) \/ Publish(p)
          \/ FailWrite(p)
          \/ Scan(p) \/ AbortEviction(p) \/ Stat(p) \/ Evict(p) \/ EndEviction(p)
    \/ p \in Cleaners /\ (CleanList(p) \/ CleanOne(p) \/ CleanFails(p) \/ CleanRoot(p))

Next ==
    \/ \E p \in Processes : Step(p) \/ Crash(p)
    \/ PowerLoss
    \/ \E n \in Names : Damage(n)

\* The operating system runs every process that can run.
Spec == Init /\ [][Next]_vars /\ \A p \in Processes : WF_vars(Step(p))

-----------------------------------------------------------------------------
(* Properties. *)

\* Every variable keeps its shape; the recency order is one of what is present, and
\* only a root that exists holds anything.
TypeOK ==
    /\ root.state \in {"absent", "raw", "private"}
    /\ entries \in [Names -> File \cup {NoFile}]
    /\ older \subseteq Present \X Present
    /\ \A m, n \in Present : m # n => (<<m, n>> \in older <=> <<n, m>> \notin older)
    /\ temp \in [Processes -> File \cup {NoFile}]
    /\ \A p \in Runners : index[p] \in Bodies \cup {NoFile}
    /\ root.state = "absent" => Present = {} /\ Temporaries = {}

\* A run never uses anything but a build some compile produced for its key,
\* whole: no damaged object, no bundle with parts of another one or torn parts
\* (cli.md: "is a miss, never executable input").
HitIsWhole ==
    \A p \in Runners : pc[p] = "hit" =>
        /\ index[p] \in Builds
        /\ index[p].key = want[p]
        /\ got[p] = index[p].parts

\* What carries a cache key is complete on disk: no crash and no power loss at
\* any step of any writer leaves a torn entry, only damage from outside does.
PublishedIsComplete ==
    Cardinality({n \in Present : entries[n].body = Torn}) <= damage

\* Private temporaries outlive only processes that were killed (nothing else
\* ever removes them: eviction skips names that are not keys).
TemporariesAreOwned ==
    \A p \in Temporaries : pc[p] \in {"sync", "publish", "crashed"}

\* Once nobody is writing the cache is within its limit, however the writers and
\* evictors overlapped, unless one was killed or gave up its eviction.
WithinSoftLimit ==
    (~aborted /\ \A p \in Processes : pc[p] \in {"start", "clean", "done", "hit"})
        => Cardinality(Present) <= limit

\* The cache never keeps a command from ending: every process is done, hits or
\* was killed, whatever the others do to the root, the entries or its files.
EveryProcessEnds == \A p \in Processes : <>(pc[p] \in Ended)
=============================================================================
