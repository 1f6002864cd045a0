-------------------------- MODULE CacheStoreProofs --------------------------
(***************************************************************************)
(* What the compile cache guarantees for any number of processes, builds   *)
(* and crashes.  The invariant says what a name may hold and what a writer  *)
(* has at each of its places, what a reader has read so far, and, for the   *)
(* limit, that somebody who has still to evict knows all there is.          *)
(***************************************************************************)
EXTENDS CacheStore, FiniteSetTheorems, SequenceTheorems, TLAPS

Writing == {"temporary", "sync", "publish", "scan", "stat", "evict"}
Places == {"start", "open", "create", "protect", "load", "parts", "hit", "compile",
           "clean", "remove", "done", "crashed"} \cup Writing

\* What may be stored under a name: the build of a key, or the part it names.
Fits(n, body) ==
    \/ body \in Builds /\ n = body.key
    \/ body \in Parts /\ \E k \in Keys : n = PartName(k, body)

Write == {w \in [name : Names, body : Builds \cup Parts] : Fits(w.name, w.body)}

Types ==
    /\ root \in [gen : Nat, state : {"absent", "raw", "private"}]
    /\ entries \in [Names -> File \cup {NoFile}]
    /\ temp \in [Processes -> File \cup {NoFile}]
    /\ pc \in [Processes -> Places]
    /\ dir \in [Processes -> Nat]
    /\ want \in [Runners -> Keys]
    /\ todo \in [Runners -> Seq(Write)]
    /\ listing \in [Processes -> SUBSET (Names \cup Processes)]
    /\ order \in [Runners -> SUBSET (Names \X Names)]
    /\ index \in [Runners -> Bodies \cup {NoFile}]
    /\ got \in [Runners -> Seq(Bodies)]
    /\ limit \in Nat /\ damage \in Nat /\ aborted \in BOOLEAN

\* The names present are ordered by their last use.
Ordered ==
    /\ older \subseteq Present \X Present
    /\ \A m, n \in Present : m # n => (<<m, n>> \in older <=> <<n, m>> \notin older)
    /\ \A n \in Present : <<n, n>> \notin older
    /\ \A l, m, n \in Present : <<l, m>> \in older /\ <<m, n>> \in older => <<l, n>> \in older

\* What carries a name is on disk, and is what the name says unless it was damaged.
EntriesFit ==
    \A n \in Present :
        /\ entries[n].durable
        /\ entries[n].body = Torn \/ Fits(n, entries[n].body)

\* A temporary belongs to a writer and holds the entry it writes.
WritersFit(p) ==
    /\ temp[p] # NoFile => p \in Runners /\ pc[p] \in {"sync", "publish", "crashed"}
    /\ p \in Runners /\ pc[p] \in Writing => todo[p] # <<>>
    /\ temp[p] # NoFile /\ pc[p] # "crashed" => temp[p].body = Head(todo[p]).body
    /\ temp[p] # NoFile /\ pc[p] = "publish" => temp[p].durable

\* A reader has the build it looks for and read its parts in order.
ReadersFit(p) ==
    /\ got[p] # <<>> => pc[p] \in {"parts", "hit", "crashed"}
    /\ pc[p] \in {"parts", "hit"} =>
          /\ index[p] \in Builds /\ index[p].key = want[p]
          /\ Len(got[p]) <= Len(index[p].parts)
          /\ \A i \in 1 .. Len(got[p]) : got[p][i] = index[p].parts[i]
    /\ pc[p] = "hit" => Len(got[p]) = Len(index[p].parts)

\* A root that is gone holds nothing.
RootFits == root.state = "absent" => Present = {} /\ Temporaries = {}

TornEntries == {n \in Present : entries[n].body = Torn}

\* p will bring the cache to its limit: nothing it has not listed is there.
WillEvict(p) ==
    /\ Linked(p)
    /\ \/ pc[p] = "scan"
       \/ pc[p] = "stat" /\ Present \subseteq listing[p] /\ listing[p] \subseteq Names
       \/ pc[p] = "evict" /\ Cardinality(Present \ listing[p]) <= limit

WithinLimit ==
    \/ aborted \/ \E p \in Processes : pc[p] = "crashed"
    \/ Cardinality(Present) <= limit
    \/ \E p \in Runners : WillEvict(p)

CacheInv ==
    /\ Types /\ Ordered /\ EntriesFit /\ RootFits
    /\ \A p \in Processes : WritersFit(p)
    /\ \A p \in Runners : ReadersFit(p)
    /\ PublishedIsComplete /\ WithinLimit

-----------------------------------------------------------------------------
(* Facts about names and what they hold. *)

\* A name is short of a build's key, or a pair: it names one thing.
LEMMA NameKinds ==
    /\ \A b \in Builds : b.key \in Keys /\ b.key \in Names /\ b.parts \in Seq(Parts)
    /\ \A b \in Builds : \A d \in Range(b.parts) :
          d \in Parts /\ PartName(b.key, d) \in Names /\ PartName(b.key, d) \notin Keys
    /\ \A n \in Keys : \A body : Fits(n, body) => body \in Builds /\ body.key = n
    /\ \A k \in Keys : \A d \in Parts : \A body : Fits(PartName(k, d), body) => body = d
<1>1. \A b \in Builds : b.key \in Keys /\ b.key \in Names
  BY DEF Keys, Names
<1>2. \A b \in Builds : \A d \in Range(b.parts) : d \in Parts /\ PartName(b.key, d) \in Names
  BY DEF Parts, Names
<1>3. \A n \in Keys : \A body : Fits(n, body) => body \in Builds /\ body.key = n
  BY CacheAssumption DEF Fits
<1>4. \A k, l, d, e : PartName(k, d) = PartName(l, e) => d = e
  BY DEF PartName
<1>5. ASSUME NEW k \in Keys, NEW d \in Parts, NEW body, Fits(PartName(k, d), body)
      PROVE  body = d
  BY <1>1, <1>4, <1>5, CacheAssumption DEF Fits
<1> QED
  BY <1>1, <1>2, <1>3, <1>5, CacheAssumption

\* Neither damage nor absence is something that is written.
LEMMA BodyKinds ==
    /\ Torn \in Bodies /\ Torn \notin Builds \cup Parts
    /\ NoFile \notin File
    /\ \A body \in Builds \cup Parts : body \in Bodies /\ body # Torn
    /\ \A f \in File : f.body \in Bodies /\ f.durable \in BOOLEAN
    /\ \A f \in File : [f EXCEPT !.durable = TRUE] \in File
                      /\ [f EXCEPT !.durable = TRUE].body = f.body
                      /\ [f EXCEPT !.durable = TRUE].durable
    /\ \A f \in File : [f EXCEPT !.body = Torn] \in File
                      /\ [f EXCEPT !.body = Torn].body = Torn
                      /\ [f EXCEPT !.body = Torn].durable = f.durable
    /\ \A body \in Bodies : [body |-> body, durable |-> FALSE] \in File
BY CacheAssumption DEF Bodies, File

\* What is there is a file, and there are finitely many.
LEMMA PresentFacts ==
    ASSUME Types
    PROVE  /\ IsFiniteSet(Present) /\ Cardinality(Present) \in Nat
           /\ Present \subseteq Names /\ \A n \in Present : entries[n] \in File
<1>1. Present \subseteq Names
  BY DEF Present
<1>2. IsFiniteSet(Present)
  BY <1>1, FS_Subset, CacheAssumption
<1> QED
  BY <1>1, <1>2, FS_CardinalityType DEF Types, Present

\* A build is written as its parts, each under its name, and then its key.
LEMMA WritesType ==
    ASSUME NEW b \in Builds
    PROVE  Writes(b) \in Seq(Write) /\ Writes(b) # <<>>
<1> DEFINE parts == [i \in DOMAIN b.parts |-> [name |-> PartName(b.key, b.parts[i]), body |-> b.parts[i]]]
           whole == [name |-> b.key, body |-> b]
<1>1. b.parts \in Seq(Parts) /\ DOMAIN b.parts = 1 .. Len(b.parts) /\ Len(b.parts) \in Nat
  BY NameKinds, LenProperties
<1>2. ASSUME NEW i \in DOMAIN b.parts PROVE parts[i] \in Write
  <2>1. b.parts[i] \in Range(b.parts)
    BY DEF Range
  <2>2. b.parts[i] \in Parts /\ PartName(b.key, b.parts[i]) \in Names /\ b.key \in Keys
    BY <2>1, NameKinds
  <2> QED
    BY <2>2 DEF Write, Fits
<1>3. parts \in Seq(Write)
  <2>1. parts \in [1 .. Len(b.parts) -> Write]
    BY <1>1, <1>2
  <2> HIDE DEF parts
  <2> QED
    BY <1>1, <2>1, SeqDef
<1>4. whole \in Write
  BY NameKinds DEF Write, Fits
<1>5. <<whole>> \in Seq(Write) /\ Len(<<whole>>) = 1
  BY <1>4
<1>6. parts \o <<whole>> \in Seq(Write) /\ Len(parts \o <<whole>>) = Len(parts) + 1
  BY <1>3, <1>5, ConcatProperties
<1>7. parts \o <<whole>> # <<>>
  BY <1>3, <1>6, LenProperties
<1> QED
  BY <1>6, <1>7 DEF Writes

\* What a writer writes next fits its name, and the rest is still a list.
LEMMA NextWriteType ==
    ASSUME Types, NEW p \in Runners, todo[p] # <<>>
    PROVE  /\ Head(todo[p]) \in Write /\ Tail(todo[p]) \in Seq(Write)
           /\ Head(todo[p]).name \in Names
           /\ Head(todo[p]).body \in Builds \cup Parts
           /\ Fits(Head(todo[p]).name, Head(todo[p]).body)
           /\ Len(todo[p]) \in Nat /\ (Len(todo[p]) > 1 => Tail(todo[p]) # <<>>)
<1>1. todo[p] \in Seq(Write)
  BY DEF Types
<1>2. Head(todo[p]) \in Write /\ Tail(todo[p]) \in Seq(Write) /\ Len(Tail(todo[p])) = Len(todo[p]) - 1
  BY <1>1, HeadTailProperties
<1>3. Len(todo[p]) \in Nat
  BY <1>1, LenProperties
<1>4. ASSUME Len(todo[p]) > 1 PROVE Tail(todo[p]) # <<>>
  <2>1. \A a \in Nat : a > 1 => a - 1 # 0
    OBVIOUS
  <2>3. Len(Tail(todo[p])) # 0
    BY <1>2, <1>3, <1>4, <2>1, Zenon
  <2>2. Len(<<>>) = 0
    OBVIOUS
  <2> QED
    BY <2>2, <2>3
<1> QED
  BY <1>2, <1>3, <1>4 DEF Write

\* The initial states satisfy the invariant.
LEMMA CacheInvInit == Init => CacheInv
<1> SUFFICES ASSUME Init PROVE CacheInv
  OBVIOUS
<1> USE CacheAssumption DEF Init
<1>1. Types
  <2>1. want \in [Runners -> Keys] /\ limit \in Nat
    OBVIOUS
  <2>2. pc \in [Processes -> Places]
    BY DEF Places
  <2>3. todo \in [Runners -> Seq(Write)] /\ got \in [Runners -> Seq(Bodies)]
    BY EmptySeq
  <2> QED
    BY <2>1, <2>2, <2>3 DEF Types
<1>2. Present = {} /\ Temporaries = {}
  BY DEF Present, Temporaries
<1>3. \A p \in Processes : temp[p] = NoFile /\ pc[p] \in {"start", "clean", "done"}
  BY DEF Processes
<1>4. Cardinality(Present) = 0 /\ Cardinality({n \in Present : entries[n].body = Torn}) = 0
  BY <1>2, FS_EmptySet
<1>5. PublishedIsComplete /\ WithinLimit
  BY <1>1, <1>4 DEF PublishedIsComplete, WithinLimit, Types
<1>6. \A p \in Processes : WritersFit(p)
  BY <1>3 DEF WritersFit, Writing
<1>7. \A p \in Runners : ReadersFit(p)
  BY <1>3 DEF ReadersFit, Processes
<1> QED
  BY <1>1, <1>2, <1>5, <1>6, <1>7 DEF CacheInv, Ordered, EntriesFit, RootFits

-----------------------------------------------------------------------------
(* The steps of a process, by what it is doing, and of the outside. *)

Opens(p) == OpenRoot(p) \/ CreateRoot(p) \/ ProtectRoot(p)
Loads(p) == LoadEntry(p) \/ LoadPart(p) \/ Hit(p) \/ Miss(p)
Stores(p) ==
    \/ Compile(p) \/ CreateTemporary(p) \/ SyncTemporary(p) \/ Publish(p) \/ FailWrite(p)
Evicts(p) == Scan(p) \/ AbortEviction(p) \/ Stat(p) \/ Evict(p) \/ EndEviction(p)
Cleans(p) == CleanList(p) \/ CleanOne(p) \/ CleanFails(p) \/ CleanRoot(p)

USE DEF Goto, Leave, Opened, Refused, NextWrite, store, loaded, env

LEMMA Steps ==
    ASSUME Next
    PROVE  \/ \E p \in Runners : Opens(p) \/ Loads(p) \/ Stores(p) \/ Evicts(p)
           \/ \E p \in Cleaners : Cleans(p)
           \/ \E p \in Processes : Crash(p)
           \/ PowerLoss
           \/ \E n \in Names : Damage(n)
BY DEF Next, Step, Opens, Loads, Stores, Evicts, Cleans, Processes

\* What a step does to the entries.
Uses(n) == n \in Present /\ UNCHANGED entries /\ Touch(n)

StoreStep ==
    \/ UNCHANGED <<entries, older>>
    \/ \E n \in Names : Uses(n) \/ Unlink(n) \/ Damage(n)
    \/ \E p \in Runners : Publish(p)

\* The machine takes no entry with it: what carries a name was synced.
LEMMA PowerLossKeeps == CacheInv /\ PowerLoss => UNCHANGED <<entries, older>>
<1> SUFFICES ASSUME CacheInv, PowerLoss PROVE UNCHANGED <<entries, older>>
  OBVIOUS
<1>1. \A n \in Names : entries[n] # NoFile => entries[n].durable
  BY DEF CacheInv, EntriesFit, Present
<1>2. entries' = [n \in Names |-> entries[n]]
  BY <1>1 DEF PowerLoss
<1> QED
  BY <1>2 DEF PowerLoss, CacheInv, Types

LEMMA StoreSteps == CacheInv /\ Next => StoreStep
<1> SUFFICES ASSUME CacheInv, Next PROVE StoreStep
  OBVIOUS
<1> USE DEF StoreStep
<1>1. ASSUME NEW p \in Runners, Opens(p) \/ Loads(p) PROVE StoreStep
  <2>1. want[p] \in Names
    BY DEF CacheInv, Types, Names
  <2>2. CASE LoadEntry(p)
    BY <2>1, <2>2 DEF LoadEntry, Readable, Uses, Present
  <2>3. CASE LoadPart(p)
    <3>1. NextPart(p) \in Names
      <4>1. ReadersFit(p) /\ pc[p] = "parts" /\ Incomplete(p) /\ got[p] \in Seq(Bodies)
        BY <2>3 DEF LoadPart, CacheInv, Types
      <4>2. index[p] \in Builds /\ index[p].key = want[p] /\ PartsOf(index[p]) = index[p].parts
        BY <4>1 DEF ReadersFit, PartsOf
      <4>3. Len(got[p]) + 1 \in DOMAIN index[p].parts
        BY <4>1, <4>2, NameKinds, LenProperties DEF Incomplete
      <4>4. index[p].parts[Len(got[p]) + 1] \in Range(index[p].parts)
        BY <4>3 DEF Range
      <4> QED
        BY <4>2, <4>4, NameKinds DEF NextPart
    <3> QED
      BY <2>3, <3>1 DEF LoadPart, Readable, Uses, Present
  <2> QED
    BY <1>1, <2>2, <2>3 DEF Opens, OpenRoot, CreateRoot, ProtectRoot, Loads, Hit, Miss
<1>2. ASSUME NEW p \in Runners, Stores(p) PROVE StoreStep
  BY <1>2 DEF Stores, Compile, CreateTemporary, SyncTemporary, FailWrite
<1>3. ASSUME NEW p \in Runners, Evicts(p) PROVE StoreStep
  <2>1. CASE Evict(p) /\ Linked(p)
    <3>1. PICK n \in listing[p] : Unlink(n)
      BY <2>1 DEF Evict
    <3>2. CASE n \in Names
      BY <3>1, <3>2
    <3>3. CASE n \notin Names
      <4>1. entries' = entries
        BY <3>1, <3>3 DEF Unlink, CacheInv, Types
      <4>2. older' = older
        BY <3>1, <3>3 DEF Unlink, Forget, CacheInv, Ordered, Present
      <4> QED
        BY <4>1, <4>2
    <3> QED
      BY <3>2, <3>3
  <2> QED
    BY <1>3, <2>1 DEF Evicts, Scan, AbortEviction, Stat, Evict, EndEviction
<1>4. ASSUME NEW p \in Cleaners, Cleans(p) PROVE StoreStep
  BY <1>4 DEF Cleans, CleanList, CleanOne, CleanFails, CleanRoot, Present
<1>5. ASSUME NEW p \in Processes, Crash(p) PROVE StoreStep
  BY <1>5 DEF Crash
<1>6. ASSUME PowerLoss PROVE StoreStep
  BY <1>6, PowerLossKeeps
<1> QED
  BY <1>1, <1>2, <1>3, <1>4, <1>5, <1>6, Steps

\* What a rename publishes: the entry its writer wrote and synced.
LEMMA Published ==
    ASSUME CacheInv, NEW p \in Runners, Publish(p)
    PROVE  \E n \in Names :
              /\ entries' = [entries EXCEPT ![n] = temp[p]] /\ Touch(n)
              /\ temp[p] \in File /\ temp[p] # NoFile /\ temp[p].durable
              /\ temp[p].body # Torn /\ Fits(n, temp[p].body)
              /\ Present' = Present \cup {n}
<1> DEFINE n == Head(todo[p]).name
<1>1. Types /\ WritersFit(p) /\ p \in Processes
  BY DEF CacheInv, Processes
<1>2. pc[p] = "publish" /\ temp[p] # NoFile
  BY DEF Publish
<1>3. todo[p] # <<>> /\ temp[p].body = Head(todo[p]).body /\ temp[p].durable
  BY <1>1, <1>2 DEF WritersFit, Writing
<1>4. temp[p] \in File
  BY <1>1, <1>2 DEF Types
<1>5. n \in Names /\ temp[p].body # Torn /\ Fits(n, temp[p].body)
  BY <1>1, <1>3, NextWriteType, BodyKinds
<1>6. entries' = [entries EXCEPT ![n] = temp[p]] /\ Touch(n)
  BY DEF Publish
<1>7. Present' = Present \cup {n}
  BY <1>1, <1>2, <1>5, <1>6 DEF Present, Types
<1> HIDE DEF n
<1> QED
  BY <1>2, <1>3, <1>4, <1>5, <1>6, <1>7

\* The names that a step leaves there.
LEMMA PresentMoves ==
    ASSUME CacheInv, StoreStep
    PROVE  \/ Present' = Present /\ UNCHANGED <<entries, older>>
           \/ \E n \in Present : Present' = Present /\ UNCHANGED entries /\ Touch(n)
           \/ \E n \in Names : Present' = Present \ {n} /\ Unlink(n)
           \/ \E n \in Present : Present' = Present /\ Damage(n)
           \/ \E p \in Runners, n \in Names : Present' = Present \cup {n} /\ Publish(p) /\ Touch(n)
<1>1. CASE UNCHANGED <<entries, older>>
  BY <1>1 DEF Present
<1>2. ASSUME NEW n \in Names, Uses(n) PROVE Present' = Present /\ n \in Present /\ UNCHANGED entries /\ Touch(n)
  BY <1>2 DEF Uses, Present
<1>3. ASSUME NEW n \in Names, Unlink(n) PROVE Present' = Present \ {n}
  BY <1>3 DEF Unlink, Present, CacheInv, Types
<1>4. ASSUME NEW n \in Names, Damage(n) PROVE Present' = Present /\ n \in Present
  <2>1. n \in Present /\ entries[n] \in File
    BY <1>4 DEF Damage, Present, CacheInv, Types
  <2>2. PICK f \in File : entries' = [entries EXCEPT ![n] = f]
    BY <1>4, <2>1, BodyKinds DEF Damage
  <2> QED
    BY <2>1, <2>2, BodyKinds DEF Present, CacheInv, Types
<1>5. ASSUME NEW p \in Runners, Publish(p)
      PROVE  \E n \in Names : Present' = Present \cup {n} /\ Touch(n)
  BY <1>5, Published
<1> QED
  BY <1>1, <1>2, <1>3, <1>4, <1>5 DEF StoreStep

\* Using an entry makes it the most recent of those present.
LEMMA TouchKeepsOrder ==
    ASSUME Ordered, NEW n, Touch(n), Present' = Present \cup {n}
    PROVE  Ordered'
<1>1. ASSUME NEW a, NEW b
      PROVE  <<a, b>> \in older' <=>
                \/ <<a, b>> \in older /\ a # n /\ b # n
                \/ a \in Present /\ a # n /\ b = n
  BY DEF Touch, Forget
<1>2. older' \subseteq Present' \X Present'
  BY DEF Touch, Forget, Ordered
<1> QED
  BY <1>1, <1>2 DEF Ordered

LEMMA OrderedKept == CacheInv /\ StoreStep => Ordered'
<1> SUFFICES ASSUME CacheInv, StoreStep PROVE Ordered'
  OBVIOUS
<1>1. Ordered
  BY DEF CacheInv
<1>2. ASSUME Present' = Present, UNCHANGED older PROVE Ordered'
  BY <1>1, <1>2 DEF Ordered
<1>3. ASSUME NEW n \in Names, Present' = Present \ {n}, Unlink(n) PROVE Ordered'
  <2>1. ASSUME NEW a, NEW b
        PROVE  <<a, b>> \in older' <=> <<a, b>> \in older /\ a # n /\ b # n
    BY <1>3 DEF Unlink, Forget
  <2>2. older' \subseteq Present' \X Present'
    BY <1>1, <1>3 DEF Unlink, Forget, Ordered
  <2> QED
    BY <1>1, <1>3, <2>1, <2>2 DEF Ordered
<1>4. ASSUME NEW n \in Present, Present' = Present, Touch(n) PROVE Ordered'
  <2>1. Present' = Present \cup {n}
    BY <1>4
  <2> QED
    BY <1>1, <1>4, <2>1, TouchKeepsOrder
<1> QED
  BY <1>1, <1>2, <1>3, <1>4, PresentMoves, TouchKeepsOrder DEF Damage

\* Only synced bytes are published, and they fit their name.
LEMMA EntriesKept == CacheInv /\ StoreStep => EntriesFit'
<1> SUFFICES ASSUME CacheInv, StoreStep PROVE EntriesFit'
  OBVIOUS
<1>1. Types /\ EntriesFit
  BY DEF CacheInv
<1>2. ASSUME UNCHANGED entries PROVE EntriesFit'
  BY <1>1, <1>2 DEF EntriesFit, Present, Fits
<1>3. ASSUME NEW n \in Names, Present' = Present \ {n}, Unlink(n) PROVE EntriesFit'
  BY <1>1, <1>3 DEF EntriesFit, Unlink, Fits, Types
<1>4. ASSUME NEW n \in Present, Present' = Present, Damage(n) PROVE EntriesFit'
  <2>1. n \in Names /\ entries[n] \in File
    BY <1>1, PresentFacts
  <2>2. PICK f \in File : /\ entries' = [entries EXCEPT ![n] = f]
                          /\ f.body = Torn /\ f.durable = entries[n].durable
    BY <1>4, <2>1, BodyKinds DEF Damage
  <2>3. \A m \in Present : entries'[m] = IF m = n THEN f ELSE entries[m]
    BY <1>1, <2>1, <2>2 DEF Types, Present
  <2> QED
    BY <1>1, <1>4, <2>2, <2>3 DEF EntriesFit
<1>5. ASSUME NEW p \in Runners, Publish(p) PROVE EntriesFit'
  <2>1. PICK n \in Names :
            /\ entries' = [entries EXCEPT ![n] = temp[p]]
            /\ temp[p].durable /\ Fits(n, temp[p].body) /\ Present' = Present \cup {n}
    BY <1>5, Published
  <2>2. \A m \in Present' : entries'[m] = IF m = n THEN temp[p] ELSE entries[m]
    BY <1>1, <2>1 DEF Types, Present
  <2> QED
    BY <1>1, <2>1, <2>2 DEF EntriesFit
<1> QED
  BY <1>2, <1>3, <1>4, <1>5, PresentMoves

\* Torn entries are those that were damaged: no step but Damage makes one.
LEMMA TornKept == CacheInv /\ Next => PublishedIsComplete'
<1> SUFFICES ASSUME CacheInv, Next PROVE PublishedIsComplete'
  OBVIOUS
<1>1. Types /\ StoreStep
  BY StoreSteps DEF CacheInv
<1>2. /\ IsFiniteSet(TornEntries) /\ Cardinality(TornEntries) \in Nat
      /\ Cardinality(TornEntries) <= damage /\ damage \in Nat
  BY <1>1, PresentFacts, FS_Subset, FS_CardinalityType
     DEF TornEntries, CacheInv, PublishedIsComplete, Types
<1>3. SUFFICES Cardinality(TornEntries') <= damage'
  BY DEF PublishedIsComplete, TornEntries
<1>4. ASSUME TornEntries' \subseteq TornEntries, damage' = damage
      PROVE  Cardinality(TornEntries') <= damage'
  BY <1>2, <1>4, FS_Subset, FS_CardinalityType
<1>5. ASSUME NEW n \in Present, Present' = Present, Damage(n)
      PROVE  Cardinality(TornEntries') <= damage'
  <2>1. n \in Names /\ entries[n] \in File
    BY <1>1, <1>5, PresentFacts
  <2>2. PICK f \in File : entries' = [entries EXCEPT ![n] = f] /\ f.body = Torn
    BY <1>5, <2>1, BodyKinds DEF Damage
  <2>3. TornEntries' = TornEntries \cup {n}
    BY <1>1, <1>5, <2>1, <2>2 DEF TornEntries, Present, Types
  <2>4. Cardinality(TornEntries') <= Cardinality(TornEntries) + 1
    <3>1. Cardinality(TornEntries \cup {n}) =
              IF n \in TornEntries THEN Cardinality(TornEntries) ELSE Cardinality(TornEntries) + 1
      BY <1>2, FS_AddElement
    <3> QED
      BY <1>2, <2>3, <3>1
  <2>5. damage' = damage + 1 /\ Cardinality(TornEntries') \in Nat
    BY <1>2, <1>5, <2>3, FS_AddElement, FS_CardinalityType DEF Damage
  <2> QED
    BY <1>2, <2>4, <2>5
<1>6. ASSUME NEW p \in Runners, Publish(p)
      PROVE  TornEntries' \subseteq TornEntries /\ damage' = damage
  <2>1. PICK n \in Names :
            /\ entries' = [entries EXCEPT ![n] = temp[p]]
            /\ temp[p].body # Torn /\ Present' = Present \cup {n}
    BY <1>6, Published
  <2> QED
    BY <1>1, <1>6, <2>1 DEF TornEntries, Present, Types, Publish
<1>7. damage' = damage \/ \E n \in Names : Damage(n)
  BY DEF Next, Step, OpenRoot, CreateRoot, ProtectRoot, LoadEntry, LoadPart, Hit, Miss,
         Compile, CreateTemporary, SyncTemporary, Publish, FailWrite, Scan, AbortEviction,
         Stat, Evict, EndEviction, CleanList, CleanOne, CleanFails, CleanRoot, Crash,
         PowerLoss
<1>8. CASE \E n \in Names : Damage(n)
  <2>1. PICK n \in Names : Damage(n)
    BY <1>8
  <2>2. n \in Present /\ Present' = Present
    <3>1. n \in Present /\ entries[n] \in File
      BY <1>1, <2>1 DEF Damage, Present, Types
    <3>2. PICK f \in File : entries' = [entries EXCEPT ![n] = f]
      BY <2>1, <3>1, BodyKinds DEF Damage
    <3> QED
      BY <1>1, <3>1, <3>2, BodyKinds DEF Present, Types
  <2> QED
    BY <1>5, <2>1, <2>2
<1>9. CASE damage' = damage
  <2>1. CASE UNCHANGED entries
    BY <1>4, <1>9, <2>1 DEF TornEntries, Present
  <2>2. ASSUME NEW n \in Names, Present' = Present \ {n}, Unlink(n)
        PROVE  TornEntries' \subseteq TornEntries
    BY <1>1, <2>2 DEF TornEntries, Unlink, Types, Present
  <2>3. ASSUME NEW n \in Names, Damage(n) PROVE FALSE
    BY <1>1, <1>9, <2>3 DEF Damage, Types
  <2> QED
    BY <1>1, <1>4, <1>6, <1>9, <2>1, <2>2, <2>3, PresentMoves, PresentFacts
<1> QED
  BY <1>7, <1>8, <1>9

-----------------------------------------------------------------------------
(* The types are kept. *)

\* A process that leaves, and one that goes on to its next entry.
LEMMA LeaveTypes ==
    ASSUME Types, NEW p \in Processes, NEW where \in Places, Leave(p, where)
    PROVE  /\ pc' \in [Processes -> Places] /\ dir' \in [Processes -> Nat]
           /\ todo' \in [Runners -> Seq(Write)]
           /\ listing' \in [Processes -> SUBSET (Names \cup Processes)]
           /\ order' \in [Runners -> SUBSET (Names \X Names)]
<1>1. <<>> \in Seq(Write)
  OBVIOUS
<1> QED
  BY <1>1 DEF Types

LEMMA NextWriteTypes ==
    ASSUME Types, NEW p \in Runners, NextWrite(p)
    PROVE  /\ pc' \in [Processes -> Places] /\ dir' \in [Processes -> Nat]
           /\ todo' \in [Runners -> Seq(Write)]
           /\ listing' \in [Processes -> SUBSET (Names \cup Processes)]
           /\ order' \in [Runners -> SUBSET (Names \X Names)]
<1>1. p \in Processes /\ {"done", "temporary"} \subseteq Places
  BY DEF Processes, Places, Writing
<1>2. CASE Len(todo[p]) = 1 /\ Leave(p, "done")
  BY <1>1, <1>2, LeaveTypes
<1>3. CASE /\ Len(todo[p]) > 1
           /\ todo' = [todo EXCEPT ![p] = Tail(@)]
           /\ listing' = [listing EXCEPT ![p] = {}]
           /\ pc' = [pc EXCEPT ![p] = "temporary"]
           /\ UNCHANGED <<dir, order>>
  <2>1. Len(todo[p]) > 1
    BY <1>3
  <2>2. todo[p] # <<>>
    BY <2>1 DEF Types
  <2>3. Tail(todo[p]) \in Seq(Write)
    BY <2>2, NextWriteType
  <2> QED
    BY <1>1, <1>3, <2>3 DEF Types
<1> QED
  BY <1>2, <1>3

LEMMA OpensTypes == ASSUME CacheInv, NEW p \in Runners, Opens(p) PROVE Types'
<1> USE DEF CacheInv
<1>1. p \in Processes /\ {"load", "temporary", "create", "protect", "compile", "done"} \subseteq Places
  BY DEF Processes, Places, Writing
<1>2. root.gen \in Nat
  BY DEF Types
<1>3. CASE OpenRoot(p)
  <2>1. ASSUME Refused(p) PROVE Types'
    BY <1>1, <1>3, <2>1, LeaveTypes DEF OpenRoot, Types
  <2>2. ASSUME Opened(p) PROVE Types'
    BY <1>1, <1>2, <1>3, <2>2 DEF OpenRoot, Types
  <2>3. ASSUME pc' = [pc EXCEPT ![p] = "create"], UNCHANGED <<dir, todo, listing, order>>
        PROVE  Types'
    BY <1>1, <1>3, <2>3 DEF OpenRoot, Types
  <2> QED
    BY <1>3, <2>1, <2>2, <2>3 DEF OpenRoot
<1>4. CASE CreateRoot(p)
  <2>1. [gen |-> root.gen + 1, state |-> "raw"] \in [gen : Nat, state : {"absent", "raw", "private"}]
    BY <1>2
  <2> QED
    BY <1>1, <1>4, <2>1 DEF CreateRoot, Types
<1>5. CASE ProtectRoot(p)
  <2>1. [root EXCEPT !.state = "private"] \in [gen : Nat, state : {"absent", "raw", "private"}]
    BY DEF Types
  <2>2. ASSUME Refused(p), UNCHANGED root PROVE Types'
    BY <1>1, <1>5, <2>2, LeaveTypes DEF ProtectRoot, Types
  <2>3. ASSUME Opened(p), root' = [root EXCEPT !.state = "private"] PROVE Types'
    BY <1>1, <1>2, <1>5, <2>1, <2>3 DEF ProtectRoot, Types
  <2> QED
    BY <1>5, <2>2, <2>3 DEF ProtectRoot
<1> QED
  BY <1>3, <1>4, <1>5 DEF Opens

\* The next part of the bundle a reader has: it is one of its parts.
LEMMA NextPartFits ==
    ASSUME CacheInv, NEW p \in Runners, pc[p] = "parts", Incomplete(p)
    PROVE  /\ index[p] \in Builds /\ index[p].key = want[p] /\ want[p] \in Keys
           /\ PartsOf(index[p]) = index[p].parts
           /\ index[p].parts[Len(got[p]) + 1] \in Parts
           /\ NextPart(p) = PartName(want[p], index[p].parts[Len(got[p]) + 1])
           /\ NextPart(p) \in Names
           /\ Len(got[p]) \in Nat /\ Len(index[p].parts) \in Nat
           /\ Len(got[p]) < Len(index[p].parts)
<1>1. ReadersFit(p) /\ got[p] \in Seq(Bodies) /\ want[p] \in Keys
  BY DEF CacheInv, Types
<1>2. index[p] \in Builds /\ index[p].key = want[p] /\ PartsOf(index[p]) = index[p].parts
  BY <1>1 DEF ReadersFit, PartsOf
<1>3. Len(got[p]) + 1 \in DOMAIN index[p].parts /\ Len(got[p]) \in Nat /\ Len(index[p].parts) \in Nat
  BY <1>1, <1>2, NameKinds, LenProperties DEF Incomplete
<1>4. index[p].parts[Len(got[p]) + 1] \in Range(index[p].parts)
  BY <1>3 DEF Range
<1> QED
  BY <1>1, <1>2, <1>3, <1>4, NameKinds DEF NextPart, Incomplete

\* What is read is a file that is not damaged, and fits its name.
LEMMA ReadableFits ==
    ASSUME CacheInv, NEW p \in Processes, NEW n \in Names, Readable(p, n)
    PROVE  /\ entries[n] \in File /\ n \in Present
           /\ entries[n].body \in Bodies /\ Fits(n, entries[n].body)
<1>1. n \in Present /\ entries[n].body # Torn
  BY DEF Readable, Present
<1> QED
  BY <1>1, PresentFacts, BodyKinds DEF CacheInv, EntriesFit

LEMMA LoadsTypes == ASSUME CacheInv, NEW p \in Runners, Loads(p) PROVE Types'
<1>1. Types /\ p \in Processes /\ {"parts", "hit", "compile"} \subseteq Places
  BY DEF Processes, Places, CacheInv
<1>2. CASE LoadEntry(p)
  <2>1. want[p] \in Names
    BY <1>1 DEF Types, Names
  <2>2. entries[want[p]].body \in Bodies
    BY <1>1, <1>2, <2>1, ReadableFits DEF LoadEntry
  <2> QED
    BY <1>1, <1>2, <2>2 DEF LoadEntry, Types
<1>3. CASE LoadPart(p)
  <2>1. NextPart(p) \in Names
    BY <1>3, NextPartFits DEF LoadPart
  <2>2. entries[NextPart(p)].body \in Bodies
    BY <1>1, <1>3, <2>1, ReadableFits DEF LoadPart
  <2>3. Append(got[p], entries[NextPart(p)].body) \in Seq(Bodies)
    BY <1>1, <2>2, AppendProperties DEF Types
  <2> QED
    BY <1>1, <1>3, <2>3 DEF LoadPart, Types
<1>4. CASE Hit(p)
  BY <1>1, <1>4 DEF Hit, Types
<1>5. CASE Miss(p)
  <2>1. <<>> \in Seq(Bodies)
    OBVIOUS
  <2> QED
    BY <1>1, <1>5, <2>1 DEF Miss, Types
<1> QED
  BY <1>2, <1>3, <1>4, <1>5 DEF Loads

LEMMA StoresTypes == ASSUME CacheInv, NEW p \in Runners, Stores(p) PROVE Types'
<1>1. Types /\ WritersFit(p) /\ p \in Processes
  BY DEF CacheInv, Processes
<1>2. {"open", "sync", "publish", "scan", "done"} \subseteq Places
  BY DEF Places, Writing
<1>3. CASE Compile(p)
  BY <1>1, <1>2, <1>3, WritesType DEF Compile, Types
<1>4. CASE CreateTemporary(p)
  <2>1. todo[p] # <<>>
    BY <1>1, <1>4 DEF CreateTemporary, WritersFit, Writing
  <2>2. [body |-> Head(todo[p]).body, durable |-> FALSE] \in File
    BY <1>1, <2>1, NextWriteType, BodyKinds
  <2> QED
    BY <1>1, <1>2, <1>4, <2>2 DEF CreateTemporary, Types
<1>5. CASE SyncTemporary(p)
  <2>1. temp[p] \in File => [temp[p] EXCEPT !.durable = TRUE] \in File
    BY BodyKinds
  <2>2. temp' \in [Processes -> File \cup {NoFile}]
    BY <1>1, <1>5, <2>1 DEF SyncTemporary, Types
  <2> QED
    BY <1>1, <1>2, <1>5, <2>2 DEF SyncTemporary, Types
<1>6. CASE Publish(p)
  <2>1. entries' \in [Names -> File \cup {NoFile}]
    BY <1>1, <1>6, Published DEF Types
  <2> QED
    BY <1>1, <1>2, <1>6, <2>1 DEF Publish, Types
<1>7. CASE FailWrite(p)
  BY <1>1, <1>2, <1>7, LeaveTypes DEF FailWrite, Types
<1> QED
  BY <1>3, <1>4, <1>5, <1>6, <1>7 DEF Stores

LEMMA EvictsTypes == ASSUME CacheInv, NEW p \in Runners, Evicts(p) PROVE Types'
<1>1. Types /\ p \in Processes /\ {"stat", "evict"} \subseteq Places
  BY DEF CacheInv, Processes, Places, Writing
<1>2. CASE Scan(p)
  BY <1>1, <1>2, PresentFacts DEF Scan, Types
<1>3. CASE AbortEviction(p)
  BY <1>1, <1>3, NextWriteTypes DEF AbortEviction, Types
<1>4. CASE Stat(p)
  <2>1. older \in SUBSET (Names \X Names)
    BY <1>1, PresentFacts DEF CacheInv, Ordered
  <2>2. Excess(listing[p]) \subseteq listing[p]
    BY DEF Excess
  <2> QED
    BY <1>1, <1>4, <2>1, <2>2 DEF Stat, Types
<1>5. CASE Evict(p)
  <2>1. PICK n \in listing[p] :
            /\ Unlink(n) \/ UNCHANGED entries
            /\ listing' = [listing EXCEPT ![p] = listing[p] \ {n}]
    BY <1>5 DEF Evict
  <2>2. entries' \in [Names -> File \cup {NoFile}]
    BY <1>1, <2>1 DEF Unlink, Types
  <2>3. listing' \in [Processes -> SUBSET (Names \cup Processes)]
    BY <1>1, <2>1 DEF Types
  <2> QED
    BY <1>1, <1>5, <2>2, <2>3 DEF Evict, Types
<1>6. CASE EndEviction(p)
  BY <1>1, <1>6, NextWriteTypes DEF EndEviction, Types
<1> QED
  BY <1>2, <1>3, <1>4, <1>5, <1>6 DEF Evicts

LEMMA CleansTypes == ASSUME CacheInv, NEW p \in Cleaners, Cleans(p) PROVE Types'
<1>1. Types /\ p \in Processes /\ {"remove", "done"} \subseteq Places
  BY DEF CacheInv, Processes, Places
<1>2. CASE CleanList(p)
  <2>1. ASSUME Leave(p, "done") PROVE Types'
    BY <1>1, <1>2, <2>1, LeaveTypes DEF CleanList, Types
  <2>2. Present \cup Temporaries \subseteq Names \cup Processes
    BY <1>1, PresentFacts DEF Temporaries
  <2>3. CASE root.state = "private"
    <3>1. pc' \in [Processes -> Places] /\ dir' \in [Processes -> Nat]
      BY <1>1, <1>2, <2>3 DEF CleanList, Types
    <3>2. listing' \in [Processes -> SUBSET (Names \cup Processes)]
      <4>1. PICK S \in SUBSET (Names \cup Processes) : listing' = [listing EXCEPT ![p] = S]
        BY <1>2, <2>2, <2>3 DEF CleanList
      <4> QED
        BY <1>1, <4>1 DEF Types
    <3> QED
      BY <1>1, <1>2, <2>3, <3>1, <3>2 DEF CleanList, Types
  <2> QED
    BY <1>2, <2>1, <2>3 DEF CleanList
<1>3. CASE CleanOne(p)
  <2>1. PICK n \in listing[p] :
            /\ \/ Unlink(n) /\ UNCHANGED temp
               \/ temp' = [temp EXCEPT ![n] = NoFile] /\ UNCHANGED entries
            /\ listing' = [listing EXCEPT ![p] = listing[p] \ {n}]
    BY <1>3 DEF CleanOne
  <2>2. entries' \in [Names -> File \cup {NoFile}] /\ temp' \in [Processes -> File \cup {NoFile}]
    BY <1>1, <2>1 DEF Unlink, Types
  <2>3. listing' \in [Processes -> SUBSET (Names \cup Processes)]
    BY <1>1, <2>1 DEF Types
  <2> QED
    BY <1>1, <1>3, <2>2, <2>3 DEF CleanOne, Types
<1>4. CASE CleanFails(p)
  BY <1>1, <1>4, LeaveTypes DEF CleanFails, Types
<1>5. CASE CleanRoot(p)
  <2>1. root' \in [gen : Nat, state : {"absent", "raw", "private"}]
    BY <1>1, <1>5 DEF CleanRoot, Types
  <2> QED
    BY <1>1, <1>5, <2>1, LeaveTypes DEF CleanRoot, Types
<1> QED
  BY <1>2, <1>3, <1>4, <1>5 DEF Cleans

LEMMA OutsideTypes ==
    ASSUME CacheInv, PowerLoss \/ (\E p \in Processes : Crash(p)) \/ \E n \in Names : Damage(n)
    PROVE  Types'
<1>1. Types /\ "crashed" \in Places /\ <<>> \in Seq(Write)
  BY DEF CacheInv, Places
<1>2. CASE PowerLoss
  <2>1. pc' \in [Processes -> Places] /\ dir' \in [Processes -> Nat]
    BY <1>1, <1>2 DEF PowerLoss, Types
  <2>2. todo' \in [Runners -> Seq(Write)]
    BY <1>1, <1>2 DEF PowerLoss, Types
  <2>3. /\ listing' \in [Processes -> SUBSET (Names \cup Processes)]
        /\ order' \in [Runners -> SUBSET (Names \X Names)]
    BY <1>1, <1>2 DEF PowerLoss, Types
  <2>4. entries' = entries
    BY <1>2, PowerLossKeeps
  <2> QED
    BY <1>1, <1>2, <2>1, <2>2, <2>3, <2>4 DEF PowerLoss, Types
<1>3. ASSUME NEW p \in Processes, Crash(p) PROVE Types'
  BY <1>1, <1>3, LeaveTypes DEF Crash, Types
<1>4. ASSUME NEW n \in Names, Damage(n) PROVE Types'
  <2>1. entries[n] \in File
    BY <1>1, <1>4 DEF Damage, Types
  <2>2. PICK f \in File : entries' = [entries EXCEPT ![n] = f]
    BY <1>4, <2>1, BodyKinds DEF Damage
  <2>3. entries' \in [Names -> File \cup {NoFile}]
    BY <1>1, <2>2 DEF Types
  <2>4. damage' \in Nat
    BY <1>1, <1>4 DEF Damage, Types
  <2> QED
    BY <1>1, <1>4, <2>3, <2>4 DEF Damage, Types
<1> QED
  BY <1>2, <1>3, <1>4

LEMMA TypesKept == CacheInv /\ Next => Types'
BY Steps, OpensTypes, LoadsTypes, StoresTypes, EvictsTypes, CleansTypes, OutsideTypes

-----------------------------------------------------------------------------
(* Roots, writers and readers. *)

\* Only a cleaner makes a root go, and only an empty one.
LEMMA RootKept == CacheInv /\ Next => RootFits'
<1> SUFFICES ASSUME CacheInv, Next PROVE RootFits'
  OBVIOUS
<1>1. Types /\ RootFits /\ StoreStep
  BY StoreSteps DEF CacheInv
<1>2. ASSUME Present' \subseteq Present, Temporaries' \subseteq Temporaries,
             root' = root \/ root'.state # "absent"
      PROVE  RootFits'
  BY <1>1, <1>2 DEF RootFits
<1>3. ASSUME root'.state # "absent" PROVE RootFits'
  BY <1>3 DEF RootFits
<1>4. ASSUME NEW p \in Runners, Opens(p) PROVE RootFits'
  <2>1. Present' = Present /\ Temporaries' = Temporaries
    BY <1>4 DEF Opens, OpenRoot, CreateRoot, ProtectRoot, Present, Temporaries
  <2>2. root' = root \/ root'.state # "absent"
    BY <1>1, <1>4 DEF Opens, OpenRoot, CreateRoot, ProtectRoot, Types
  <2> QED
    BY <1>2, <2>1, <2>2
<1>5. ASSUME NEW p \in Runners, Loads(p) PROVE RootFits'
  <2>1. UNCHANGED <<root, entries, temp>>
    BY <1>5 DEF Loads, LoadEntry, LoadPart, Hit, Miss
  <2> QED
    BY <1>2, <2>1 DEF Present, Temporaries
<1>6. ASSUME NEW p \in Runners, Stores(p) PROVE RootFits'
  <2>1. CASE CreateTemporary(p) \/ Publish(p)
    BY <1>1, <1>3, <2>1 DEF CreateTemporary, Publish, Linked
  <2>2. CASE Compile(p) \/ SyncTemporary(p) \/ FailWrite(p)
    <3>1. UNCHANGED <<root, entries>>
      BY <2>2 DEF Compile, SyncTemporary, FailWrite
    <3>2. Temporaries' \subseteq Temporaries
      BY <1>1, <2>2 DEF Compile, SyncTemporary, FailWrite, Temporaries, Types
    <3> QED
      BY <1>2, <3>1, <3>2 DEF Present
  <2> QED
    BY <1>6, <2>1, <2>2 DEF Stores
<1>7. ASSUME NEW p \in Runners, Evicts(p) PROVE RootFits'
  <2>1. UNCHANGED <<root, temp>>
    BY <1>7 DEF Evicts, Scan, AbortEviction, Stat, Evict, EndEviction
  <2>2. Present' \subseteq Present
    BY <1>1, <1>7 DEF Evicts, Scan, AbortEviction, Stat, Evict, EndEviction, Unlink, Present, Types
  <2> QED
    BY <1>2, <2>1, <2>2 DEF Temporaries
<1>8. ASSUME NEW p \in Cleaners, Cleans(p) PROVE RootFits'
  <2>1. CASE CleanRoot(p)
    BY <1>1, <2>1 DEF CleanRoot, RootFits, Present, Temporaries
  <2>2. CASE CleanList(p) \/ CleanFails(p)
    BY <1>2, <2>2 DEF CleanList, CleanFails, Present, Temporaries
  <2>3. CASE CleanOne(p)
    BY <1>1, <1>2, <2>3 DEF CleanOne, Unlink, Present, Temporaries, Types
  <2> QED
    BY <1>8, <2>1, <2>2, <2>3 DEF Cleans
<1>9. ASSUME PowerLoss \/ (\E p \in Processes : Crash(p)) \/ \E n \in Names : Damage(n)
      PROVE  RootFits'
  <2>1. UNCHANGED <<root, temp>>
    BY <1>9 DEF PowerLoss, Crash, Damage
  <2>2. Present' \subseteq Present
    BY <1>1, <1>9, PowerLossKeeps, BodyKinds DEF Crash, Damage, Present, Types
  <2> QED
    BY <1>2, <2>1, <2>2 DEF Temporaries
<1> QED
  BY <1>4, <1>5, <1>6, <1>7, <1>8, <1>9, Steps

\* A process whose own state a step leaves alone, but for losing its temporary.
LEMMA WriterFrame ==
    ASSUME NEW q \in Processes, WritersFit(q),
           pc'[q] = pc[q], q \in Runners => todo'[q] = todo[q],
           temp'[q] \in {temp[q], NoFile}
    PROVE  WritersFit(q)'
BY DEF WritersFit

LEMMA WritersKept == CacheInv /\ Next => \A q \in Processes : WritersFit(q)'
<1> SUFFICES ASSUME CacheInv, Next, NEW q \in Processes PROVE WritersFit(q)'
  OBVIOUS
<1>1. Types /\ WritersFit(q) /\ Runners \subseteq Processes /\ Cleaners \subseteq Processes
  BY DEF CacheInv, Processes
<1>2. ASSUME NEW p \in Runners, Opens(p) \/ Loads(p) PROVE WritersFit(q)'
  <2>1. UNCHANGED temp
    BY <1>2 DEF Opens, OpenRoot, CreateRoot, ProtectRoot, Loads, LoadEntry, LoadPart, Hit, Miss
  <2>2. CASE q # p
    <3>1. pc'[q] = pc[q] /\ (q \in Runners => todo'[q] = todo[q])
      BY <1>1, <1>2, <2>2
         DEF Opens, OpenRoot, CreateRoot, ProtectRoot, Loads, LoadEntry, LoadPart, Hit, Miss, Types
    <3> QED
      BY <1>1, <2>1, <3>1, WriterFrame
  <2>3. CASE q = p
    <3>1. temp'[p] = NoFile
      BY <1>1, <1>2, <2>1, <2>3
         DEF Opens, OpenRoot, CreateRoot, ProtectRoot, Loads, LoadEntry, LoadPart, Hit, Miss, WritersFit
    <3>2. pc'[p] \in Writing => todo'[p] # <<>>
      BY <1>1, <1>2, <2>3
         DEF Opens, OpenRoot, CreateRoot, ProtectRoot, Loads, LoadEntry, LoadPart, Hit, Miss,
             WritersFit, Types, Writing
    <3> QED
      BY <2>3, <3>1, <3>2 DEF WritersFit
  <2> QED
    BY <2>2, <2>3
<1>3. ASSUME NEW p \in Runners, Stores(p) PROVE WritersFit(q)'
  <2>1. CASE q # p
    <3>1. pc'[q] = pc[q] /\ (q \in Runners => todo'[q] = todo[q]) /\ temp'[q] = temp[q]
      BY <1>1, <1>3, <2>1
         DEF Stores, Compile, CreateTemporary, SyncTemporary, Publish, FailWrite, Types
    <3> QED
      BY <1>1, <3>1, WriterFrame
  <2>2. CASE q = p
    <3>1. CASE Compile(p)
      BY <1>1, <2>2, <3>1 DEF Compile, WritersFit, Types, Writing
    <3>2. CASE CreateTemporary(p)
      BY <1>1, <2>2, <3>2 DEF CreateTemporary, WritersFit, Types, Writing
    <3>3. CASE SyncTemporary(p)
      <4>1. temp[p] # NoFile => /\ temp[p] \in File /\ temp'[p].durable
                               /\ temp'[p].body = temp[p].body
        BY <1>1, <3>3, BodyKinds DEF SyncTemporary, Types
      <4>2. temp[p] = NoFile => temp'[p] = NoFile
        BY <1>1, <3>3 DEF SyncTemporary, Types
      <4>3. pc[p] = "sync" /\ pc'[p] = "publish" /\ todo' = todo
        BY <1>1, <3>3 DEF SyncTemporary, Types
      <4> QED
        BY <1>1, <2>2, <4>1, <4>2, <4>3 DEF WritersFit, Writing
    <3>4. CASE Publish(p)
      BY <1>1, <2>2, <3>4 DEF Publish, WritersFit, Types, Writing
    <3>5. CASE FailWrite(p)
      BY <1>1, <2>2, <3>5 DEF FailWrite, WritersFit, Types, Writing
    <3> QED
      BY <1>3, <3>1, <3>2, <3>3, <3>4, <3>5 DEF Stores
  <2> QED
    BY <2>1, <2>2
<1>4. ASSUME NEW p \in Runners, Evicts(p) PROVE WritersFit(q)'
  <2>1. UNCHANGED temp
    BY <1>4 DEF Evicts, Scan, AbortEviction, Stat, Evict, EndEviction
  <2>2. CASE q # p
    <3>1. pc'[q] = pc[q] /\ (q \in Runners => todo'[q] = todo[q])
      BY <1>1, <1>4, <2>2 DEF Evicts, Scan, AbortEviction, Stat, Evict, EndEviction, Types
    <3> QED
      BY <1>1, <2>1, <3>1, WriterFrame
  <2>3. CASE q = p
    <3>1. temp'[p] = NoFile /\ todo[p] # <<>>
      BY <1>1, <1>4, <2>1, <2>3
         DEF Evicts, Scan, AbortEviction, Stat, Evict, EndEviction, WritersFit, Writing
    <3>2. pc'[p] \in Writing => todo'[p] # <<>>
      BY <1>1, <1>4, <3>1, NextWriteType
         DEF Evicts, Scan, AbortEviction, Stat, Evict, EndEviction, Types, Writing
    <3> QED
      BY <2>3, <3>1, <3>2 DEF WritersFit
  <2> QED
    BY <2>2, <2>3
<1>5. ASSUME NEW p \in Cleaners, Cleans(p) PROVE WritersFit(q)'
  <2>1. temp'[q] \in {temp[q], NoFile}
    BY <1>1, <1>5 DEF Cleans, CleanList, CleanOne, CleanFails, CleanRoot, Types
  <2>2. q \in Runners => todo'[q] = todo[q]
    BY <1>1, <1>5, CacheAssumption
       DEF Cleans, CleanList, CleanOne, CleanFails, CleanRoot, Types
  <2>3. CASE q # p
    <3>1. pc'[q] = pc[q]
      BY <1>1, <1>5, <2>3 DEF Cleans, CleanList, CleanOne, CleanFails, CleanRoot, Types
    <3> QED
      BY <1>1, <2>1, <2>2, <3>1, WriterFrame
  <2>4. CASE q = p
    <3>1. q \notin Runners
      BY <2>4, CacheAssumption
    <3>2. temp[q] = NoFile
      BY <1>1, <3>1 DEF WritersFit
    <3> QED
      BY <2>1, <3>1, <3>2 DEF WritersFit
  <2> QED
    BY <2>3, <2>4
<1>6. ASSUME NEW p \in Processes, Crash(p) PROVE WritersFit(q)'
  BY <1>1, <1>6 DEF Crash, WritersFit, Writing, Types
<1>7. ASSUME PowerLoss PROVE WritersFit(q)'
  <2>1. temp' = temp
    BY <1>7 DEF PowerLoss
  <2>2. CASE pc[q] \in Ended \cup {"start", "clean"}
    <3>1. pc'[q] = pc[q] /\ (q \in Runners => todo'[q] = todo[q])
      BY <1>1, <1>7, <2>2 DEF PowerLoss, Types
    <3> QED
      BY <1>1, <2>1, <3>1, WriterFrame
  <2>3. CASE pc[q] \notin Ended \cup {"start", "clean"}
    <3>1. pc'[q] = "crashed"
      BY <1>1, <1>7, <2>3 DEF PowerLoss, Types
    <3> QED
      BY <1>1, <2>1, <3>1 DEF WritersFit, Writing
  <2> QED
    BY <2>2, <2>3
<1>8. ASSUME NEW n \in Names, Damage(n) PROVE WritersFit(q)'
  BY <1>1, <1>8, WriterFrame DEF Damage
<1> QED
  BY <1>2, <1>3, <1>4, <1>5, <1>6, <1>7, <1>8, Steps

\* A reader that a step leaves alone, or that stops reading.
LEMMA ReaderFrame ==
    ASSUME NEW q \in Runners, ReadersFit(q), got'[q] = got[q], index'[q] = index[q],
           want'[q] = want[q],
           \/ pc'[q] = pc[q]
           \/ pc'[q] \notin {"parts", "hit"} /\ (got[q] = <<>> \/ pc'[q] = "crashed")
    PROVE  ReadersFit(q)'
BY DEF ReadersFit

LEMMA ReadersKept == CacheInv /\ Next => \A q \in Runners : ReadersFit(q)'
<1> SUFFICES ASSUME CacheInv, Next, NEW q \in Runners PROVE ReadersFit(q)'
  OBVIOUS
<1>1. Types /\ ReadersFit(q) /\ Runners \subseteq Processes /\ Cleaners \subseteq Processes
  BY DEF CacheInv, Processes
<1>2. ASSUME UNCHANGED <<got, index, want>>, pc'[q] = pc[q] PROVE ReadersFit(q)'
  BY <1>1, <1>2, ReaderFrame
<1>3. ASSUME NEW p \in Runners, Opens(p) PROVE ReadersFit(q)'
  <2>1. UNCHANGED <<got, index, want>>
    BY <1>3 DEF Opens, OpenRoot, CreateRoot, ProtectRoot
  <2>2. \/ pc'[q] = pc[q]
        \/ pc[q] \notin {"parts", "hit", "crashed"} /\ pc'[q] \notin {"parts", "hit"}
    BY <1>1, <1>3 DEF Opens, OpenRoot, CreateRoot, ProtectRoot, Types
  <2> QED
    BY <1>1, <2>1, <2>2, ReaderFrame DEF ReadersFit
<1>4. ASSUME NEW p \in Runners, Loads(p) PROVE ReadersFit(q)'
  <2>1. CASE q # p
    <3>1. got'[q] = got[q] /\ index'[q] = index[q] /\ want'[q] = want[q] /\ pc'[q] = pc[q]
      BY <1>1, <1>4, <2>1 DEF Loads, LoadEntry, LoadPart, Hit, Miss, Types
    <3> QED
      BY <1>1, <3>1, ReaderFrame
  <2>2. CASE q = p /\ LoadEntry(p)
    <3>1. got[q] = <<>> /\ got' = got /\ want' = want /\ pc'[q] = "parts"
      BY <1>1, <2>2 DEF LoadEntry, ReadersFit, Types
    <3>2. want[q] \in Keys /\ want[q] \in Names
      BY <1>1 DEF Types, Names
    <3>3. Fits(want[q], entries[want[q]].body)
      BY <1>1, <2>2, <3>2, ReadableFits DEF LoadEntry
    <3>4. index'[q] = entries[want[q]].body
      BY <1>1, <2>2 DEF LoadEntry, Types
    <3>5. index'[q] \in Builds /\ index'[q].key = want[q]
      BY <3>2, <3>3, <3>4, NameKinds
    <3>6. Len(index'[q].parts) \in Nat /\ Len(<<>>) = 0
      BY <3>5, NameKinds, LenProperties
    <3>7. /\ Len(got'[q]) <= Len(index'[q].parts)
          /\ \A i \in 1 .. Len(got'[q]) : got'[q][i] = index'[q].parts[i]
      BY <3>1, <3>6
    <3> QED
      BY <3>1, <3>5, <3>7 DEF ReadersFit
  <2>3. CASE q = p /\ LoadPart(p)
    <3> DEFINE k == Len(got[q]) + 1
               d == index[q].parts[k]
    <3>1. pc[q] = "parts" /\ Incomplete(q) /\ Readable(q, NextPart(q))
          /\ got' = [got EXCEPT ![q] = Append(@, entries[NextPart(q)].body)]
          /\ index' = index /\ want' = want /\ pc' = pc
      BY <2>3 DEF LoadPart
    <3>2. /\ index[q] \in Builds /\ index[q].key = want[q] /\ want[q] \in Keys
          /\ d \in Parts /\ NextPart(q) = PartName(want[q], d) /\ NextPart(q) \in Names
          /\ k \in Nat /\ k - 1 = Len(got[q]) /\ Len(got[q]) \in Nat
          /\ Len(index[q].parts) \in Nat /\ k <= Len(index[q].parts)
      BY <3>1, NextPartFits
    <3>3. Fits(NextPart(q), entries[NextPart(q)].body) /\ entries[NextPart(q)].body \in Bodies
      BY <1>1, <3>1, <3>2, ReadableFits
    <3>4. entries[NextPart(q)].body = d /\ d \in Bodies
      BY <3>2, <3>3, NameKinds
    <3>5. got'[q] = Append(got[q], d) /\ got[q] \in Seq(Bodies)
      BY <1>1, <3>1, <3>4 DEF Types
    <3>6. /\ Len(got'[q]) = k /\ \A i \in 1 .. Len(got[q]) : got'[q][i] = got[q][i]
          /\ got'[q][k] = d
      BY <3>4, <3>5, AppendProperties
    <3>7. \A i \in 1 .. k : i \in 1 .. Len(got[q]) \/ i = k
      BY <3>2
    <3>8. \A i \in 1 .. Len(got[q]) : got[q][i] = index[q].parts[i]
      BY <1>1, <3>1 DEF ReadersFit
    <3>9. \A i \in 1 .. Len(got'[q]) : got'[q][i] = index[q].parts[i]
      BY <3>6, <3>7, <3>8
    <3> HIDE DEF k, d
    <3> QED
      BY <3>1, <3>2, <3>6, <3>9 DEF ReadersFit
  <2>4. CASE q = p /\ Hit(p)
    <3>1. pc[q] = "parts" /\ ~Incomplete(q) /\ pc'[q] = "hit"
          /\ got' = got /\ index' = index /\ want' = want
      BY <1>1, <2>4 DEF Hit, Types
    <3>2. index[q] \in Builds /\ Len(got[q]) <= Len(index[q].parts) /\ got[q] \in Seq(Bodies)
      BY <1>1, <3>1 DEF ReadersFit, Types
    <3>3. Len(got[q]) \in Nat /\ Len(index[q].parts) \in Nat
      BY <3>2, NameKinds, LenProperties
    <3>4. Len(got[q]) = Len(index[q].parts)
      BY <3>1, <3>2, <3>3 DEF Incomplete, PartsOf
    <3> QED
      BY <1>1, <3>1, <3>4 DEF ReadersFit
  <2>5. CASE q = p /\ Miss(p)
    BY <1>1, <2>5 DEF Miss, ReadersFit, Types
  <2> QED
    BY <1>4, <2>1, <2>2, <2>3, <2>4, <2>5 DEF Loads
<1>5. ASSUME NEW p \in Runners, Stores(p) \/ Evicts(p) PROVE ReadersFit(q)'
  <2>1. UNCHANGED <<got, index, want>>
    BY <1>5 DEF Stores, Compile, CreateTemporary, SyncTemporary, Publish, FailWrite,
                Evicts, Scan, AbortEviction, Stat, Evict, EndEviction
  <2>2. \/ pc'[q] = pc[q]
        \/ pc[q] \notin {"parts", "hit", "crashed"} /\ pc'[q] \notin {"parts", "hit"}
    BY <1>1, <1>5 DEF Stores, Compile, CreateTemporary, SyncTemporary, Publish, FailWrite, Storing,
                Evicts, Scan, AbortEviction, Stat, Evict, EndEviction, Types
  <2> QED
    BY <1>1, <2>1, <2>2, ReaderFrame DEF ReadersFit
<1>6. ASSUME NEW p \in Cleaners, Cleans(p) PROVE ReadersFit(q)'
  <2>1. p # q
    BY <1>6, CacheAssumption
  <2> QED
    BY <1>1, <1>2, <1>6, <2>1 DEF Cleans, CleanList, CleanOne, CleanFails, CleanRoot, Types
<1>7. ASSUME PowerLoss \/ (\E p \in Processes : Crash(p)) \/ \E n \in Names : Damage(n)
      PROVE  ReadersFit(q)'
  <2>1. UNCHANGED <<got, index, want>>
    BY <1>7 DEF PowerLoss, Crash, Damage
  <2>2. pc'[q] = pc[q] \/ pc'[q] = "crashed"
    BY <1>1, <1>7 DEF PowerLoss, Crash, Damage, Types
  <2> QED
    BY <1>1, <2>1, <2>2, ReaderFrame
<1> QED
  BY <1>3, <1>4, <1>5, <1>6, <1>7, Steps

-----------------------------------------------------------------------------
(* The limit. *)

\* Two names present differ in how many are older: of two, one is older.
LEMMA RanksDiffer ==
    ASSUME Types, Ordered, NEW m \in Present, NEW n \in Present, <<m, n>> \in older
    PROVE  Cardinality({l \in Present : <<l, m>> \in older})
             < Cardinality({l \in Present : <<l, n>> \in older})
<1> DEFINE M == {l \in Present : <<l, m>> \in older}
           N == {l \in Present : <<l, n>> \in older}
<1>1. M \subseteq N /\ m \in N /\ m \notin M
  BY DEF Ordered
<1>2. N \subseteq Present
  OBVIOUS
<1> HIDE DEF M, N
<1>3. IsFiniteSet(N)
  BY <1>2, PresentFacts, FS_Subset
<1>4. IsFiniteSet(M) /\ Cardinality(M) <= Cardinality(N) /\ Cardinality(M) # Cardinality(N)
  BY <1>1, <1>3, FS_Subset
<1>5. Cardinality(M) \in Nat /\ Cardinality(N) \in Nat
  BY <1>3, <1>4, FS_CardinalityType
<1>6. Cardinality(M) < Cardinality(N)
  BY <1>4, <1>5
<1> QED
  BY <1>6 DEF M, N

\* What is not evicted is within the limit (evict.rs, enforce_soft_limit_with).
LEMMA ExcessLeavesLimit ==
    ASSUME Types, Ordered
    PROVE  Cardinality(Present \ Excess(Present)) <= limit
<1> DEFINE Rank(n) == Cardinality({l \in Present : <<l, n>> \in older})
           size == Cardinality(Present)
           kept == Present \ Excess(Present)
           rank == [n \in kept |-> Rank(n)]
<1>1. IsFiniteSet(Present) /\ size \in Nat /\ limit \in Nat
  BY PresentFacts DEF Types
<1>2. \A n \in Present : Rank(n) \in 0 .. size - 1
  <2> TAKE n \in Present
  <2> DEFINE N == {l \in Present : <<l, n>> \in older}
  <2>1. N \subseteq Present /\ n \notin N
    BY DEF Ordered
  <2> HIDE DEF N
  <2>2. IsFiniteSet(N) /\ Cardinality(N) <= size /\ Cardinality(N) # size
    BY <1>1, <2>1, FS_Subset
  <2>3. Cardinality(N) \in Nat
    BY <2>2, FS_CardinalityType
  <2>4. Cardinality(N) \in 0 .. size - 1
    BY <1>1, <2>2, <2>3
  <2> QED
    BY <2>4 DEF N
<1>3. CASE size <= limit
  <2>1. kept \subseteq Present
    OBVIOUS
  <2>2. Cardinality(kept) <= size /\ Cardinality(kept) \in Nat
    BY <1>1, <2>1, FS_Subset, FS_CardinalityType
  <2> QED
    BY <1>1, <1>3, <2>2
<1>4. CASE size > limit
  <2>1. \A n \in kept : n \in Present /\ ~(Rank(n) + limit < size)
    BY DEF Excess
  <2>2. \A n \in kept : Rank(n) \in (size - limit) .. (size - 1)
    BY <1>1, <1>2, <1>4, <2>1
  <2>3. \A m, n \in kept : m # n => Rank(m) # Rank(n)
    <3> TAKE m, n \in kept
    <3> HAVE m # n
    <3>1. <<m, n>> \in older \/ <<n, m>> \in older
      BY <2>1 DEF Ordered
    <3>2. Rank(m) < Rank(n) \/ Rank(n) < Rank(m)
      BY <2>1, <3>1, RanksDiffer
    <3> QED
      BY <1>1, <1>2, <2>1, <3>2
  <2> HIDE DEF kept, size, Rank
  <2>4. rank \in Injection(kept, (size - limit) .. (size - 1))
    BY <2>2, <2>3 DEF Injection, IsInjective
  <2>5. size - limit \in Int /\ size - 1 \in Int /\ size - limit <= size
    BY <1>1
  <2>6. /\ IsFiniteSet((size - limit) .. (size - 1))
        /\ Cardinality((size - limit) .. (size - 1)) = limit
    <3>1. (size - 1) - (size - limit) + 1 = limit /\ (size - limit > size - 1 => limit = 0)
      BY <1>1
    <3> QED
      BY <2>5, <3>1, FS_Interval
  <2> HIDE DEF rank
  <2>7. Cardinality(kept) <= Cardinality((size - limit) .. (size - 1))
    BY <2>4, <2>6, FS_Injection
  <2> QED
    BY <2>6, <2>7 DEF kept
<1> QED
  BY <1>1, <1>3, <1>4

\* A process that has still to evict stays so while nothing is added.
LEMMA EvictorFrame ==
    ASSUME Types, NEW r \in Runners, WillEvict(r),
           Present' \subseteq Present, limit' = limit,
           pc'[r] = pc[r], dir'[r] = dir[r], listing'[r] = listing[r],
           root'.gen = root.gen, root'.state # "absent"
    PROVE  WillEvict(r)'
<1>1. Linked(r)'
  BY DEF WillEvict, Linked
<1>2. CASE pc[r] = "scan" \/ pc[r] = "stat"
  BY <1>1, <1>2 DEF WillEvict
<1>3. CASE pc[r] = "evict"
  <2>1. Cardinality(Present \ listing[r]) <= limit
    BY <1>3 DEF WillEvict
  <2>2. IsFiniteSet(Present \ listing[r]) /\ Cardinality(Present \ listing[r]) \in Nat
    BY PresentFacts, FS_Subset, FS_CardinalityType
  <2>3. (Present \ listing[r])' \subseteq Present \ listing[r]
    OBVIOUS
  <2>4. /\ Cardinality((Present \ listing[r])') <= Cardinality(Present \ listing[r])
        /\ Cardinality((Present \ listing[r])') \in Nat
    BY <2>2, <2>3, FS_Subset, FS_CardinalityType
  <2>5. Cardinality((Present \ listing[r])') <= limit
    BY <2>1, <2>2, <2>4 DEF Types
  <2> QED
    BY <1>1, <1>3, <2>5 DEF WillEvict
<1> QED
  BY <1>2, <1>3 DEF WillEvict

\* The limit is not exceeded by having fewer entries.
LEMMA FewerFit ==
    ASSUME Types, Cardinality(Present) <= limit, Present' \subseteq Present, limit' = limit
    PROVE  Cardinality(Present') <= limit'
<1>1. IsFiniteSet(Present) /\ Cardinality(Present) \in Nat /\ limit \in Nat
  BY PresentFacts DEF Types
<1>2. Cardinality(Present') <= Cardinality(Present) /\ Cardinality(Present') \in Nat
  BY <1>1, FS_Subset, FS_CardinalityType
<1> QED
  BY <1>1, <1>2

\* A step of the process that has still to evict keeps it so, or does it.
LEMMA EvictorSteps ==
    ASSUME CacheInv, NEW r \in Runners, WillEvict(r),
           Opens(r) \/ Loads(r) \/ Stores(r) \/ Evicts(r)
    PROVE  WithinLimit'
<1>1. Types /\ Ordered /\ r \in Processes /\ limit' = limit
  BY DEF CacheInv, Processes, Opens, OpenRoot, CreateRoot, ProtectRoot, Loads, LoadEntry,
         LoadPart, Hit, Miss, Stores, Compile, CreateTemporary, SyncTemporary, Publish,
         FailWrite, Evicts, Scan, AbortEviction, Stat, Evict, EndEviction
<1>2. CASE Scan(r)
  <2>1. root' = root /\ dir' = dir /\ entries' = entries /\ pc'[r] = "stat" /\ listing'[r] = Present
    BY <1>1, <1>2 DEF Scan, Types
  <2>2. Present' = Present
    BY <2>1 DEF Present
  <2>3. WillEvict(r)'
    BY <1>1, <2>1, <2>2, PresentFacts DEF WillEvict, Linked
  <2> QED
    BY <2>3 DEF WithinLimit
<1>3. CASE AbortEviction(r)
  BY <1>3 DEF AbortEviction, WithinLimit
<1>4. CASE Stat(r)
  <2>1. listing[r] = Present
    BY <1>4 DEF Stat, Vanished, WillEvict, Present
  <2>2. root' = root /\ dir' = dir /\ entries' = entries /\ pc'[r] = "evict"
        /\ listing'[r] = Excess(Present)
    BY <1>1, <1>4, <2>1 DEF Stat, Types
  <2>3. Present' = Present
    BY <2>2 DEF Present
  <2>4. Cardinality(Present' \ listing'[r]) <= limit
    BY <1>1, <2>2, <2>3, ExcessLeavesLimit
  <2>5. WillEvict(r)'
    BY <1>1, <2>2, <2>4 DEF WillEvict, Linked
  <2> QED
    BY <2>5 DEF WithinLimit
<1>5. CASE Evict(r)
  <2>1. PICK n \in listing[r] : Unlink(n) /\ listing' = [listing EXCEPT ![r] = @ \ {n}]
    BY <1>5 DEF Evict, WillEvict
  <2>2. Present' = Present \ {n}
    BY <1>1, <2>1 DEF Unlink, Present, Types
  <2>3. listing'[r] = listing[r] \ {n}
    BY <1>1, <2>1 DEF Types
  <2>4. Present' \ listing'[r] = Present \ listing[r]
    BY <2>1, <2>2, <2>3
  <2>5. root' = root /\ dir' = dir /\ pc' = pc /\ pc[r] = "evict"
    BY <1>5 DEF Evict
  <2>6. WillEvict(r)'
    BY <1>1, <2>4, <2>5 DEF WillEvict, Linked
  <2> QED
    BY <2>6 DEF WithinLimit
<1>6. CASE EndEviction(r)
  <2>1. pc[r] = "evict" /\ listing[r] = {} /\ entries' = entries
    BY <1>6 DEF EndEviction
  <2>2. Present \ listing[r] = Present /\ Present' = Present
    BY <2>1 DEF Present
  <2>3. Cardinality(Present') <= limit'
    BY <1>1, <2>1, <2>2 DEF WillEvict
  <2> QED
    BY <2>3 DEF WithinLimit
<1> QED
  BY <1>2, <1>3, <1>4, <1>5, <1>6
     DEF WillEvict, Opens, OpenRoot, CreateRoot, ProtectRoot, Loads, LoadEntry, LoadPart, Hit,
         Miss, Stores, Compile, CreateTemporary, SyncTemporary, Publish, FailWrite, Storing, Evicts

\* Who is not taking the step keeps its place, its root and its list.
LEMMA OthersStay ==
    ASSUME Types, NEW p \in Processes, NEW r \in Runners, r # p,
           \/ p \in Runners /\ (Opens(p) \/ Loads(p) \/ Stores(p) \/ Evicts(p))
           \/ p \in Cleaners /\ Cleans(p)
    PROVE  /\ pc'[r] = pc[r] /\ dir'[r] = dir[r] /\ listing'[r] = listing[r]
           /\ limit' = limit /\ (aborted => aborted')
<1>1. r \in Processes
  BY DEF Processes
<1>2. CASE p \in Runners /\ (Opens(p) \/ Loads(p))
  BY <1>1, <1>2 DEF Opens, OpenRoot, CreateRoot, ProtectRoot, Loads, LoadEntry, LoadPart, Hit,
                    Miss, Types
<1>3. CASE p \in Runners /\ Stores(p)
  BY <1>1, <1>3 DEF Stores, Compile, CreateTemporary, SyncTemporary, Publish, FailWrite, Types
<1>4. CASE p \in Runners /\ Evicts(p)
  BY <1>1, <1>4 DEF Evicts, Scan, AbortEviction, Stat, Evict, EndEviction, Types
<1>5. CASE p \in Cleaners /\ Cleans(p)
  BY <1>1, <1>5 DEF Cleans, CleanList, CleanOne, CleanFails, CleanRoot, Types
<1> QED
  BY <1>2, <1>3, <1>4, <1>5

\* Nobody comes back from a crash, and an eviction that gave up stays so.
LEMMA CrashesStay ==
    ASSUME CacheInv, Next
    PROVE  /\ limit' = limit /\ (aborted => aborted')
           /\ \A q \in Processes : pc[q] = "crashed" => pc'[q] = "crashed"
<1>1. Types /\ Runners \subseteq Processes /\ Cleaners \subseteq Processes
  BY DEF CacheInv, Processes
<1>2. ASSUME NEW p \in Runners, Opens(p) \/ Loads(p)
      PROVE  /\ limit' = limit /\ (aborted => aborted')
             /\ \A q \in Processes : pc[q] = "crashed" => pc'[q] = "crashed"
  BY <1>1, <1>2 DEF Opens, OpenRoot, CreateRoot, ProtectRoot, Loads, LoadEntry, LoadPart, Hit,
                    Miss, Types
<1>3. ASSUME NEW p \in Runners, Stores(p)
      PROVE  /\ limit' = limit /\ (aborted => aborted')
             /\ \A q \in Processes : pc[q] = "crashed" => pc'[q] = "crashed"
  BY <1>1, <1>3 DEF Stores, Compile, CreateTemporary, SyncTemporary, Publish, FailWrite, Storing, Types
<1>4. ASSUME NEW p \in Runners, Evicts(p)
      PROVE  /\ limit' = limit /\ (aborted => aborted')
             /\ \A q \in Processes : pc[q] = "crashed" => pc'[q] = "crashed"
  BY <1>1, <1>4 DEF Evicts, Scan, AbortEviction, Stat, Evict, EndEviction, Types
<1>5. ASSUME NEW p \in Cleaners, Cleans(p)
      PROVE  /\ limit' = limit /\ (aborted => aborted')
             /\ \A q \in Processes : pc[q] = "crashed" => pc'[q] = "crashed"
  BY <1>1, <1>5 DEF Cleans, CleanList, CleanOne, CleanFails, CleanRoot, Types
<1>6. ASSUME PowerLoss \/ (\E p \in Processes : Crash(p)) \/ \E n \in Names : Damage(n)
      PROVE  /\ limit' = limit /\ (aborted => aborted')
             /\ \A q \in Processes : pc[q] = "crashed" => pc'[q] = "crashed"
  BY <1>1, <1>6 DEF PowerLoss, Crash, Damage, Ended, Types
<1> QED
  BY <1>2, <1>3, <1>4, <1>5, <1>6, Steps

\* A root that holds anything stays, under its number.
LEMMA RootStays ==
    ASSUME CacheInv, NEW p \in Processes,
           \/ p \in Runners /\ (Opens(p) \/ Loads(p) \/ Stores(p) \/ Evicts(p))
           \/ p \in Cleaners /\ Cleans(p),
           root.state # "absent"
    PROVE  \/ root'.gen = root.gen /\ root'.state # "absent"
           \/ Present = {}
<1>1. Types
  BY DEF CacheInv
<1>2. CASE Opens(p)
  BY <1>1, <1>2 DEF Opens, OpenRoot, CreateRoot, ProtectRoot, Types
<1>3. CASE Loads(p) \/ Stores(p) \/ Evicts(p)
  BY <1>3 DEF Loads, LoadEntry, LoadPart, Hit, Miss, Stores, Compile, CreateTemporary,
              SyncTemporary, Publish, FailWrite, Evicts, Scan, AbortEviction, Stat, Evict,
              EndEviction
<1>4. CASE Cleans(p)
  BY <1>4 DEF Cleans, CleanList, CleanOne, CleanFails, CleanRoot
<1> QED
  BY <1>2, <1>3, <1>4

\* Whatever publishes has still to evict, and nothing else adds an entry.
LEMMA WithinLimitKept == CacheInv /\ Next => WithinLimit'
<1> SUFFICES ASSUME CacheInv, Next PROVE WithinLimit'
  OBVIOUS
<1>1. Types /\ WithinLimit /\ StoreStep /\ Runners \subseteq Processes /\ Cleaners \subseteq Processes
  BY StoreSteps DEF CacheInv, Processes
<1>2. ASSUME NEW p \in Runners, Publish(p) PROVE WithinLimit'
  <2>1. pc'[p] = "scan" /\ dir' = dir /\ root' = root /\ Linked(p)
    BY <1>1, <1>2 DEF Publish, Types
  <2>2. WillEvict(p)'
    BY <2>1 DEF WillEvict, Linked
  <2> QED
    BY <2>2 DEF WithinLimit
<1>3. CASE Present' \subseteq Present
  <2>1. CASE aborted \/ \E q \in Processes : pc[q] = "crashed"
    BY <2>1, CrashesStay DEF WithinLimit
  <2>2. CASE Cardinality(Present) <= limit
    BY <1>1, <1>3, <2>2, CrashesStay, FewerFit DEF WithinLimit
  <2>3. ASSUME NEW r \in Runners, WillEvict(r) PROVE WithinLimit'
    <3>1. root.state # "absent"
      BY <2>3 DEF WillEvict, Linked
    <3>2. ASSUME NEW p \in Processes,
                 \/ p \in Runners /\ (Opens(p) \/ Loads(p) \/ Stores(p) \/ Evicts(p))
                 \/ p \in Cleaners /\ Cleans(p),
                 p # r
          PROVE  WithinLimit'
      <4>1. CASE Present = {}
        <5>1. Cardinality(Present) <= limit
          BY <1>1, <4>1, FS_EmptySet DEF Types
        <5> QED
          BY <1>1, <1>3, <5>1, CrashesStay, FewerFit DEF WithinLimit
      <4>2. CASE root'.gen = root.gen /\ root'.state # "absent"
        <5>1. WillEvict(r)'
          BY <1>1, <1>3, <2>3, <3>2, <4>2, OthersStay, EvictorFrame
        <5> QED
          BY <5>1 DEF WithinLimit
      <4> QED
        BY <3>1, <3>2, <4>1, <4>2, RootStays
    <3>3. ASSUME NEW p \in Processes, Crash(p) PROVE WithinLimit'
      <4>1. pc'[p] = "crashed"
        BY <1>1, <3>3 DEF Crash, Types
      <4> QED
        BY <4>1 DEF WithinLimit
    <3>4. ASSUME PowerLoss PROVE WithinLimit'
      <4>1. \E p \in Processes : pc'[p] = "crashed"
        BY <3>4 DEF PowerLoss
      <4> QED
        BY <4>1 DEF WithinLimit
    <3>5. ASSUME NEW n \in Names, Damage(n) PROVE WithinLimit'
      <4>1. WillEvict(r)'
        BY <1>1, <1>3, <2>3, <3>1, <3>5, EvictorFrame DEF Damage
      <4> QED
        BY <4>1 DEF WithinLimit
    <3> QED
      BY <1>1, <2>3, <3>2, <3>3, <3>4, <3>5, EvictorSteps, Steps, CacheAssumption
  <2> QED
    BY <1>1, <2>1, <2>2, <2>3 DEF WithinLimit
<1> QED
  BY <1>1, <1>2, <1>3, PresentMoves

-----------------------------------------------------------------------------
(* The theorems. *)

\* The invariant is inductive.
LEMMA CacheInvStep == CacheInv /\ [Next]_vars => CacheInv'
<1> SUFFICES ASSUME CacheInv, [Next]_vars PROVE CacheInv'
  OBVIOUS
<1>1. CASE UNCHANGED vars
  <2>1. /\ UNCHANGED <<root, entries, older, temp, pc, dir, want, todo>>
        /\ UNCHANGED <<listing, order, index, got, limit, damage, aborted>>
    BY <1>1 DEF vars
  <2>2. Present' = Present /\ Temporaries' = Temporaries
    BY <2>1 DEF Present, Temporaries
  <2>3. Types'
    BY <2>1 DEF CacheInv, Types
  <2>4. Ordered' /\ EntriesFit'
    BY <2>1, <2>2 DEF CacheInv, Ordered, EntriesFit
  <2>5. RootFits' /\ PublishedIsComplete'
    BY <2>1, <2>2 DEF CacheInv, RootFits, PublishedIsComplete
  <2>6. ASSUME NEW p \in Processes PROVE WritersFit(p)'
    BY <2>1 DEF CacheInv, WritersFit
  <2>7. ASSUME NEW p \in Runners PROVE ReadersFit(p)'
    BY <2>1 DEF CacheInv, ReadersFit
  <2>8. \A p \in Runners : WillEvict(p) => WillEvict(p)'
    BY <2>1, <2>2 DEF WillEvict, Linked
  <2>9. WithinLimit'
    BY <2>1, <2>2, <2>8 DEF CacheInv, WithinLimit
  <2> QED
    BY <2>3, <2>4, <2>5, <2>6, <2>7, <2>9 DEF CacheInv
<1>2. CASE Next
  BY <1>2, TypesKept, OrderedKept, EntriesKept, RootKept, WritersKept, ReadersKept, TornKept,
     WithinLimitKept, StoreSteps DEF CacheInv
<1> QED
  BY <1>1, <1>2

\* Every behaviour of the cache satisfies the invariant.
THEOREM CacheInvariant == Spec => []CacheInv
BY CacheInvInit, CacheInvStep, PTL DEF Spec

\* Every variable keeps its shape; the recency order is one of what is present,
\* and a root that is gone holds nothing.
THEOREM CacheTypes == Spec => []TypeOK
<1>1. CacheInv => TypeOK
  BY DEF CacheInv, Types, Ordered, RootFits, TypeOK
<1> QED
  BY <1>1, CacheInvariant, PTL

\* A hit is a whole build of its key, whatever other processes publish, evict,
\* clean or damage meanwhile (store.rs, read_entry; cache/mod.rs, load_object).
THEOREM HitsAreWhole == Spec => []HitIsWhole
<1>1. CacheInv => HitIsWhole
  <2> SUFFICES ASSUME CacheInv, NEW p \in Runners, pc[p] = "hit"
               PROVE  index[p] \in Builds /\ index[p].key = want[p] /\ got[p] = index[p].parts
    BY DEF HitIsWhole
  <2>1. /\ index[p] \in Builds /\ index[p].key = want[p] /\ Len(got[p]) = Len(index[p].parts)
        /\ \A i \in 1 .. Len(got[p]) : got[p][i] = index[p].parts[i]
    BY DEF CacheInv, ReadersFit
  <2>2. got[p] \in Seq(Bodies)
    BY DEF CacheInv, Types
  <2>3. index[p].parts \in Seq(Bodies)
    BY <2>1, NameKinds, SeqMonotonic DEF Bodies
  <2>4. got[p] = index[p].parts
    BY <2>1, <2>2, <2>3, SeqEqual
  <2> QED
    BY <2>1, <2>4
<1> QED
  BY <1>1, CacheInvariant, PTL

\* No crash and no loss of power tears an entry (store.rs, write).
THEOREM NoTornEntries == Spec => []PublishedIsComplete
<1>1. CacheInv => PublishedIsComplete
  BY DEF CacheInv
<1> QED
  BY <1>1, CacheInvariant, PTL

\* Only killed processes leave a temporary (store.rs, remove_temporary).
THEOREM NoStrayTemporaries == Spec => []TemporariesAreOwned
<1>1. CacheInv => TemporariesAreOwned
  BY DEF CacheInv, WritersFit, TemporariesAreOwned, Temporaries
<1> QED
  BY <1>1, CacheInvariant, PTL

\* The cache is within its limit when nobody writes (evict.rs).
THEOREM LimitIsSoft == Spec => []WithinSoftLimit
<1>1. CacheInv => WithinSoftLimit
  BY DEF CacheInv, WithinLimit, WillEvict, WithinSoftLimit, Processes
<1> QED
  BY <1>1, CacheInvariant, PTL
=============================================================================
