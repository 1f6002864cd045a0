------------------------ MODULE UnrollFrontierProofs ------------------------
(***************************************************************************)
(* What holds of the unroll frontier for every program, budget and set of  *)
(* charges, and whatever the checkers answer: it implements the verified   *)
(* transaction, tries every loop once although loop ids move under it,     *)
(* and repeats no key as long as no two loops that can disappear are       *)
(* neighbours.                                                             *)
(***************************************************************************)
EXTENDS UnrollFrontier, TLAPS

\* What is being evaluated.
Raced == pending \cup alternatives

Candidate == [function : Functions0, loop_id : Nat, header : Nat,
              full : BOOLEAN, factor : {1, 2, 4}]

\* The loop at a position, its header tried or not.
Tried(f, i) == <<f, program[f][i].header>> \in processed

Types ==
    /\ program \in [Functions0 -> Seq(Loop)]
    /\ phase \in {"select", "evaluate", "done", "error"}
    /\ pending \subseteq [cand : Candidate, vf : SlpLanes \cup {1}]
    /\ alternatives \subseteq [cand : Candidate, vf : SlpLanes \cup {1}, charge : Charges]

\* Loops keep apart whatever disappears.
HeadersApart ==
    \A f \in Functions0 : \A i, j \in DOMAIN program[f] :
        program[f][i].header = program[f][j].header => i = j

\* Only tried loops were rewritten.
RewrittenWereTried ==
    \A f \in Functions0 : \A i \in DOMAIN program[f] : program[f][i].unrolled => Tried(f, i)

\* A candidate of the entry was tried or is still there.
EntryLoopsStay ==
    \A f \in Functions0 : \A i \in DOMAIN Loops0[f] :
        Loops0[f][i].kind # "opaque" =>
            \/ <<f, Loops0[f][i].header>> \in processed
            \/ \E j \in DOMAIN program[f] : program[f][j].header = Loops0[f][i].header
                                            /\ program[f][j].kind # "opaque"

\* The frontier ends with nothing left to try.
DoneIsDone ==
    phase = "done" =>
        \A f \in Functions0 : \A i \in DOMAIN program[f] :
            program[f][i].kind # "opaque" => Tried(f, i)

\* What is raced is one loop, where its candidates say it is, not rewritten yet.
OneLoop ==
    /\ phase \in {"select", "done"} => Raced = {}
    /\ \A a \in Raced :
          /\ a.cand.loop_id \in DOMAIN program[a.cand.function]
          /\ program[a.cand.function][a.cand.loop_id].header = a.cand.header
          /\ ~program[a.cand.function][a.cand.loop_id].unrolled
          /\ <<a.cand.function, a.cand.header>> \in processed
          /\ \A b \in Raced : b.cand = [a.cand EXCEPT !.factor = b.cand.factor]

LoopInv ==
    Types /\ HeadersApart /\ RewrittenWereTried /\ EntryLoopsStay /\ DoneIsDone /\ OneLoop

\* Every alternative is tried under a key of its own: what is raced differs in
\* factor or width, and a factor nothing was tried with has left no trace.
KeysApart ==
    /\ \A a, b \in Raced : a.cand.factor = b.cand.factor /\ a.vf = b.vf => a = b
    /\ \A a \in pending : a.vf = 1 =>
          /\ \A b \in Raced : b.cand.factor = a.cand.factor => b = a
          /\ \A k \in Audit!AuditedKeys :
                k.function = a.cand.function /\ k.loop_id = a.cand.loop_id
                  /\ k.kind = Key(a).kind => k.uf # a.cand.factor

\* Every loop before the raced one was tried or is no candidate, and all that was
\* audited of the function is of a loop at its place or before.
RacedIsFirst ==
    \A a \in Raced :
        LET f == a.cand.function  p == a.cand.loop_id
        IN  /\ \A i \in 1 .. p - 1 : Tried(f, i) \/ program[f][i].kind = "opaque"
            /\ \A k \in Audit!AuditedKeys : k.function = f =>
                  k.loop_id <= p /\ (k.loop_id = p /\ a.cand.full => k.kind = "full")
            /\ a.cand.full /\ p + 1 \in DOMAIN program[f] /\ ~Tried(f, p + 1) =>
                  program[f][p + 1].kind # "full"

\* Audited keys lie behind the loops still to try; one may stand at the place of
\* such a loop, but not if both can disappear.
KeysBehind ==
    \A k \in Audit!AuditedKeys : \A i \in DOMAIN program[k.function] :
        ~Tried(k.function, i) /\ program[k.function][i].kind # "opaque" =>
            \/ k.loop_id < i
            \/ /\ k.loop_id = i /\ k.kind = "full"
               /\ program[k.function][i].kind # "full"

\* No two neighbours still to try can disappear.
FullApart ==
    \A f \in Functions0 : \A i \in DOMAIN program[f] :
        i + 1 \in DOMAIN program[f] /\ ~Tried(f, i) /\ ~Tried(f, i + 1)
            => ~(program[f][i].kind = "full" /\ program[f][i + 1].kind = "full")

KeyInv == KeysAreFresh /\ KeysApart /\ RacedIsFirst /\ KeysBehind /\ FullApart

-----------------------------------------------------------------------------
(* Candidates and rewritten programs. *)

\* A candidate is one of the loops of the program.
LEMMA CandidateFacts ==
    ASSUME Types, NEW c \in Candidates
    PROVE  /\ c \in Candidate
           /\ c.loop_id \in DOMAIN program[c.function]
           /\ program[c.function][c.loop_id].header = c.header
           /\ program[c.function][c.loop_id].kind # "opaque"
           /\ c.full <=> program[c.function][c.loop_id].kind = "full"
           /\ c.factor \in Factors(program[c.function][c.loop_id].kind)
           /\ c = [function |-> c.function, loop_id |-> c.loop_id, header |-> c.header,
                   full |-> c.full, factor |-> c.factor]
  <1>1. PICK f \in Functions0 : \E i \in DOMAIN program[f] :
           \E u \in Factors(program[f][i].kind) :
              c = [function |-> f, loop_id |-> i, header |-> program[f][i].header,
                   full |-> program[f][i].kind = "full", factor |-> u]
    BY DEF Candidates
  <1>2. PICK i \in DOMAIN program[f] : \E u \in Factors(program[f][i].kind) :
              c = [function |-> f, loop_id |-> i, header |-> program[f][i].header,
                   full |-> program[f][i].kind = "full", factor |-> u]
    BY <1>1
  <1>3. PICK u \in Factors(program[f][i].kind) :
              c = [function |-> f, loop_id |-> i, header |-> program[f][i].header,
                   full |-> program[f][i].kind = "full", factor |-> u]
    BY <1>2
  <1> DEFINE l == program[f][i]
  <1>4. l \in Loop /\ i \in Nat
    BY DEF Types
  <1>5. l.kind # "opaque" /\ u \in {1, 2, 4}
    BY <1>4 DEF Factors, Loop, Kinds
  <1>6. /\ c.function = f /\ c.loop_id = i /\ c.header = l.header /\ c.factor = u
        /\ c.full = (l.kind = "full")
    BY <1>3
  <1>7. c \in Candidate
    BY <1>3, <1>4, <1>5 DEF Candidate, Loop
  <1>8. c = [function |-> c.function, loop_id |-> c.loop_id, header |-> c.header,
             full |-> c.full, factor |-> c.factor]
    BY <1>3, <1>6
  <1> QED BY <1>4, <1>5, <1>6, <1>7, <1>8

\* Every loop that is not opaque has a candidate.
LEMMA CandidateOfLoop ==
    ASSUME Types, NEW f \in Functions0, NEW i \in DOMAIN program[f],
           program[f][i].kind # "opaque"
    PROVE  \E c \in Candidates : c.function = f /\ c.loop_id = i
                                 /\ c.header = program[f][i].header
  <1>1. program[f][i].kind \in Kinds
    <2>1. program[f] \in Seq(Loop)
      BY DEF Types
    <2>2. program[f][i] \in Loop
      BY <2>1
    <2> QED BY <2>2 DEF Loop
  <1>2. PICK u : u \in Factors(program[f][i].kind)
    <2>1. CASE program[f][i].kind = "full"
      BY <2>1 DEF Factors
    <2>2. CASE program[f][i].kind = "partial"
      BY <2>2 DEF Factors
    <2> QED BY <1>1, <2>1, <2>2 DEF Kinds
  <1> DEFINE c == [function |-> f, loop_id |-> i, header |-> program[f][i].header,
                   full |-> program[f][i].kind = "full", factor |-> u]
  <1>3. c \in Candidates
    <2> DEFINE at(g, j) == {[function |-> g, loop_id |-> j, header |-> program[g][j].header,
                             full |-> program[g][j].kind = "full", factor |-> v] :
                                v \in Factors(program[g][j].kind)}
               of(g) == UNION {at(g, j) : j \in DOMAIN program[g]}
    <2>1. c \in at(f, i)
      BY <1>2
    <2> HIDE DEF c
    <2>2. c \in of(f)
      BY <2>1
    <2>3. c \in UNION {of(g) : g \in Functions0}
      <3> HIDE DEF of
      <3> QED BY <2>2
    <2> QED BY <2>3 DEF Candidates
  <1> QED BY <1>3

\* A sequence without one element.
LEMMA WithoutOne ==
    ASSUME NEW S, NEW s \in Seq(S), NEW p \in DOMAIN s
    PROVE  /\ RemoveAt(s, p) \in Seq(S)
           /\ Len(RemoveAt(s, p)) = Len(s) - 1
           /\ \A i \in 1 .. Len(s) - 1 :
                 RemoveAt(s, p)[i] = IF i < p THEN s[i] ELSE s[i + 1]
  <1>1. Len(s) \in Nat /\ p \in 1 .. Len(s)
    OBVIOUS
  <1> DEFINE before == SubSeq(s, 1, p - 1)  after == SubSeq(s, p + 1, Len(s))
  <1>2. /\ before \in Seq(S) /\ Len(before) = p - 1
        /\ \A i \in 1 .. p - 1 : before[i] = s[i]
    BY <1>1
  <1>3. /\ after \in Seq(S) /\ Len(after) = Len(s) - p
        /\ \A i \in 1 .. Len(s) - p : after[i] = s[p + i]
    BY <1>1
  <1>4. RemoveAt(s, p) = before \o after
    BY DEF RemoveAt
  <1> HIDE DEF before, after
  <1>5. /\ before \o after \in Seq(S)
        /\ Len(before \o after) = Len(s) - 1
        /\ \A i \in 1 .. p - 1 : (before \o after)[i] = before[i]
        /\ \A i \in p .. Len(s) - 1 : (before \o after)[i] = after[i - (p - 1)]
    BY <1>1, <1>2, <1>3
  <1>6. ASSUME NEW i \in 1 .. Len(s) - 1
        PROVE  (before \o after)[i] = IF i < p THEN s[i] ELSE s[i + 1]
    <2>1. CASE i < p
      BY <1>1, <1>2, <1>5, <2>1
    <2>2. CASE i >= p
      <3>1. /\ i \in p .. Len(s) - 1 /\ i - (p - 1) \in 1 .. Len(s) - p
            /\ p + (i - (p - 1)) = i + 1 /\ ~(i < p)
        BY <1>1, <2>2
      <3>2. after[i - (p - 1)] = s[p + (i - (p - 1))]
        BY <1>3, <3>1
      <3> QED BY <1>5, <3>1, <3>2
    <2>3. i < p \/ i >= p
      BY <1>1
    <2> QED BY <2>1, <2>2, <2>3
  <1> QED BY <1>4, <1>5, <1>6

\* A loop list that lost the loop at p, or had it marked.
Rewritten(s, new, p, full) ==
    /\ full => /\ DOMAIN new = 1 .. Len(s) - 1
               /\ \A i \in DOMAIN new : new[i] = IF i < p THEN s[i] ELSE s[i + 1]
    /\ ~full => /\ DOMAIN new = DOMAIN s
                /\ \A i \in DOMAIN new : i # p => new[i] = s[i]
                /\ new[p].header = s[p].header

\* What becomes of the raced loop: its function loses it, or it is marked where
\* it is; the other functions stay.
LEMMA RewriteFacts ==
    ASSUME LoopInv, NEW a \in Raced, NEW kind \in Kinds
    PROVE  /\ Unrolled(a.cand, kind) \in [Functions0 -> Seq(Loop)]
           /\ \A g \in Functions0 : g # a.cand.function =>
                 Unrolled(a.cand, kind)[g] = program[g]
           /\ Rewritten(program[a.cand.function], Unrolled(a.cand, kind)[a.cand.function],
                        a.cand.loop_id, a.cand.full)
  <1> DEFINE f == a.cand.function  p == a.cand.loop_id  new == Unrolled(a.cand, kind)
             done == [header |-> a.cand.header, kind |-> kind, unrolled |-> TRUE]
             s == program[f]
  <1>1. /\ a.cand \in Candidate /\ f \in Functions0
        /\ program \in [Functions0 -> Seq(Loop)]
    BY DEF LoopInv, Types, Raced, Candidate
  <1>2. p \in DOMAIN s /\ s[p].header = a.cand.header
    BY DEF LoopInv, OneLoop
  <1>3. s \in Seq(Loop)
    BY <1>1
  <1>4. CASE a.cand.full
    <2>1. new = [program EXCEPT ![f] = RemoveAt(s, p)]
      BY <1>1, <1>4 DEF Unrolled
    <2>2. /\ RemoveAt(s, p) \in Seq(Loop) /\ Len(RemoveAt(s, p)) = Len(s) - 1
          /\ \A i \in 1 .. Len(s) - 1 :
                RemoveAt(s, p)[i] = IF i < p THEN s[i] ELSE s[i + 1]
      BY <1>2, <1>3, WithoutOne
    <2>3. DOMAIN RemoveAt(s, p) = 1 .. Len(s) - 1
      BY <2>2
    <2> HIDE DEF s, new, f, p
    <2>4. new \in [Functions0 -> Seq(Loop)] /\ new[f] = RemoveAt(s, p)
          /\ \A g \in Functions0 : g # f => new[g] = program[g]
      BY <1>1, <2>1, <2>2
    <2>5. Rewritten(s, new[f], p, TRUE)
      BY <2>2, <2>3, <2>4 DEF Rewritten
    <2> QED BY <1>1, <1>4, <2>4, <2>5 DEF s, new, f, p
  <1>5. CASE ~a.cand.full
    <2>1. new = [program EXCEPT ![f] = [s EXCEPT ![p] = done]]
      BY <1>1, <1>5 DEF Unrolled
    <2>2. done \in Loop
      BY <1>1 DEF Candidate, Loop
    <2>3. [s EXCEPT ![p] = done] \in Seq(Loop)
      BY <1>2, <1>3, <2>2
    <2> HIDE DEF s, new, f, p
    <2>4. new \in [Functions0 -> Seq(Loop)] /\ new[f] = [s EXCEPT ![p] = done]
          /\ \A g \in Functions0 : g # f => new[g] = program[g]
      BY <1>1, <2>1, <2>3
    <2>5. DOMAIN new[f] = DOMAIN s /\ new[f][p] = done
          /\ \A i \in DOMAIN s : i # p => new[f][i] = s[i]
      BY <1>2, <2>4
    <2>6. Rewritten(s, new[f], p, FALSE)
      BY <1>2, <2>5 DEF Rewritten
    <2>7. a.cand.full = FALSE
      BY <1>1, <1>5 DEF Candidate
    <2> QED BY <2>4, <2>6, <2>7 DEF s, new, f, p
  <1> QED BY <1>4, <1>5

\* The place, before the rewrite, of the loop that is now at i.
Before(i, p, full) == IF full /\ i >= p THEN i + 1 ELSE i

\* What a loop list keeps, and where.
LEMMA BeforeFacts ==
    ASSUME NEW s \in Seq(Loop), NEW new, NEW p \in DOMAIN s, NEW full,
           Rewritten(s, new, p, full)
    PROVE  /\ \A i \in DOMAIN new :
                 /\ Before(i, p, full) \in DOMAIN s
                 /\ new[i].header = s[Before(i, p, full)].header
                 /\ Before(i, p, full) # p => new[i] = s[Before(i, p, full)]
           /\ \A j \in DOMAIN s : j # p => \E i \in DOMAIN new : Before(i, p, full) = j
           /\ \A i, j \in DOMAIN new : Before(i, p, full) = Before(j, p, full) => i = j
           /\ DOMAIN new \subseteq Nat
  <1>1. DOMAIN s = 1 .. Len(s) /\ Len(s) \in Nat /\ p \in 1 .. Len(s)
    OBVIOUS
  <1>2. CASE full
    <2>1. /\ DOMAIN new = 1 .. Len(s) - 1
          /\ \A i \in DOMAIN new : new[i] = IF i < p THEN s[i] ELSE s[i + 1]
      BY <1>2 DEF Rewritten
    <2>2. ASSUME NEW i \in DOMAIN new
          PROVE  Before(i, p, full) \in DOMAIN s /\ new[i] = s[Before(i, p, full)]
      BY <1>1, <1>2, <2>1 DEF Before
    <2>3. ASSUME NEW j \in DOMAIN s, j # p
          PROVE  \E i \in DOMAIN new : Before(i, p, full) = j
      <3>1. CASE j < p
        BY <1>1, <1>2, <2>1, <3>1 DEF Before
      <3>2. CASE j > p
        <4>1. j - 1 \in DOMAIN new /\ Before(j - 1, p, full) = j
          BY <1>1, <1>2, <2>1, <3>2 DEF Before
        <4> QED BY <4>1
      <3> QED BY <1>1, <2>3, <3>1, <3>2
    <2>4. \A i, j \in DOMAIN new : Before(i, p, full) = Before(j, p, full) => i = j
      BY <1>1, <1>2, <2>1 DEF Before
    <2> QED BY <1>1, <2>1, <2>2, <2>3, <2>4
  <1>3. CASE ~full
    <2>1. /\ DOMAIN new = DOMAIN s
          /\ \A i \in DOMAIN new : i # p => new[i] = s[i]
          /\ new[p].header = s[p].header
      BY <1>3 DEF Rewritten
    <2>2. \A i \in DOMAIN new : Before(i, p, full) = i
      BY <1>3 DEF Before
    <2> QED BY <1>1, <2>1, <2>2
  <1> QED BY <1>2, <1>3

-----------------------------------------------------------------------------
(* Every loop is tried once. *)

\* A transaction leaves the program or installs the trial (transaction.rs).
LEMMA TransactMoves ==
    ASSUME NEW key, NEW charge, NEW success, NEW trial, NEW verdict,
           Audit!Transact(key, charge, success, trial, verdict)
    PROVE  program' = program \/ program' = trial
  BY DEF Audit!Transact, Audit!DuplicateKey, Audit!Exhaust, Audit!Reject, Audit!Abort,
         Audit!Commit

\* A step that neither selects nor publishes races what was raced before.
LEMMA RacingKeepsLoops ==
    ASSUME LoopInv, UNCHANGED <<program, processed>>,
           pending' \subseteq [cand : Candidate, vf : SlpLanes \cup {1}],
           alternatives' \subseteq [cand : Candidate, vf : SlpLanes \cup {1}, charge : Charges],
           \A b \in Raced' : \E a \in Raced : b.cand = a.cand,
           phase' \in {"evaluate", "error"} \/ (phase' = "select" /\ Raced' = {})
    PROVE  LoopInv'
  <1>1. Types'
    BY DEF LoopInv, Types
  <1>2. HeadersApart' /\ RewrittenWereTried' /\ EntryLoopsStay' /\ DoneIsDone'
    BY DEF LoopInv, HeadersApart, RewrittenWereTried, EntryLoopsStay, DoneIsDone, Tried
  <1>3. OneLoop'
    BY DEF LoopInv, OneLoop
  <1> QED BY <1>1, <1>2, <1>3 DEF LoopInv

LEMMA InitLoops == Init => LoopInv
  <1> SUFFICES ASSUME Init PROVE LoopInv
    OBVIOUS
  <1>1. program = Loops0 /\ pending = {} /\ alternatives = {} /\ phase = "select"
        /\ Raced = {}
    BY DEF Init, Audit!Init, Raced
  <1>2. Types /\ HeadersApart /\ DoneIsDone /\ OneLoop
    BY <1>1, FrontierAssumption DEF Types, HeadersApart, DoneIsDone, OneLoop
  <1>3. RewrittenWereTried /\ EntryLoopsStay
    BY <1>1, FrontierAssumption DEF RewrittenWereTried, EntryLoopsStay
  <1> QED BY <1>2, <1>3 DEF LoopInv

\* The selected loop was not tried, so it was not rewritten.
LEMMA SelectLoopLoops ==
    ASSUME LoopInv, SelectLoop
    PROVE  LoopInv'
  <1>1. PICK c \in Candidates :
           /\ First(c)
           /\ processed' = processed \cup {<<c.function, c.header>>}
           /\ pending' = Group(c)
    BY DEF SelectLoop
  <1>2. UNCHANGED program /\ alternatives' = {} /\ phase' = "evaluate"
    BY DEF SelectLoop, audit
  <1>3. Types
    BY DEF LoopInv
  <1>4. /\ c \in Candidate /\ c.loop_id \in DOMAIN program[c.function]
        /\ program[c.function][c.loop_id].header = c.header
        /\ <<c.function, c.header>> \notin processed
    BY <1>1, <1>3, CandidateFacts DEF First, Unprocessed
  <1>5. ASSUME NEW b \in Raced'
        PROVE  /\ b \in [cand : Candidate, vf : SlpLanes \cup {1}]
               /\ b.cand \in Candidates /\ b.cand.function = c.function
               /\ b.cand.header = c.header /\ b.cand.loop_id = c.loop_id
    <2>1. b \in Group(c)
      BY <1>1, <1>2 DEF Raced
    <2>2. PICK d \in Candidates : b = [cand |-> d, vf |-> 1] /\ d.function = c.function
                                  /\ d.header = c.header /\ d.loop_id = c.loop_id
      BY <2>1 DEF Group
    <2>3. d \in Candidate
      BY <1>3, CandidateFacts
    <2> QED BY <2>2, <2>3
  <1>6. Types'
    <2>1. pending' \subseteq [cand : Candidate, vf : SlpLanes \cup {1}]
      BY <1>5 DEF Raced
    <2> QED BY <1>2, <1>3, <2>1 DEF Types
  <1>7. HeadersApart' /\ RewrittenWereTried' /\ EntryLoopsStay' /\ DoneIsDone'
    BY <1>1, <1>2 DEF LoopInv, HeadersApart, RewrittenWereTried, EntryLoopsStay, DoneIsDone, Tried
  <1>8. OneLoop'
    <2>1. ~program[c.function][c.loop_id].unrolled
      <3>1. ~Tried(c.function, c.loop_id) /\ c.function \in Functions0
        BY <1>4 DEF Tried, Candidate
      <3> QED BY <1>4, <3>1 DEF LoopInv, RewrittenWereTried
    <2>2. ASSUME NEW a \in Raced', NEW b \in Raced'
          PROVE  b.cand = [a.cand EXCEPT !.factor = b.cand.factor]
      <3> DEFINE x == a.cand  y == b.cand
      <3>1. /\ x \in Candidates /\ y \in Candidates
            /\ x.function = y.function /\ x.header = y.header /\ x.loop_id = y.loop_id
        BY <1>5, <2>2
      <3> HIDE DEF x, y
      <3>2. x.full \in BOOLEAN /\ y.full \in BOOLEAN /\ (x.full <=> y.full)
        BY <1>3, <3>1, CandidateFacts DEF Candidate
      <3>3. /\ x = [function |-> x.function, loop_id |-> x.loop_id, header |-> x.header,
                    full |-> x.full, factor |-> x.factor]
            /\ y = [function |-> y.function, loop_id |-> y.loop_id, header |-> y.header,
                    full |-> y.full, factor |-> y.factor]
        BY <1>3, <3>1, CandidateFacts
      <3>4. y = [x EXCEPT !.factor = y.factor]
        BY <3>1, <3>2, <3>3
      <3> QED BY <3>4 DEF x, y
    <2> QED BY <1>1, <1>2, <1>4, <1>5, <2>1, <2>2 DEF OneLoop
  <1> QED BY <1>6, <1>7, <1>8 DEF LoopInv

\* Nothing is left to try.
LEMMA FinishLoops ==
    ASSUME LoopInv, Finish
    PROVE  LoopInv'
  <1>1. /\ UNCHANGED <<program, processed, pending, alternatives>>
        /\ phase = "select" /\ phase' = "done" /\ Unprocessed = {}
    BY DEF Finish, audit
  <1>2. DoneIsDone'
    <2> SUFFICES ASSUME NEW f \in Functions0, NEW i \in DOMAIN program[f],
                        program[f][i].kind # "opaque"
                 PROVE  Tried(f, i)
      BY <1>1 DEF DoneIsDone, Tried
    <2>1. PICK c \in Candidates : c.function = f /\ c.header = program[f][i].header
      BY CandidateOfLoop DEF LoopInv
    <2> QED BY <1>1, <2>1 DEF Unprocessed, Tried
  <1>3. Types' /\ HeadersApart' /\ RewrittenWereTried' /\ EntryLoopsStay' /\ OneLoop'
    BY <1>1 DEF LoopInv, Types, HeadersApart, RewrittenWereTried, EntryLoopsStay, OneLoop,
                Tried, Raced
  <1> QED BY <1>2, <1>3 DEF LoopInv

\* Evaluation moves alternatives of the raced loop about.
LEMMA EvaluateLoops ==
    ASSUME LoopInv, NEW a \in pending, Discard(a) \/ TurnDown(a) \/ Keep(a)
    PROVE  LoopInv'
  <1>1. /\ UNCHANGED <<program, processed, phase>> /\ phase = "evaluate"
        /\ \/ pending' = pending \ {a}
           \/ \E found \in Found(a) : pending' = (pending \ {a}) \cup found
        /\ \/ UNCHANGED alternatives
           \/ \E charge \in ChargesOf(a) :
                 alternatives' = alternatives \cup
                     {[cand |-> a.cand, vf |-> a.vf, charge |-> charge]}
    BY DEF Discard, TurnDown, Keep, Evaluating, audit, Audit!Record
  <1>2. a.cand \in Candidate /\ a.vf \in SlpLanes \cup {1} /\ a \in Raced
    BY DEF LoopInv, Types, Raced
  <1>3. ASSUME NEW b \in pending'
        PROVE  /\ b \in [cand : Candidate, vf : SlpLanes \cup {1}]
               /\ b \in pending \/ b.cand = a.cand
    <2>1. CASE b \in pending
      BY <2>1 DEF LoopInv, Types
    <2>2. CASE b \notin pending
      <3>1. b \in Combined(a)
        BY <1>1, <1>3, <2>2 DEF Found
      <3> QED BY <1>2, <3>1 DEF Combined
    <2> QED BY <2>1, <2>2
  <1>4. ASSUME NEW b \in alternatives'
        PROVE  /\ b \in [cand : Candidate, vf : SlpLanes \cup {1}, charge : Charges]
               /\ b \in alternatives \/ b.cand = a.cand
    <2>1. CASE b \in alternatives
      BY <2>1 DEF LoopInv, Types
    <2>2. CASE b \notin alternatives
      <3>1. PICK charge \in Charges : b = [cand |-> a.cand, vf |-> a.vf, charge |-> charge]
        BY <1>1, <1>4, <2>2 DEF ChargesOf
      <3> QED BY <1>2, <3>1
    <2> QED BY <2>1, <2>2
  <1>5. \A b \in Raced' : \E x \in Raced : b.cand = x.cand
    BY <1>2, <1>3, <1>4 DEF Raced
  <1>6. /\ pending' \subseteq [cand : Candidate, vf : SlpLanes \cup {1}]
        /\ alternatives' \subseteq [cand : Candidate, vf : SlpLanes \cup {1}, charge : Charges]
    BY <1>3, <1>4
  <1> QED BY <1>1, <1>5, <1>6, RacingKeepsLoops

LEMMA DecideLoops ==
    ASSUME LoopInv, FrontierError \/ Skip \/ Lose
    PROVE  LoopInv'
  <1>1. /\ UNCHANGED <<program, processed, pending>> /\ alternatives' \subseteq alternatives
        /\ phase' \in {"evaluate", "error"} \/ (phase' = "select" /\ Raced' = {})
    <2>1. CASE FrontierError
      BY <2>1 DEF FrontierError, audit
    <2>2. CASE Skip
      BY <2>2 DEF Skip, Deciding, audit, Raced
    <2>3. CASE Lose
      BY <2>3 DEF Lose, Deciding, Audit!Record
    <2> QED BY <2>1, <2>2, <2>3
  <1>2. /\ pending' \subseteq [cand : Candidate, vf : SlpLanes \cup {1}]
        /\ alternatives' \subseteq [cand : Candidate, vf : SlpLanes \cup {1}, charge : Charges]
    BY <1>1 DEF LoopInv, Types
  <1>3. Raced' \subseteq Raced
    BY <1>1 DEF Raced
  <1> QED BY <1>1, <1>2, <1>3, RacingKeepsLoops

\* The raced loop, tried by now, is dropped or marked; every other one stays.
LEMMA PublishLoops ==
    ASSUME LoopInv, Publish
    PROVE  LoopInv'
  <1>1. PICK a \in alternatives, kind \in Kinds, verdict \in {"ok", "compiler"} :
           Audit!Transact(Key(a), a.charge, "accepted", Unrolled(a.cand, kind), verdict)
    BY DEF Publish
  <1>2. /\ UNCHANGED processed /\ pending' = {} /\ alternatives' = {}
        /\ Raced' = {} /\ phase' = "select"
    BY DEF Publish, Deciding, Raced
  <1> DEFINE f == a.cand.function  p == a.cand.loop_id  s == program[f]
             new == Unrolled(a.cand, kind)
  <1>3. a \in Raced /\ f \in Functions0 /\ p \in DOMAIN s /\ s \in Seq(Loop)
        /\ s[p].header = a.cand.header /\ Tried(f, p)
    BY DEF LoopInv, Types, OneLoop, Raced, Candidate, Tried
  <1>4. /\ new \in [Functions0 -> Seq(Loop)]
        /\ \A g \in Functions0 : g # f => new[g] = program[g]
        /\ Rewritten(s, new[f], p, a.cand.full)
    BY <1>3, RewriteFacts
  <1> HIDE DEF f, p, s, new
  <1> DEFINE old == [i \in Nat |-> Before(i, p, a.cand.full)]
  <1>5. DOMAIN new[f] \subseteq Nat /\ DOMAIN s \subseteq Nat
    BY <1>3, <1>4
  <1>6. ASSUME NEW i \in DOMAIN new[f]
        PROVE  /\ old[i] \in DOMAIN s /\ new[f][i].header = s[old[i]].header
               /\ old[i] # p => new[f][i] = s[old[i]]
    BY <1>3, <1>4, <1>5, BeforeFacts
  <1>7. \A j \in DOMAIN s : j # p => \E i \in DOMAIN new[f] : old[i] = j
    BY <1>3, <1>4, <1>5, BeforeFacts
  <1>8. \A i, j \in DOMAIN new[f] : old[i] = old[j] => i = j
    BY <1>3, <1>4, <1>5, BeforeFacts
  <1> HIDE DEF old
  <1>9. CASE program' = program
    BY <1>2, <1>9, RacingKeepsLoops
  <1>10. CASE program' = new
    <2>1. Types' /\ DoneIsDone' /\ OneLoop'
      BY <1>2, <1>4, <1>10 DEF Types, DoneIsDone, OneLoop
    <2>2. HeadersApart'
      <3> SUFFICES ASSUME NEW g \in Functions0, NEW i \in DOMAIN new[g], NEW j \in DOMAIN new[g],
                          new[g][i].header = new[g][j].header
                   PROVE  i = j
        BY <1>10 DEF HeadersApart
      <3>1. CASE g # f
        BY <1>4, <3>1 DEF LoopInv, HeadersApart
      <3>2. CASE g = f
        <4>1. /\ old[i] \in DOMAIN program[f] /\ old[j] \in DOMAIN program[f]
              /\ program[f][old[i]].header = program[f][old[j]].header
          BY <1>6, <3>2 DEF s
        <4>2. old[i] = old[j]
          BY <1>3, <4>1 DEF LoopInv, HeadersApart
        <4> QED BY <1>8, <3>2, <4>2
      <3> QED BY <3>1, <3>2
    <2>3. RewrittenWereTried'
      <3> SUFFICES ASSUME NEW g \in Functions0, NEW i \in DOMAIN new[g], new[g][i].unrolled
                   PROVE  <<g, new[g][i].header>> \in processed
        BY <1>2, <1>10 DEF RewrittenWereTried, Tried
      <3>1. CASE g # f
        BY <1>4, <3>1 DEF LoopInv, RewrittenWereTried, Tried
      <3>2. CASE g = f /\ old[i] = p
        <4>1. new[f][i].header = s[p].header
          BY <1>6, <3>2
        <4> QED BY <1>3, <3>2, <4>1 DEF Tried, s
      <3>3. CASE g = f /\ old[i] # p
        <4>1. old[i] \in DOMAIN program[f] /\ new[f][i] = program[f][old[i]]
          BY <1>6, <3>3 DEF s
        <4> QED BY <1>3, <3>3, <4>1 DEF LoopInv, RewrittenWereTried, Tried
      <3> QED BY <3>1, <3>2, <3>3
    <2>4. EntryLoopsStay'
      <3> SUFFICES ASSUME NEW g \in Functions0, NEW i \in DOMAIN Loops0[g],
                          Loops0[g][i].kind # "opaque",
                          <<g, Loops0[g][i].header>> \notin processed
                   PROVE  \E j \in DOMAIN new[g] : new[g][j].header = Loops0[g][i].header
                                                   /\ new[g][j].kind # "opaque"
        BY <1>2, <1>10 DEF EntryLoopsStay
      <3>1. PICK j \in DOMAIN program[g] : program[g][j].header = Loops0[g][i].header
                                           /\ program[g][j].kind # "opaque"
        BY DEF LoopInv, EntryLoopsStay
      <3>2. CASE g # f
        BY <1>4, <3>1, <3>2
      <3>3. CASE g = f
        <4>1. j # p
          BY <1>3, <3>1, <3>3 DEF Tried, s
        <4>2. PICK k \in DOMAIN new[f] : old[k] = j
          BY <1>7, <3>1, <3>3, <4>1 DEF s
        <4>3. new[f][k] = s[j]
          BY <1>6, <4>1, <4>2
        <4> QED BY <3>1, <3>3, <4>3 DEF s
      <3> QED BY <3>2, <3>3
    <2> QED BY <2>1, <2>2, <2>3, <2>4 DEF LoopInv
  <1>11. program' = program \/ program' = new
    BY <1>1, TransactMoves DEF new
  <1> QED BY <1>9, <1>10, <1>11

LEMMA NextLoops == LoopInv /\ [Next]_vars => LoopInv'
  <1> SUFFICES ASSUME LoopInv, [Next]_vars PROVE LoopInv'
    OBVIOUS
  <1>1. CASE UNCHANGED vars
    <2>1. UNCHANGED <<program, processed, pending, alternatives, phase>>
      BY <1>1 DEF vars
    <2>2. Raced' = Raced
      BY <2>1 DEF Raced
    <2>3. Types' /\ OneLoop'
      BY <2>1, <2>2 DEF LoopInv, Types, OneLoop
    <2>4. HeadersApart' /\ RewrittenWereTried' /\ EntryLoopsStay' /\ DoneIsDone'
      BY <2>1 DEF LoopInv, HeadersApart, RewrittenWereTried, EntryLoopsStay, DoneIsDone, Tried
    <2> QED BY <2>3, <2>4 DEF LoopInv
  <1> QED
    BY <1>1, SelectLoopLoops, FinishLoops, EvaluateLoops, DecideLoops, PublishLoops DEF Next

LEMMA LoopInvariant == Spec => []LoopInv
  BY InitLoops, NextLoops, PTL DEF Spec

\* However loop ids move, no loop is rewritten twice and no candidate of the entry
\* is forgotten (kir_pipeline.rs:2488, 2509-2516).
THEOREM EveryLoopTriedOnceHolds == Spec => []EveryLoopTriedOnce
  <1>1. ASSUME LoopInv PROVE EveryLoopTriedOnce
    <2>1. ASSUME NEW a \in pending, NEW i \in DOMAIN program[a.cand.function],
                 program[a.cand.function][i].header = a.cand.header
          PROVE  ~program[a.cand.function][i].unrolled
      <3>1. a \in Raced /\ a.cand.function \in Functions0
        BY <1>1 DEF LoopInv, Types, Raced, Candidate
      <3>2. i = a.cand.loop_id
        <4> DEFINE f == a.cand.function  p == a.cand.loop_id
        <4>1. /\ f \in Functions0 /\ i \in DOMAIN program[f] /\ p \in DOMAIN program[f]
              /\ program[f][i].header = program[f][p].header
          BY <1>1, <2>1, <3>1 DEF LoopInv, OneLoop
        <4> HIDE DEF f, p
        <4>2. i = p
          BY <1>1, <4>1 DEF LoopInv, HeadersApart
        <4> QED BY <4>2 DEF p
      <3> QED BY <1>1, <3>1, <3>2 DEF LoopInv, OneLoop
    <2>2. ASSUME phase = "done", NEW f \in Functions0, NEW i \in DOMAIN Loops0[f],
                 Loops0[f][i].kind # "opaque"
          PROVE  <<f, Loops0[f][i].header>> \in processed
      BY <1>1, <2>2 DEF LoopInv, EntryLoopsStay, DoneIsDone, Tried
    <2> QED BY <2>1, <2>2 DEF EveryLoopTriedOnce
  <1> QED BY <1>1, LoopInvariant, PTL

-----------------------------------------------------------------------------
(* The frontier implements the verified transaction. *)

AuditProofs == INSTANCE OptimizationAuditProofs
    WITH FunctionIds <- Functions0, Keys <- LoopFrontierKey, EntryProgram <- Loops0,
         Programs <- [Functions0 -> Seq(Loop)], Verified <- [Functions0 -> Seq(Loop)]

LEMMA AuditAssumed == AuditProofs!AuditAssumption
  BY FrontierAssumption, WorkAssumption
  DEF AuditProofs!AuditAssumption, AuditProofs!Charge, AuditProofs!Work

\* What is raced is audited under a key of the frontier.
LEMMA KeyTyped ==
    ASSUME LoopInv, NEW a \in Raced
    PROVE  Key(a) \in LoopFrontierKey
  <1>1. a.cand \in Candidate /\ a.vf \in SlpLanes \cup {1}
    BY DEF LoopInv, Types, Raced
  <1> QED BY <1>1 DEF Candidate, Key, LoopFrontierKey

LEMMA StepImplements == LoopInv /\ [Next]_vars => [Audit!Next]_(Audit!vars)
  <1> SUFFICES ASSUME LoopInv, [Next]_vars PROVE [Audit!Next]_(Audit!vars)
    OBVIOUS
  <1>1. CASE UNCHANGED audit
    BY <1>1 DEF audit, Audit!vars
  <1>2. ASSUME NEW a \in Raced, NEW charge \in Charges, NEW d \in {"rejected", "non-winner"},
               Audit!Record(Key(a), charge, d)
        PROVE  Audit!Next
    <2>1. d \in Audit!NonCommitting
      BY DEF Audit!NonCommitting
    <2> QED BY <1>2, <2>1, KeyTyped DEF Audit!Next
  <1>3. ASSUME NEW a \in Raced, NEW charge \in Charges, NEW kind \in Kinds,
               NEW verdict \in {"ok", "compiler"},
               Audit!Transact(Key(a), charge, "accepted", Unrolled(a.cand, kind), verdict)
        PROVE  Audit!Next
    <2>1. Unrolled(a.cand, kind) \in [Functions0 -> Seq(Loop)] /\ Key(a) \in LoopFrontierKey
      BY RewriteFacts, KeyTyped
    <2> QED BY <1>3, <2>1 DEF Audit!Next
  <1>4. ASSUME NEW a \in pending, Discard(a) \/ TurnDown(a)
        PROVE  Audit!Next
    <2>1. a \in Raced
      BY DEF Raced
    <2>2. PICK charge \in Charges : Audit!Record(Key(a), charge, "rejected")
      BY <1>4 DEF Discard, TurnDown, ChargesOf
    <2> QED BY <1>2, <2>1, <2>2
  <1>5. CASE Lose
    <2>1. PICK a \in alternatives : Audit!Record(Key(a), a.charge, "non-winner")
      BY <1>5 DEF Lose
    <2>2. a \in Raced /\ a.charge \in Charges
      BY DEF Raced, LoopInv, Types
    <2> QED BY <1>2, <2>1, <2>2
  <1>6. CASE Publish
    <2>1. PICK a \in alternatives, kind \in Kinds, verdict \in {"ok", "compiler"} :
             Audit!Transact(Key(a), a.charge, "accepted", Unrolled(a.cand, kind), verdict)
      BY <1>6 DEF Publish
    <2>2. a \in Raced /\ a.charge \in Charges
      BY DEF Raced, LoopInv, Types
    <2> QED BY <1>3, <2>1, <2>2
  <1>7. UNCHANGED audit \/ (\E a \in pending : Discard(a) \/ TurnDown(a)) \/ Lose \/ Publish
    BY DEF Next, vars, audit, SelectLoop, Finish, Keep, FrontierError, Skip
  <1> QED BY <1>1, <1>4, <1>5, <1>6, <1>7

\* Every run of the frontier is one of the verified transaction: whatever it
\* rewrites went through a charge, a log entry and a revalidation
\* (kir_pipeline.rs:2729-2785, transaction.rs).
THEOREM FrontierImplementsAudit == Spec => Audit!Spec
  <1>1. Init => Audit!Init
    BY DEF Init
  <1> QED BY <1>1, StepImplements, LoopInvariant, PTL DEF Spec, Audit!Spec

\* The two instances of the transaction are one.
LEMMA SameAudit ==
    /\ Audit!Init <=> AuditProofs!Init
    /\ [Audit!Next]_(Audit!vars) <=> [AuditProofs!Next]_(AuditProofs!vars)
  <1>1. ASSUME NEW key, NEW charge
        PROVE  /\ Audit!CanDebit(charge) <=> AuditProofs!CanDebit(charge)
               /\ Audit!Debited(charge) = AuditProofs!Debited(charge)
               /\ Audit!AuditedKeys = AuditProofs!AuditedKeys
               /\ \A d : Audit!AppendAttempt(key, charge, d)
                           <=> AuditProofs!AppendAttempt(key, charge, d)
    BY DEF Audit!CanDebit, AuditProofs!CanDebit, Audit!Debited, AuditProofs!Debited,
           Audit!ChargedOwners, AuditProofs!ChargedOwners, Audit!Charged, AuditProofs!Charged,
           Audit!AuditedKeys, AuditProofs!AuditedKeys,
           Audit!AppendAttempt, AuditProofs!AppendAttempt
  <1>2. ASSUME NEW key, NEW charge
        PROVE  \A d : Audit!Record(key, charge, d) <=> AuditProofs!Record(key, charge, d)
    BY <1>1 DEF Audit!Record, AuditProofs!Record
  <1>3. ASSUME NEW key, NEW charge
        PROVE  \A success, trial, verdict :
                  Audit!Transact(key, charge, success, trial, verdict)
                    <=> AuditProofs!Transact(key, charge, success, trial, verdict)
    <2>1. /\ Audit!DuplicateKey(key) <=> AuditProofs!DuplicateKey(key)
          /\ Audit!Exhaust(key, charge) <=> AuditProofs!Exhaust(key, charge)
          /\ Audit!Reject(key, charge) <=> AuditProofs!Reject(key, charge)
          /\ Audit!Abort(key, charge) <=> AuditProofs!Abort(key, charge)
          /\ \A success, trial : Audit!Commit(key, charge, success, trial)
                                   <=> AuditProofs!Commit(key, charge, success, trial)
      BY <1>1 DEF Audit!DuplicateKey, AuditProofs!DuplicateKey, Audit!Exhaust,
                  AuditProofs!Exhaust, Audit!Reject, AuditProofs!Reject, Audit!Abort,
                  AuditProofs!Abort, Audit!Commit, AuditProofs!Commit, Audit!Charging,
                  AuditProofs!Charging, Audit!audit, AuditProofs!audit
    <2> QED BY <2>1 DEF Audit!Transact, AuditProofs!Transact
  <1>4. \A clone, original :
            Audit!RegisterClone(clone, original) <=> AuditProofs!RegisterClone(clone, original)
    BY DEF Audit!RegisterClone, AuditProofs!RegisterClone
  <1>5. Audit!Next <=> AuditProofs!Next
    BY <1>2, <1>3, <1>4 DEF Audit!Next, AuditProofs!Next, Audit!NonCommitting,
                            AuditProofs!NonCommitting
  <1> QED BY <1>5 DEF Audit!Init, AuditProofs!Init, Audit!vars, AuditProofs!vars

\* Its log and budgets keep their types.
LEMMA FrontierAudit == Spec => [](AuditProofs!Inv /\ AuditProofs!Ledger)
  <1>1. Init => AuditProofs!Inv /\ AuditProofs!Ledger
    BY SameAudit, AuditAssumed, AuditProofs!InitInv, AuditProofs!InitLedger DEF Init
  <1>2. LoopInv /\ AuditProofs!Inv /\ AuditProofs!Ledger /\ [Next]_vars
           => (AuditProofs!Inv /\ AuditProofs!Ledger)'
    BY StepImplements, SameAudit, AuditAssumed, AuditProofs!NextInv, AuditProofs!NextLedger
  <1> QED BY <1>1, <1>2, LoopInvariant, PTL DEF Spec

\* What the frontier tried, lost and published is all that its functions paid for.
THEOREM FrontierLedgerBalances == Spec => []Audit!LedgerBalance
  <1>1. AuditProofs!Inv /\ AuditProofs!Ledger => Audit!LedgerBalance
    <2>1. AuditProofs!LedgerBalance <=> Audit!LedgerBalance
      BY DEF AuditProofs!LedgerBalance, Audit!LedgerBalance, AuditProofs!Spent, Audit!Spent,
             AuditProofs!Cost, Audit!Cost, AuditProofs!ChargedOwners, Audit!ChargedOwners,
             AuditProofs!Charged, Audit!Charged
    <2> QED BY <2>1, AuditAssumed, AuditProofs!LedgerIsBalance
  <1> QED BY <1>1, FrontierAudit, PTL

-----------------------------------------------------------------------------
(* No key is repeated. *)

\* The hypothesis: no two fully unrollable loops are neighbours at the entry.
FullLoopsApart ==
    \A f \in Functions0 : \A i \in DOMAIN Loops0[f] :
        i + 1 \in DOMAIN Loops0[f] /\ Loops0[f][i].kind = "full"
            => Loops0[f][i + 1].kind # "full"

\* Audited keys are keys of the frontier.
LEMMA AuditedTyped == AuditProofs!Inv => Audit!AuditedKeys \subseteq LoopFrontierKey
  <1> SUFFICES ASSUME AuditProofs!Inv, NEW i \in DOMAIN attempts
               PROVE  attempts[i].key \in LoopFrontierKey
    BY DEF Audit!AuditedKeys
  <1>1. attempts \in Seq(AuditProofs!Attempt)
    BY DEF AuditProofs!Inv
  <1>2. attempts[i] \in AuditProofs!Attempt
    BY <1>1
  <1> QED BY <1>2 DEF AuditProofs!Attempt

\* The log gains the key of the attempt and no other.
LEMMA AppendedKeys ==
    ASSUME AuditProofs!Inv, NEW key, NEW entry,
           attempts' = Append(attempts, entry), entry.key = key
    PROVE  Audit!AuditedKeys' = Audit!AuditedKeys \cup {key}
  <1>1. attempts \in Seq(AuditProofs!Attempt)
    BY DEF AuditProofs!Inv
  <1>2. /\ DOMAIN attempts' = 1 .. Len(attempts) + 1 /\ DOMAIN attempts = 1 .. Len(attempts)
        /\ Len(attempts) \in Nat
        /\ \A i \in DOMAIN attempts : attempts'[i] = attempts[i]
        /\ attempts'[Len(attempts) + 1] = entry
    BY <1>1
  <1>3. ASSUME NEW k PROVE k \in Audit!AuditedKeys' <=> k \in Audit!AuditedKeys \cup {key}
    <2>1. k \in Audit!AuditedKeys' <=> \E i \in DOMAIN attempts' : k = attempts'[i].key
      BY DEF Audit!AuditedKeys
    <2>2. k \in Audit!AuditedKeys <=> \E i \in DOMAIN attempts : k = attempts[i].key
      BY DEF Audit!AuditedKeys
    <2>3. DOMAIN attempts' = DOMAIN attempts \cup {Len(attempts) + 1}
      BY <1>2
    <2> QED BY <1>2, <2>1, <2>2, <2>3
  <1> QED BY <1>3

LEMMA RecordKeys ==
    ASSUME AuditProofs!Inv, NEW key, NEW charge, NEW d, Audit!Record(key, charge, d)
    PROVE  Audit!AuditedKeys' \subseteq Audit!AuditedKeys \cup {key} /\ (failed => failed')
  <1>1. CASE UNCHANGED attempts
    BY <1>1 DEF Audit!AuditedKeys, Audit!Record
  <1>2. CASE attempts' # attempts
    <2> DEFINE e == IF Audit!CanDebit(charge) THEN d ELSE "budget-exhausted"
               entry == [key |-> key, disposition |-> e, charge |-> charge]
    <2>1. attempts' = Append(attempts, entry) /\ ~failed
      BY <1>2 DEF Audit!Record, Audit!AppendAttempt
    <2>2. entry.key = key
      OBVIOUS
    <2> HIDE DEF entry
    <2> QED BY <2>1, <2>2, AppendedKeys
  <1> QED BY <1>1, <1>2

LEMMA TransactKeys ==
    ASSUME AuditProofs!Inv, NEW key, NEW charge, NEW success, NEW trial, NEW verdict,
           Audit!Transact(key, charge, success, trial, verdict)
    PROVE  Audit!AuditedKeys' \subseteq Audit!AuditedKeys \cup {key}
  <1>1. \/ UNCHANGED attempts
        \/ \E d : attempts' = Append(attempts, [key |-> key, disposition |-> d,
                                                charge |-> charge])
    BY DEF Audit!Transact, Audit!DuplicateKey, Audit!audit, Audit!Exhaust, Audit!Reject,
           Audit!Abort, Audit!Commit, Audit!AppendAttempt
  <1>2. CASE UNCHANGED attempts
    BY <1>2 DEF Audit!AuditedKeys
  <1>3. CASE attempts' # attempts
    <2>1. PICK d : attempts' = Append(attempts, [key |-> key, disposition |-> d,
                                                 charge |-> charge])
      BY <1>1, <1>3
    <2> DEFINE entry == [key |-> key, disposition |-> d, charge |-> charge]
    <2>2. attempts' = Append(attempts, entry) /\ entry.key = key
      BY <2>1
    <2> HIDE DEF entry
    <2> QED BY <2>2, AppendedKeys
  <1> QED BY <1>2, <1>3

\* What is raced agrees in all but factor and width.
LEMMA RacedFacts ==
    ASSUME LoopInv, NEW a \in Raced, NEW b \in Raced
    PROVE  /\ a.cand \in Candidate /\ a.vf \in SlpLanes \cup {1}
           /\ b.cand.function = a.cand.function /\ b.cand.loop_id = a.cand.loop_id
           /\ b.cand.full = a.cand.full /\ b.cand.header = a.cand.header
           /\ Tried(a.cand.function, a.cand.loop_id)
  <1>1. a.cand \in Candidate /\ a.vf \in SlpLanes \cup {1}
    BY DEF LoopInv, Types, Raced
  <1>2. b.cand = [a.cand EXCEPT !.factor = b.cand.factor]
    BY DEF LoopInv, OneLoop
  <1>3. Tried(a.cand.function, a.cand.loop_id)
    BY DEF LoopInv, OneLoop, Tried
  <1> DEFINE x == a.cand  y == b.cand
  <1>4. x \in Candidate /\ y = [x EXCEPT !.factor = y.factor]
    BY <1>1, <1>2
  <1> HIDE DEF x, y
  <1>5. y.function = x.function /\ y.loop_id = x.loop_id /\ y.full = x.full
        /\ y.header = x.header
    BY <1>4 DEF Candidate
  <1> QED BY <1>1, <1>3, <1>5 DEF x, y

\* Auditing a raced alternative keeps the place of every key.
LEMMA LoggingKeepsPlaces ==
    ASSUME LoopInv, KeyInv, UNCHANGED <<program, processed>>,
           \A k \in Audit!AuditedKeys' :
               k \in Audit!AuditedKeys \/ \E a \in Raced : k = Key(a),
           \A b \in Raced' : \E a \in Raced : b.cand = a.cand
    PROVE  RacedIsFirst' /\ KeysBehind' /\ FullApart'
  <1>1. FullApart'
    BY DEF KeyInv, FullApart, Tried
  <1>2. ASSUME NEW a \in Raced
        PROVE  /\ Key(a).function = a.cand.function /\ Key(a).loop_id = a.cand.loop_id
               /\ Key(a).kind = IF a.cand.full THEN "full" ELSE "partial"
    BY DEF Key
  <1>3. KeysBehind'
    <2> SUFFICES ASSUME NEW k \in Audit!AuditedKeys', NEW i \in DOMAIN program[k.function],
                        ~Tried(k.function, i), program[k.function][i].kind # "opaque"
                 PROVE  \/ k.loop_id < i
                        \/ /\ k.loop_id = i /\ k.kind = "full"
                           /\ program[k.function][i].kind # "full"
      BY DEF KeysBehind, Tried
    <2>1. CASE k \in Audit!AuditedKeys
      BY <2>1 DEF KeyInv, KeysBehind
    <2>2. ASSUME NEW a \in Raced, k = Key(a)
          PROVE  k.loop_id < i
      <3> DEFINE f == a.cand.function  p == a.cand.loop_id
      <3>1. k.function = f /\ k.loop_id = p /\ f \in Functions0 /\ p \in Nat /\ Tried(f, p)
        BY <1>2, <2>2, RacedFacts DEF Candidate
      <3>2. \A j \in 1 .. p - 1 : Tried(f, j) \/ program[f][j].kind = "opaque"
        BY DEF KeyInv, RacedIsFirst
      <3> HIDE DEF f, p
      <3>3. i \in Nat /\ i >= 1
        <4>1. program[f] \in Seq(Loop)
          BY <3>1 DEF LoopInv, Types
        <4> QED BY <3>1, <4>1
      <3> QED BY <3>1, <3>2, <3>3
    <2> QED BY <2>1, <2>2
  <1>4. RacedIsFirst'
    <2> SUFFICES ASSUME NEW b \in Raced'
                 PROVE
        LET f == b.cand.function  p == b.cand.loop_id
        IN  /\ \A i \in 1 .. p - 1 : Tried(f, i) \/ program[f][i].kind = "opaque"
            /\ \A k \in Audit!AuditedKeys' : k.function = f =>
                  k.loop_id <= p /\ (k.loop_id = p /\ b.cand.full => k.kind = "full")
            /\ b.cand.full /\ p + 1 \in DOMAIN program[f] /\ ~Tried(f, p + 1) =>
                  program[f][p + 1].kind # "full"
      BY DEF RacedIsFirst, Tried
    <2>1. PICK a \in Raced : b.cand = a.cand
      OBVIOUS
    <2> DEFINE f == a.cand.function  p == a.cand.loop_id
    <2>2. /\ \A i \in 1 .. p - 1 : Tried(f, i) \/ program[f][i].kind = "opaque"
          /\ \A k \in Audit!AuditedKeys : k.function = f =>
                k.loop_id <= p /\ (k.loop_id = p /\ a.cand.full => k.kind = "full")
          /\ a.cand.full /\ p + 1 \in DOMAIN program[f] /\ ~Tried(f, p + 1) =>
                program[f][p + 1].kind # "full"
      BY DEF KeyInv, RacedIsFirst
    <2>3. ASSUME NEW x \in Raced
          PROVE  Key(x).loop_id = p /\ p \in Nat /\ (a.cand.full => Key(x).kind = "full")
      BY <1>2, RacedFacts DEF Candidate
    <2>4. ASSUME NEW k \in Audit!AuditedKeys', k.function = f
          PROVE  k.loop_id <= p /\ (k.loop_id = p /\ a.cand.full => k.kind = "full")
      <3> HIDE DEF f, p
      <3>1. CASE k \in Audit!AuditedKeys
        BY <2>2, <2>4, <3>1
      <3>2. CASE \E x \in Raced : k = Key(x)
        BY <2>3, <3>2
      <3> QED BY <3>1, <3>2
    <2> QED BY <2>1, <2>2, <2>4
  <1> QED BY <1>1, <1>3, <1>4

\* Keys of raced alternatives differ as factor or width do.
LEMMA KeysDiffer ==
    ASSUME LoopInv, KeysApart, NEW a \in Raced, NEW b \in Raced, Key(a) = Key(b)
    PROVE  a = b
  <1>1. a.vf = b.vf /\ a.cand.factor = b.cand.factor
    BY DEF Key
  <1> QED BY <1>1 DEF KeysApart

\* Fewer alternatives: what is gone may have been audited.
LEMMA FewerKeepKeys ==
    ASSUME LoopInv, KeyInv, UNCHANGED <<program, processed>>,
           pending' \subseteq pending, alternatives' \subseteq alternatives,
           failed => failed',
           \A k \in Audit!AuditedKeys' :
               k \in Audit!AuditedKeys \/ \E a \in Raced \ Raced' : k = Key(a)
    PROVE  KeyInv'
  <1>1. Raced' \subseteq Raced
    BY DEF Raced
  <1>2. RacedIsFirst' /\ KeysBehind' /\ FullApart'
    BY <1>1, LoggingKeepsPlaces
  <1>3. KeysAreFresh'
    <2> SUFFICES ASSUME ~failed, NEW b \in Raced', Key(b) \in Audit!AuditedKeys' PROVE FALSE
      BY DEF KeysAreFresh, Raced, Key
    <2>1. Key(b) \notin Audit!AuditedKeys
      BY <1>1 DEF KeyInv, KeysAreFresh, Raced
    <2>2. PICK a \in Raced \ Raced' : Key(b) = Key(a)
      BY <2>1
    <2> QED BY <1>1, <2>2, KeysDiffer DEF KeyInv
  <1>4. KeysApart'
    <2>1. \A a, b \in Raced' : a.cand.factor = b.cand.factor /\ a.vf = b.vf => a = b
      BY <1>1 DEF KeyInv, KeysApart
    <2>2. ASSUME NEW a \in pending', a.vf = 1
          PROVE  /\ \A b \in Raced' : b.cand.factor = a.cand.factor => b = a
                 /\ \A k \in Audit!AuditedKeys' :
                       k.function = a.cand.function /\ k.loop_id = a.cand.loop_id
                         /\ k.kind = Key(a).kind => k.uf # a.cand.factor
      <3>1. a \in pending
        OBVIOUS
      <3>2. \A b \in Raced : b.cand.factor = a.cand.factor => b = a
        BY <2>2, <3>1 DEF KeyInv, KeysApart
      <3>3. ASSUME NEW k \in Audit!AuditedKeys', k.function = a.cand.function,
                   k.loop_id = a.cand.loop_id, k.kind = Key(a).kind
            PROVE  k.uf # a.cand.factor
        <4>1. CASE k \in Audit!AuditedKeys
          BY <2>2, <3>1, <3>3, <4>1 DEF KeyInv, KeysApart
        <4>2. ASSUME NEW b \in Raced \ Raced', k = Key(b)
              PROVE  k.uf # a.cand.factor
          <5>1. k.uf = b.cand.factor /\ a \in Raced'
            BY <4>2 DEF Key, Raced
          <5> QED BY <3>2, <5>1
        <4> QED BY <4>1, <4>2
      <3> QED BY <1>1, <3>2, <3>3
    <2> QED BY <2>1, <2>2 DEF KeysApart, Key
  <1> QED BY <1>2, <1>3, <1>4 DEF KeyInv

\* What waits and what was accepted are told apart by the charge.
LEMMA PendingApart == LoopInv => pending \cap alternatives = {}
  <1> SUFFICES ASSUME LoopInv, NEW a \in pending, a \in alternatives PROVE FALSE
    OBVIOUS
  <1>1. a \in [cand : Candidate, vf : SlpLanes \cup {1}]
        /\ a \in [cand : Candidate, vf : SlpLanes \cup {1}, charge : Charges]
    BY DEF LoopInv, Types
  <1>2. DOMAIN a = {"cand", "vf"} /\ DOMAIN a = {"cand", "vf", "charge"}
    BY <1>1
  <1> QED BY <1>2

\* An alternative makes room for itself with a charge, for what was found on top of
\* it, or both.
LEMMA FoundKeepKeys ==
    ASSUME LoopInv, KeyInv, UNCHANGED <<program, processed>>, failed => failed',
           NEW a \in pending, NEW found \in Found(a), NEW copy,
           copy.cand = a.cand, copy.vf = a.vf,
           pending' = (pending \ {a}) \cup found,
           \/ /\ alternatives' = alternatives
              /\ Audit!AuditedKeys' \subseteq Audit!AuditedKeys \cup {Key(a)}
           \/ /\ alternatives' = alternatives \cup {copy}
              /\ Audit!AuditedKeys' = Audit!AuditedKeys
    PROVE  KeyInv'
  <1>1. a \in Raced /\ a \notin alternatives /\ a.vf \in SlpLanes \cup {1}
    BY PendingApart DEF Raced, LoopInv, Types
  <1> DEFINE Child(x) == /\ a.vf = 1 /\ x.vf \in SlpLanes /\ x.vf # 1
                         /\ x = [cand |-> a.cand, vf |-> x.vf]
  <1>2. \A x \in found : Child(x)
    BY FrontierAssumption DEF Found, Combined
  <1>3. ASSUME NEW x \in Raced'
        PROVE  \/ x \in Raced \ {a}
               \/ x = copy /\ Audit!AuditedKeys' = Audit!AuditedKeys
               \/ x \in found
    BY <1>1 DEF Raced
  <1>4. ASSUME NEW x \in Raced, x # a
        PROVE  /\ ~(x.cand.factor = a.cand.factor /\ x.vf = a.vf)
               /\ a.vf = 1 => x.cand.factor # a.cand.factor
    BY <1>1, <1>4 DEF KeyInv, KeysApart
  <1>5. ASSUME NEW x \in found
        PROVE  x.cand = a.cand /\ x.vf # 1 /\ a.vf = 1
    BY <1>2
  <1>6. \A x \in found, y \in found : x.vf = y.vf => x = y
    BY <1>2
  <1> HIDE DEF Child
  <1>7. RacedIsFirst' /\ KeysBehind' /\ FullApart'
    <2>1. \A b \in Raced' : \E x \in Raced : b.cand = x.cand
      BY <1>1, <1>3, <1>5
    <2>2. \A k \in Audit!AuditedKeys' : k \in Audit!AuditedKeys \/ \E x \in Raced : k = Key(x)
      BY <1>1
    <2> QED BY <2>1, <2>2, LoggingKeepsPlaces
  <1>8. KeysAreFresh'
    <2> SUFFICES ASSUME ~failed, NEW x \in Raced', Key(x) \in Audit!AuditedKeys' PROVE FALSE
      BY DEF KeysAreFresh, Raced, Key
    <2>1. Key(x) \in Audit!AuditedKeys \/ Key(x) = Key(a)
      OBVIOUS
    <2>2. \A y \in Raced : Key(y) \notin Audit!AuditedKeys
      BY DEF KeyInv, KeysAreFresh, Raced
    <2>3. CASE x \in Raced \ {a}
      BY <1>1, <2>1, <2>2, <2>3, KeysDiffer DEF KeyInv
    <2>4. CASE x = copy /\ Audit!AuditedKeys' = Audit!AuditedKeys
      <3>1. Key(x) = Key(a)
        BY <2>4 DEF Key
      <3> QED BY <1>1, <2>2, <2>4, <3>1
    <2>5. CASE x \in found
      <3>1. /\ Key(x).function = a.cand.function /\ Key(x).loop_id = a.cand.loop_id
            /\ Key(x).kind = Key(a).kind /\ Key(x).uf = a.cand.factor
            /\ Key(x).vf # Key(a).vf
        BY <1>5, <2>5 DEF Key
      <3>2. Key(x) \notin Audit!AuditedKeys
        BY <1>5, <2>5, <3>1 DEF KeyInv, KeysApart
      <3> QED BY <2>1, <3>1, <3>2
    <2> QED BY <1>3, <2>3, <2>4, <2>5
  <1>9. KeysApart'
    <2>1. ASSUME NEW x \in Raced', NEW y \in Raced',
                 x.cand.factor = y.cand.factor, x.vf = y.vf
          PROVE  x = y
      <3>1. CASE x \in Raced \ {a} /\ y \in Raced \ {a}
        BY <2>1, <3>1 DEF KeyInv, KeysApart
      <3>2. CASE x \in Raced \ {a} /\ y \notin Raced \ {a}
        BY <1>3, <1>4, <1>5, <2>1, <3>2
      <3>3. CASE x \notin Raced \ {a} /\ y \in Raced \ {a}
        BY <1>3, <1>4, <1>5, <2>1, <3>3
      <3>4. CASE x \notin Raced \ {a} /\ y \notin Raced \ {a}
        BY <1>3, <1>5, <1>6, <2>1, <3>4
      <3> QED BY <3>1, <3>2, <3>3, <3>4
    <2>2. ASSUME NEW x \in pending', x.vf = 1
          PROVE  /\ \A b \in Raced' : b.cand.factor = x.cand.factor => b = x
                 /\ \A k \in Audit!AuditedKeys' :
                       k.function = x.cand.function /\ k.loop_id = x.cand.loop_id
                         /\ k.kind = Key(x).kind => k.uf # x.cand.factor
      <3>1. x \in pending /\ x # a /\ x \in Raced
        BY <1>5, <2>2 DEF Raced
      <3>2. a.cand.factor # x.cand.factor
        BY <1>1, <2>2, <3>1 DEF KeyInv, KeysApart
      <3>3. \A b \in Raced' : b.cand.factor = x.cand.factor => b = x
        BY <1>3, <1>5, <2>2, <3>1, <3>2 DEF KeyInv, KeysApart
      <3>4. Key(a).uf = a.cand.factor
        BY DEF Key
      <3>5. \A k \in Audit!AuditedKeys :
                k.function = x.cand.function /\ k.loop_id = x.cand.loop_id
                  /\ k.kind = Key(x).kind => k.uf # x.cand.factor
        BY <2>2, <3>1 DEF KeyInv, KeysApart
      <3> QED BY <3>2, <3>3, <3>4, <3>5
    <2> QED BY <2>1, <2>2 DEF KeysApart, Key
  <1> QED BY <1>7, <1>8, <1>9 DEF KeyInv

LEMMA EvaluateKeys ==
    ASSUME LoopInv, KeyInv, AuditProofs!Inv, NEW a \in pending,
           Discard(a) \/ TurnDown(a) \/ Keep(a)
    PROVE  KeyInv'
  <1>1. a \in Raced /\ a \notin alternatives
    BY PendingApart DEF Raced
  <1>2. CASE Discard(a)
    <2>1. PICK charge : Audit!Record(Key(a), charge, "rejected")
      BY <1>2 DEF Discard
    <2>2. /\ Audit!AuditedKeys' \subseteq Audit!AuditedKeys \cup {Key(a)}
          /\ failed => failed'
      BY <2>1, RecordKeys
    <2>3. /\ UNCHANGED <<program, processed, alternatives>> /\ pending' = pending \ {a}
      BY <1>2, <2>1 DEF Discard, Audit!Record
    <2>4. a \notin Raced'
      BY <1>1, <2>3 DEF Raced
    <2> QED BY <1>1, <2>2, <2>3, <2>4, FewerKeepKeys
  <1>3. CASE TurnDown(a)
    <2>1. PICK charge : Audit!Record(Key(a), charge, "rejected")
      BY <1>3 DEF TurnDown
    <2>2. /\ Audit!AuditedKeys' \subseteq Audit!AuditedKeys \cup {Key(a)}
          /\ failed => failed'
      BY <2>1, RecordKeys
    <2>3. UNCHANGED <<program, processed, alternatives>>
      BY <1>3, <2>1 DEF TurnDown, Audit!Record
    <2>4. PICK found \in Found(a) : pending' = (pending \ {a}) \cup found
      BY <1>3 DEF TurnDown
    <2> QED BY <2>2, <2>3, <2>4, FoundKeepKeys
  <1>4. CASE Keep(a)
    <2>1. /\ UNCHANGED <<program, processed, failed, attempts>>
          /\ Audit!AuditedKeys' = Audit!AuditedKeys
      BY <1>4 DEF Keep, audit, Audit!AuditedKeys
    <2>2. PICK charge \in ChargesOf(a) :
             alternatives' = alternatives \cup {[cand |-> a.cand, vf |-> a.vf,
                                                  charge |-> charge]}
      BY <1>4 DEF Keep
    <2>3. PICK found \in Found(a) : pending' = (pending \ {a}) \cup found
      BY <1>4 DEF Keep
    <2> DEFINE copy == [cand |-> a.cand, vf |-> a.vf, charge |-> charge]
    <2>4. copy.cand = a.cand /\ copy.vf = a.vf /\ alternatives' = alternatives \cup {copy}
      BY <2>2
    <2> HIDE DEF copy
    <2> QED BY <2>1, <2>3, <2>4, FoundKeepKeys
  <1> QED BY <1>2, <1>3, <1>4

LEMMA DecideKeys ==
    ASSUME LoopInv, KeyInv, AuditProofs!Inv,
           UNCHANGED vars \/ Finish \/ FrontierError \/ Skip \/ Lose
    PROVE  KeyInv'
  <1>1. CASE UNCHANGED <<audit, processed, pending, alternatives>>
    <2>1. UNCHANGED <<program, processed, pending, alternatives, failed>>
          /\ Audit!AuditedKeys' = Audit!AuditedKeys
      BY <1>1 DEF audit, Audit!AuditedKeys
    <2> QED BY <2>1, FewerKeepKeys
  <1>2. CASE Lose
    <2>1. PICK a \in alternatives : Audit!Record(Key(a), a.charge, "non-winner")
                                    /\ alternatives' = alternatives \ {a}
      BY <1>2 DEF Lose
    <2>2. /\ Audit!AuditedKeys' \subseteq Audit!AuditedKeys \cup {Key(a)}
          /\ failed => failed'
      BY <2>1, RecordKeys
    <2>3. UNCHANGED <<program, processed, pending>> /\ pending = {}
      BY <1>2, <2>1 DEF Lose, Deciding, Audit!Record
    <2>4. a \in Raced \ Raced'
      BY <2>1, <2>3 DEF Raced
    <2> QED BY <2>1, <2>2, <2>3, <2>4, FewerKeepKeys
  <1>3. UNCHANGED <<audit, processed, pending, alternatives>> \/ Lose
    BY DEF vars, audit, Finish, FrontierError, Skip
  <1> QED BY <1>1, <1>2, <1>3

\* Keys lie behind the first loop to try, or stand at it with another kind.
LEMMA SelectLoopKeys ==
    ASSUME LoopInv, KeyInv, AuditProofs!Inv, SelectLoop
    PROVE  KeyInv'
  <1>1. PICK c \in Candidates :
           /\ First(c)
           /\ processed' = processed \cup {<<c.function, c.header>>}
           /\ pending' = Group(c)
    BY DEF SelectLoop
  <1>2. /\ UNCHANGED <<program, failed, attempts>> /\ alternatives' = {}
        /\ Audit!AuditedKeys' = Audit!AuditedKeys /\ Raced' = pending'
    BY DEF SelectLoop, audit, Audit!AuditedKeys, Raced
  <1>3. Types
    BY DEF LoopInv
  <1> DEFINE f == c.function  p == c.loop_id
  <1>4. /\ f \in Functions0 /\ p \in DOMAIN program[f] /\ p \in Nat
        /\ program[f][p].kind # "opaque"
        /\ c.full <=> program[f][p].kind = "full"
        /\ ~Tried(f, p)
    BY <1>1, <1>3, CandidateFacts DEF First, Unprocessed, Candidate, Tried
  <1>5. ASSUME NEW b \in Raced'
        PROVE  /\ b.cand.function = f /\ b.cand.loop_id = p /\ b.vf = 1
               /\ b.cand.full <=> program[f][p].kind = "full"
               /\ b = [cand |-> b.cand, vf |-> 1]
    <2>1. PICK d \in Candidates : b = [cand |-> d, vf |-> 1] /\ d.function = f
                                  /\ d.loop_id = p
      BY <1>1, <1>2 DEF Group
    <2> QED BY <1>3, <2>1, CandidateFacts
  <1>6. \A a, b \in Raced' : a.cand.factor = b.cand.factor => a = b
    <2> SUFFICES ASSUME NEW a \in Raced', NEW b \in Raced', a.cand.factor = b.cand.factor
                 PROVE  a = b
      OBVIOUS
    <2>1. LoopInv'
      BY SelectLoopLoops
    <2>2. b.cand = [a.cand EXCEPT !.factor = b.cand.factor] /\ a.cand \in Candidate
      BY <2>1 DEF LoopInv, OneLoop, Types, Raced
    <2> DEFINE x == a.cand  y == b.cand
    <2>3. x \in Candidate /\ y = [x EXCEPT !.factor = y.factor] /\ x.factor = y.factor
      BY <2>2
    <2> HIDE DEF x, y
    <2>4. x = y
      BY <2>3 DEF Candidate
    <2> QED BY <1>5, <2>4 DEF x, y
  <1>7. ASSUME NEW k \in Audit!AuditedKeys, k.function = f
        PROVE  \/ k.loop_id < p
               \/ k.loop_id = p /\ k.kind = "full" /\ program[f][p].kind # "full"
    BY <1>4, <1>7 DEF KeyInv, KeysBehind
  <1> HIDE DEF f, p
  <1>8. ASSUME NEW b \in Raced', NEW k \in Audit!AuditedKeys, k.function = b.cand.function,
               k.loop_id = b.cand.loop_id, k.kind = Key(b).kind
        PROVE  FALSE
    <2>1. k.function = f /\ k.loop_id = p /\ ~(p < p)
      BY <1>4, <1>5, <1>8
    <2>2. k.kind = "full" /\ ~b.cand.full
      BY <1>5, <1>7, <2>1
    <2> QED BY <1>8, <2>2 DEF Key
  <1>9. KeysAreFresh'
    <2>1. ASSUME NEW b \in Raced' PROVE Key(b) \notin Audit!AuditedKeys
      <3>1. Key(b).function = b.cand.function /\ Key(b).loop_id = b.cand.loop_id
        BY DEF Key
      <3> QED BY <1>8, <3>1
    <2> QED BY <1>2, <2>1 DEF KeysAreFresh, Raced, Key
  <1>10. KeysApart'
    BY <1>2, <1>6, <1>8 DEF KeysApart, Key
  <1>11. ASSUME NEW g, NEW i, ~Tried(g, i)' PROVE ~Tried(g, i)
    BY <1>1, <1>2, <1>11 DEF Tried
  <1>12. RacedIsFirst'
    <2>1. ASSUME NEW i \in 1 .. p - 1 PROVE Tried(f, i) \/ program[f][i].kind = "opaque"
      <3> SUFFICES ASSUME ~Tried(f, i), program[f][i].kind # "opaque" PROVE FALSE
        OBVIOUS
      <3>1. i \in DOMAIN program[f] /\ i \in Nat /\ i < p
        <4>1. program[f] \in Seq(Loop)
          BY <1>3, <1>4 DEF Types
        <4> QED BY <1>4, <4>1
      <3>2. PICK d \in Candidates : d.function = f /\ d.loop_id = i
                                    /\ d.header = program[f][i].header
        BY <1>3, <1>4, <3>1, CandidateOfLoop
      <3>3. d \in Unprocessed
        BY <3>2 DEF Unprocessed, Tried
      <3>4. d # c /\ ~KeyBefore(c, d)
        <4>1. c.function = f /\ c.loop_id = p /\ f \in Nat
          BY <1>4, FrontierAssumption DEF f, p
        <4> QED BY <1>4, <3>1, <3>2, <4>1 DEF KeyBefore
      <3> QED BY <1>1, <3>3, <3>4 DEF First
    <2>2. ASSUME NEW k \in Audit!AuditedKeys, k.function = f
          PROVE  k.loop_id <= p /\ (k.loop_id = p /\ c.full => k.kind = "full")
      <3>1. k.loop_id \in Nat
        BY AuditedTyped DEF LoopFrontierKey
      <3> QED BY <1>4, <1>7, <2>2, <3>1
    <2>3. c.full /\ p + 1 \in DOMAIN program[f] /\ ~Tried(f, p + 1) =>
              program[f][p + 1].kind # "full"
      BY <1>4 DEF KeyInv, FullApart
    <2> SUFFICES ASSUME NEW b \in Raced'
                 PROVE
        /\ \A i \in 1 .. p - 1 : Tried(f, i)' \/ program[f][i].kind = "opaque"
        /\ \A k \in Audit!AuditedKeys : k.function = f =>
              k.loop_id <= p /\ (k.loop_id = p /\ c.full => k.kind = "full")
        /\ c.full /\ p + 1 \in DOMAIN program[f] /\ ~Tried(f, p + 1)' =>
              program[f][p + 1].kind # "full"
      BY <1>2, <1>4, <1>5 DEF RacedIsFirst, Tried
    <2> QED BY <1>11, <2>1, <2>2, <2>3
  <1>13. KeysBehind'
    BY <1>1, <1>2 DEF KeyInv, KeysBehind, Tried
  <1>14. FullApart'
    BY <1>1, <1>2 DEF KeyInv, FullApart, Tried
  <1> QED BY <1>9, <1>10, <1>12, <1>13, <1>14 DEF KeyInv

\* Once published, the loop no longer stands between its keys and the loops after it.
LEMMA PublishKeys ==
    ASSUME LoopInv, KeyInv, AuditProofs!Inv, Publish
    PROVE  KeyInv'
  <1>1. PICK a \in alternatives, kind \in Kinds, verdict \in {"ok", "compiler"} :
           Audit!Transact(Key(a), a.charge, "accepted", Unrolled(a.cand, kind), verdict)
    BY DEF Publish
  <1>2. /\ UNCHANGED processed /\ pending' = {} /\ alternatives' = {} /\ Raced' = {}
        /\ KeysAreFresh' /\ KeysApart' /\ RacedIsFirst'
    BY DEF Publish, Deciding, Raced, KeysAreFresh, KeysApart, RacedIsFirst
  <1> DEFINE f == a.cand.function  p == a.cand.loop_id  s == program[f]
             new == Unrolled(a.cand, kind)  full == a.cand.full
  <1>3. a \in Raced /\ f \in Functions0 /\ p \in DOMAIN s /\ s \in Seq(Loop)
        /\ p \in Nat /\ full \in BOOLEAN /\ s[p].header = a.cand.header /\ Tried(f, p)
    BY DEF LoopInv, Types, OneLoop, Raced, Candidate, Tried
  <1>4. /\ \A g \in Functions0 : g # f => new[g] = program[g]
        /\ Rewritten(s, new[f], p, full)
    BY <1>3, RewriteFacts
  <1>5. \A k \in Audit!AuditedKeys' : k \in Audit!AuditedKeys \/ k = Key(a)
    BY <1>1, TransactKeys
  <1>6. /\ Key(a).function = f /\ Key(a).loop_id = p
        /\ Key(a).kind = IF full THEN "full" ELSE "partial"
    BY DEF Key
  <1>7. CASE program' = program
    <2>1. \A k \in Audit!AuditedKeys' : k \in Audit!AuditedKeys \/ \E b \in Raced : k = Key(b)
      BY <1>3, <1>5
    <2>2. KeysBehind' /\ FullApart'
      BY <1>2, <1>7, <2>1, LoggingKeepsPlaces
    <2> QED BY <1>2, <2>2 DEF KeyInv
  <1>8. /\ \A i \in 1 .. p - 1 : Tried(f, i) \/ s[i].kind = "opaque"
        /\ \A k \in Audit!AuditedKeys : k.function = f => k.loop_id <= p
                                           /\ (k.loop_id = p /\ full => k.kind = "full")
        /\ full /\ p + 1 \in DOMAIN s /\ ~Tried(f, p + 1) => s[p + 1].kind # "full"
    BY <1>3 DEF KeyInv, RacedIsFirst
  <1>9. ASSUME NEW k \in Audit!AuditedKeys'
        PROVE  /\ k.function \in Functions0 /\ k.loop_id \in Nat
               /\ k.function = f => k.loop_id <= p /\ (k.loop_id = p /\ full => k.kind = "full")
    <2>1. CASE k \in Audit!AuditedKeys
      BY <1>8, <2>1, AuditedTyped DEF LoopFrontierKey
    <2>2. CASE k = Key(a)
      BY <1>3, <1>6, <2>2
    <2> QED BY <1>5, <2>1, <2>2
  <1> DEFINE Untried(g, i) == <<g, new[g][i].header>> \notin processed
             old == [i \in Nat |-> Before(i, p, full)]
  <1>10. ASSUME NEW i \in DOMAIN new[f]
         PROVE  /\ i \in Nat /\ i >= 1 /\ old[i] = IF full /\ i >= p THEN i + 1 ELSE i
                /\ old[i] \in DOMAIN s /\ new[f][i].header = s[old[i]].header
                /\ old[i] # p => new[f][i] = s[old[i]]
    <2>1. DOMAIN new[f] \subseteq Nat
      BY <1>3, <1>4, BeforeFacts
    <2>2. /\ i \in Nat /\ old[i] = Before(i, p, full)
          /\ Before(i, p, full) \in DOMAIN s
          /\ new[f][i].header = s[Before(i, p, full)].header
          /\ Before(i, p, full) # p => new[f][i] = s[Before(i, p, full)]
      BY <1>3, <1>4, <2>1, BeforeFacts
    <2>3. i >= 1
      <3>1. \/ DOMAIN new[f] = 1 .. Len(s) - 1 \/ DOMAIN new[f] = DOMAIN s
        BY <1>3, <1>4 DEF Rewritten
      <3> HIDE DEF s, new, f
      <3>2. Len(s) \in Nat /\ DOMAIN s = 1 .. Len(s)
        BY <1>3
      <3> QED BY <3>1, <3>2
    <2> QED BY <2>2, <2>3 DEF Before
  \* What is still to try lies behind the published loop.
  <1>11. ASSUME NEW i \in DOMAIN new[f], Untried(f, i), new[f][i].kind # "opaque"
         PROVE  /\ old[i] > p /\ old[i] \in DOMAIN s /\ old[i] \in Nat
                /\ new[f][i] = s[old[i]] /\ ~Tried(f, old[i])
                /\ i \in Nat /\ i >= p /\ (i = p => full) /\ (full => old[i] = i + 1)
    <2>1. /\ i \in Nat /\ i >= 1 /\ old[i] = IF full /\ i >= p THEN i + 1 ELSE i
          /\ old[i] \in DOMAIN s /\ new[f][i].header = s[old[i]].header
          /\ old[i] # p => new[f][i] = s[old[i]]
      BY <1>10
    <2>2. ~Tried(f, old[i])
      BY <1>11, <2>1 DEF Tried
    <2>3. old[i] # p
      BY <1>3, <2>2
    <2> HIDE DEF f, p, s, new, full, old
    <2>4. ~(old[i] \in 1 .. p - 1)
      BY <1>8, <1>11, <2>1, <2>2, <2>3
    <2>5. old[i] \in Nat /\ old[i] >= 1
      BY <1>3, <2>1
    <2> QED BY <1>3, <2>1, <2>2, <2>3, <2>4, <2>5
  <1> HIDE DEF old
  <1>12. CASE program' = new
    <2>1. KeysBehind'
      <3> SUFFICES ASSUME NEW k \in Audit!AuditedKeys', NEW i \in DOMAIN new[k.function],
                          Untried(k.function, i), new[k.function][i].kind # "opaque"
                   PROVE  \/ k.loop_id < i
                          \/ /\ k.loop_id = i /\ k.kind = "full"
                             /\ new[k.function][i].kind # "full"
        BY <1>2, <1>12 DEF KeysBehind, Tried
      <3>1. CASE k.function # f
        <4>1. new[k.function] = program[k.function] /\ k \in Audit!AuditedKeys
          BY <1>4, <1>5, <1>6, <1>9, <3>1
        <4>2. i \in DOMAIN program[k.function] /\ ~Tried(k.function, i)
              /\ program[k.function][i].kind # "opaque"
          BY <4>1 DEF Tried
        <4> HIDE DEF new, f
        <4> QED BY <4>1, <4>2 DEF KeyInv, KeysBehind
      <3>2. CASE k.function = f
        <4>1. /\ old[i] > p /\ old[i] \in DOMAIN s /\ old[i] \in Nat
              /\ new[f][i] = s[old[i]] /\ ~Tried(f, old[i])
              /\ i \in Nat /\ i >= p /\ (i = p => full) /\ (full => old[i] = i + 1)
          BY <1>11, <3>2
        <4>2. k.loop_id \in Nat /\ k.loop_id <= p
              /\ (k.loop_id = p /\ full => k.kind = "full")
          BY <1>9, <3>2
        <4> HIDE DEF f, p, s, new, full
        <4>3. CASE i > p
          BY <1>3, <4>1, <4>2, <4>3
        <4>4. CASE i = p
          <5>1. full /\ old[i] = p + 1
            BY <4>1, <4>4
          <5>2. new[f][i].kind # "full"
            BY <1>8, <4>1, <5>1
          <5> QED BY <1>3, <3>2, <4>1, <4>2, <4>4, <5>1, <5>2
        <4> QED BY <1>3, <4>1, <4>3, <4>4
      <3> QED BY <3>1, <3>2
    <2>2. FullApart'
      <3> SUFFICES ASSUME NEW g \in Functions0, NEW i \in DOMAIN new[g], i + 1 \in DOMAIN new[g],
                          Untried(g, i), Untried(g, i + 1),
                          new[g][i].kind = "full", new[g][i + 1].kind = "full"
                   PROVE  FALSE
        BY <1>2, <1>12 DEF FullApart, Tried
      <3>1. CASE g # f
        BY <1>4, <3>1 DEF KeyInv, FullApart, Tried
      <3>2. CASE g = f
        <4>1. /\ old[i] > p /\ old[i] \in DOMAIN s /\ old[i] \in Nat
              /\ new[f][i] = s[old[i]] /\ ~Tried(f, old[i]) /\ i \in Nat
          BY <1>11, <3>2
        <4>2. /\ old[i + 1] \in DOMAIN s /\ new[f][i + 1] = s[old[i + 1]]
              /\ ~Tried(f, old[i + 1])
          BY <1>11, <3>2
        <4>3. /\ old[i] = IF full /\ i >= p THEN i + 1 ELSE i
              /\ old[i + 1] = IF full /\ i + 1 >= p THEN i + 1 + 1 ELSE i + 1
          BY <1>10, <3>2
        <4>4. /\ s[old[i]].kind = "full" /\ s[old[i + 1]].kind = "full"
          BY <3>2, <4>1, <4>2
        <4>5. ~(old[i] + 1 \in DOMAIN s /\ s[old[i]].kind = "full"
                  /\ s[old[i] + 1].kind = "full" /\ ~Tried(f, old[i] + 1))
          BY <1>3, <4>1 DEF KeyInv, FullApart
        <4> HIDE DEF f, p, s, new, full
        <4>6. old[i + 1] = old[i] + 1
          BY <1>3, <4>1, <4>3
        <4> QED BY <4>2, <4>4, <4>5, <4>6
      <3> QED BY <3>1, <3>2
    <2> QED BY <1>2, <2>1, <2>2 DEF KeyInv
  <1> QED BY <1>1, <1>7, <1>12, TransactMoves

LEMMA InitKeys == FullLoopsApart /\ Init => KeyInv
  <1> SUFFICES ASSUME FullLoopsApart, Init PROVE KeyInv
    OBVIOUS
  <1>1. program = Loops0 /\ Raced = {} /\ pending = {} /\ alternatives = {}
        /\ Audit!AuditedKeys = {}
    BY DEF Init, Audit!Init, Raced, Audit!AuditedKeys
  <1>2. KeysAreFresh /\ KeysApart /\ RacedIsFirst /\ KeysBehind
    BY <1>1 DEF KeysAreFresh, KeysApart, RacedIsFirst, KeysBehind
  <1>3. FullApart
    BY <1>1 DEF FullLoopsApart, FullApart
  <1> QED BY <1>2, <1>3 DEF KeyInv

LEMMA KeyInvariant == FullLoopsApart /\ Spec => []KeyInv
  <1>1. LoopInv /\ AuditProofs!Inv /\ KeyInv /\ [Next]_vars => KeyInv'
    BY SelectLoopKeys, EvaluateKeys, DecideKeys, PublishKeys DEF Next
  <1>2. Spec => []AuditProofs!Inv
    BY FrontierAudit, PTL
  <1> QED BY <1>1, <1>2, InitKeys, LoopInvariant, PTL DEF Spec

\* Where no two fully unrollable loops of a function are neighbours, no key the
\* frontier comes up with was audited before: the compile never ends on a duplicate
\* although dropped loops shift the ids keys are made of (kir_pipeline.rs:2509-2516,
\* unroll_check.rs, audit.rs append_attempt).
THEOREM KeysAreFreshHolds == FullLoopsApart /\ Spec => []KeysAreFresh
  <1>1. KeyInv => KeysAreFresh
    BY DEF KeyInv
  <1> QED BY <1>1, KeyInvariant, PTL
============================================================================
