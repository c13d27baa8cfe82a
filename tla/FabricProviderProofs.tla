------------------------ MODULE FabricProviderProofs ------------------------
(***************************************************************************)
(* Proofs about the Fabric provider and the attempt ledger under it, for   *)
(* every set of handler threads, bindings, callers, reasons and payloads   *)
(* and for every bound.  First the ledger alone, whoever calls it: that it *)
(* keeps its promises.  Then the provider: it uses the ledger as the       *)
(* ledger's own specification allows, no two handlers execute one attempt, *)
(* and it implements FabricAttempt.                                        *)
(***************************************************************************)
EXTENDS FabricProvider, TLAPS

(***************************************************************************)
(* How a body may change, whoever publishes it: nothing is forgotten, an   *)
(* accepted binding stays accepted, a terminal entry stays as it is.       *)
(***************************************************************************)
Evolves(x, y) ==
    /\ x.incarnation <= y.incarnation
    /\ \A b \in Bindings :
        /\ x.entries[b].state # "Absent" => y.entries[b].state # "Absent"
        /\ x.entries[b].state \in Consumed => y.entries[b].state \in Consumed
        /\ x.entries[b].state \in Terminal => y.entries[b] = x.entries[b]

\* No two entries of a body share a replay key.
Fenced(body) == \A x, y \in Present(body) : x # y => ~SameKey(x, y)

\* Unfinished entries belong to the body's incarnation.
Current(body) ==
    \A b \in Bindings : body.entries[b].state \in Incomplete => b.incarnation = body.incarnation

Mutation == [body : Body, answer : Result, changed : BOOLEAN, grant : SUBSET Bindings]

\* What the ledger relies on in a mutation m of the body `body'.
Sound(body, m) ==
    /\ m \in Mutation
    /\ Evolves(body, m.body)
    /\ m.body.incarnation = body.incarnation
    /\ Current(m.body)
    /\ \A b \in m.grant : body.entries[b].state = "Validated" /\ m.body.entries[b].state = "Accepted"

(***************************************************************************)
(* The inductive invariant.  A publication moves one body from memory to   *)
(* the file and on to the disk, so the three are ordered by Evolves, equal *)
(* at rest, and a grant is on the disk before it is answered.              *)
(***************************************************************************)
Publication ==
    /\ up = "opening" <=> (staged.step # "free" /\ staged.by = Opener)
    /\ staged.step # "free" /\ staged.by # Opener => up = "up" /\ ~poisoned
    /\ staged.step = "free" => staged.grant = {} /\ staged.by = Opener
    /\ staged.by = Opener => staged.grant = {}
    /\ staged.step = "written" => Evolves(file, staged.body)
    /\ staged.step = "renamed" => file = staged.body
    /\ staged.step = "synced" => file = staged.body /\ disk = staged.body

Ordered ==
    /\ Evolves(disk, file)
    /\ Locked => mem = disk /\ mem = file
    /\ up = "up" => disk.incarnation = mem.incarnation /\ file.incarnation = mem.incarnation
    /\ up = "up" /\ staged.step # "free" => staged.body.incarnation = mem.incarnation

Bodies ==
    /\ Fenced(disk) /\ Fenced(file) /\ Fenced(staged.body)
    /\ up = "up" => Current(mem)
    /\ staged.step # "free" => Current(staged.body)

Grants ==
    \A b \in Bindings :
        /\ granted[b] <= 1
        /\ granted[b] > 0 => disk.entries[b].state \in Consumed
        /\ b \in staged.grant =>
              granted[b] = 0 /\ staged.body.entries[b].state \in Consumed

LedgerInv == LedgerTypeOK /\ Publication /\ Ordered /\ Bodies /\ Grants

-----------------------------------------------------------------------------
(***************************************************************************)
(* Lemmas about bodies.                                                    *)
(***************************************************************************)

\* The absent snapshot is a well-formed, fenced body with no unfinished work.
LEMMA EmptyBodyGood ==
    /\ EmptyBody \in Body /\ Fenced(EmptyBody) /\ Current(EmptyBody)
    /\ \A b \in Bindings : EmptyBody.entries[b] = NoEntry
BY BoundsAssumption
   DEF EmptyBody, Body, Entry, EntryOf, NoEntry, Details, Fenced, Current, Present, Incomplete

\* Evolution of bodies is reflexive and transitive.
LEMMA EvolvesReflexive == \A x \in Body : Evolves(x, x)
BY DEF Evolves, Body

LEMMA EvolvesTransitive ==
    \A x, y, z \in Body : Evolves(x, y) /\ Evolves(y, z) => Evolves(x, z)
<1> SUFFICES ASSUME NEW x \in Body, NEW y \in Body, NEW z \in Body,
                    Evolves(x, y), Evolves(y, z)
             PROVE  Evolves(x, z)
    OBVIOUS
<1>1. x.incarnation \in Int /\ y.incarnation \in Int /\ z.incarnation \in Int
    BY BoundsAssumption DEF Body
<1> QED BY <1>1 DEF Evolves, Terminal, Consumed

\* A restart (open) only abandons unfinished entries: the result is a body that evolves from
\* the one read, keeps its replay keys and has no unfinished work.
LEMMA ReopenedGood ==
    ASSUME NEW body \in Body, body.incarnation < MaxIncarnation, Fenced(body)
    PROVE  /\ Reopened(body) \in Body
           /\ Evolves(body, Reopened(body))
           /\ Fenced(Reopened(body))
           /\ Current(Reopened(body))
<1>1. body.incarnation \in Nat /\ body.incarnation + 1 \in 0..MaxIncarnation
    BY BoundsAssumption DEF Body
<1>2. \A b \in Bindings : body.entries[b] \in Entry
    BY DEF Body
<1>3. EntryOf("Abandoned", RestartReason) \in Entry
    BY DEF EntryOf, Entry, Terminal, Details
<1>4. Reopened(body) \in Body
    BY <1>1, <1>2, <1>3 DEF Reopened, Body
<1>5. Evolves(body, Reopened(body))
    BY <1>1, <1>2 DEF Evolves, Reopened, EntryOf, Consumed, Terminal, Incomplete, Entry
<1>6. Present(Reopened(body)) = Present(body)
    BY <1>2 DEF Present, Reopened, EntryOf, Incomplete, Entry
<1>7. Current(Reopened(body))
    BY <1>2 DEF Current, Reopened, EntryOf, Incomplete
<1> QED BY <1>4, <1>5, <1>6, <1>7 DEF Fenced

-----------------------------------------------------------------------------
(***************************************************************************)
(* Lemmas about operations: each one is a sound mutation.                  *)
(***************************************************************************)

\* A refused or duplicate call changes nothing.
LEMMA UnchangedSound ==
    ASSUME NEW body \in Body, Current(body), NEW b \in Bindings
    PROVE  Sound(body, Refuse(body)) /\ Sound(body, Keep(body, "Duplicate", b))
<1>1. Evolves(body, body)
    BY EvolvesReflexive
<1>2. body.entries[b] \in Entry /\ NoEntry \in Entry
    BY DEF Body, Entry, NoEntry, EntryOf, Details
<1> QED BY <1>1, <1>2
        DEF Sound, Mutation, Refuse, Keep, Error, Answer, Result, Tags

\* Writing an entry is sound when the old entry is not terminal, an accepted binding stays
\* accepted and an unfinished one belongs to the incarnation.
LEMMA PutSound ==
    ASSUME NEW body \in Body, Current(body), NEW b \in Bindings, NEW e \in Entry,
           e.state # "Absent",
           body.entries[b].state \notin Terminal,
           body.entries[b].state \in Consumed => e.state \in Consumed,
           e.state \in Incomplete => b.incarnation = body.incarnation
    PROVE  /\ Sound(body, Put(body, b, e))
           /\ body.entries[b].state = "Validated" /\ e.state = "Accepted" =>
                 Sound(body, Write(body, b, e, {b}))
<1> DEFINE next == [body EXCEPT !.entries[b] = e]
<1>1. /\ next \in Body /\ next.incarnation = body.incarnation
      /\ next.entries = [body.entries EXCEPT ![b] = e]
    BY DEF Body
<1>2. next.entries[b] = e /\ \A x \in Bindings \ {b} : next.entries[x] = body.entries[x]
    BY <1>1 DEF Body
<1>3. Evolves(body, next)
    BY <1>1, <1>2, BoundsAssumption DEF Evolves, Body
<1>4. Current(next)
    BY <1>1, <1>2 DEF Current
<1>5. Answer("Applied", e) \in Result
    BY DEF Answer, Result, Tags
<1> DEFINE written(g) == [body |-> next, answer |-> Answer("Applied", e),
                          changed |-> TRUE, grant |-> g]
<1>6. Put(body, b, e) = written({}) /\ Write(body, b, e, {b}) = written({b})
    BY DEF Put, Write
<1> HIDE DEF next
<1>7. Sound(body, Put(body, b, e))
    BY <1>1, <1>3, <1>4, <1>5, <1>6 DEF Sound, Mutation
<1>8. ASSUME body.entries[b].state = "Validated", e.state = "Accepted"
      PROVE  Sound(body, Write(body, b, e, {b}))
    <2>1. {b} \in SUBSET Bindings
        OBVIOUS
    <2>2. written({b}) \in Mutation
        BY <1>1, <1>5, <2>1 DEF Mutation
    <2>3. Sound(body, written({b}))
        BY <1>1, <1>2, <1>3, <1>4, <1>8, <2>2 DEF Sound
    <2> QED BY <1>6, <2>3
<1> QED BY <1>7, <1>8

\* Locate() answers "Exact" only for a recorded binding and "Unknown" only for a new one.
LEMMA LocateMeaning ==
    ASSUME NEW body \in Body, NEW b \in Bindings
    PROVE  /\ Locate(body, b) = "Exact" => body.entries[b].state # "Absent"
           /\ Locate(body, b) = "Unknown" => body.entries[b].state = "Absent"
BY DEF Locate, Present

\* record_received is sound.
LEMMA ReceivedSound ==
    ASSUME NEW body \in Body, Current(body), NEW b \in Bindings
    PROVE  Sound(body, RecordReceived(body, b))
<1>1. CASE Locate(body, b) = "Unknown" /\ Admissible(body, b)
    <2>1. EntryOf("Received", NoDetail) \in Entry
        BY DEF EntryOf, Entry, Incomplete, Details
    <2>2. Sound(body, Put(body, b, EntryOf("Received", NoDetail)))
        BY <1>1, <2>1, PutSound, LocateMeaning DEF EntryOf, Admissible, Consumed, Terminal
    <2> QED BY <1>1, <2>2 DEF RecordReceived
<1>2. CASE ~(Locate(body, b) = "Unknown" /\ Admissible(body, b))
    BY <1>2, UnchangedSound DEF RecordReceived
<1> QED BY <1>1, <1>2

\* record_validated is sound.
LEMMA ValidatedSound ==
    ASSUME NEW body \in Body, Current(body), NEW b \in Bindings
    PROVE  Sound(body, RecordValidated(body, b))
<1>1. CASE Locate(body, b) = "Exact" /\ body.entries[b].state = "Received"
    <2>1. EntryOf("Validated", NoDetail) \in Entry
        BY DEF EntryOf, Entry, Incomplete, Details
    <2>2. Sound(body, Put(body, b, EntryOf("Validated", NoDetail)))
        BY <1>1, <2>1, PutSound DEF EntryOf, Current, Incomplete, Consumed, Terminal
    <2> QED BY <1>1, <2>2 DEF RecordValidated
<1>2. CASE ~(Locate(body, b) = "Exact" /\ body.entries[b].state = "Received")
    BY <1>2, UnchangedSound DEF RecordValidated
<1> QED BY <1>1, <1>2

\* consume_and_accept is sound, and it grants only a validated binding.
LEMMA AcceptSound ==
    ASSUME NEW body \in Body, Current(body), NEW b \in Bindings
    PROVE  Sound(body, ConsumeAndAccept(body, b))
<1>1. CASE /\ Locate(body, b) = "Exact"
           /\ body.entries[b].state = "Validated" /\ b.incarnation = body.incarnation
    <2>1. EntryOf("Accepted", NoDetail) \in Entry
        BY DEF EntryOf, Entry, Incomplete, Details
    <2>2. Sound(body, Write(body, b, EntryOf("Accepted", NoDetail), {b}))
        BY <1>1, <2>1, PutSound DEF EntryOf, Incomplete, Consumed, Terminal
    <2> QED BY <1>1, <2>2 DEF ConsumeAndAccept
<1>2. CASE ~ /\ Locate(body, b) = "Exact"
             /\ body.entries[b].state = "Validated" /\ b.incarnation = body.incarnation
    BY <1>2, UnchangedSound DEF ConsumeAndAccept
<1> QED BY <1>1, <1>2

\* mark_running is sound.
LEMMA RunningSound ==
    ASSUME NEW body \in Body, Current(body), NEW b \in Bindings
    PROVE  Sound(body, MarkRunning(body, b))
<1>1. CASE Locate(body, b) = "Exact" /\ body.entries[b].state = "Accepted"
    <2>1. EntryOf("Running", NoDetail) \in Entry
        BY DEF EntryOf, Entry, Incomplete, Details
    <2>2. Sound(body, Put(body, b, EntryOf("Running", NoDetail)))
        BY <1>1, <2>1, PutSound DEF EntryOf, Current, Incomplete, Consumed, Terminal
    <2> QED BY <1>1, <2>2 DEF MarkRunning
<1>2. CASE ~(Locate(body, b) = "Exact" /\ body.entries[b].state = "Accepted")
    BY <1>2, UnchangedSound DEF MarkRunning
<1> QED BY <1>1, <1>2

\* record_terminal_candidate is sound: it writes bytes over a running entry only.
LEMMA TerminalSound ==
    ASSUME NEW body \in Body, Current(body), NEW b \in Bindings, NEW p \in Payloads
    PROVE  Sound(body, RecordTerminalCandidate(body, b, p))
<1>1. CASE Locate(body, b) = "Exact" /\ body.entries[b].state = "Running"
    <2>1. EntryOf("TerminalCandidate", p) \in Entry
        BY DEF EntryOf, Entry, Terminal, Details
    <2>2. Sound(body, Put(body, b, EntryOf("TerminalCandidate", p)))
        BY <1>1, <2>1, PutSound DEF EntryOf, Incomplete, Consumed, Terminal
    <2> QED BY <1>1, <2>2 DEF RecordTerminalCandidate, EntryOf
<1>2. CASE ~(Locate(body, b) = "Exact" /\ body.entries[b].state = "Running")
    BY <1>2, UnchangedSound DEF RecordTerminalCandidate
<1> QED BY <1>1, <1>2

\* record_rejected and record_preaccept_rejected are sound: neither replaces a terminal entry.
LEMMA RejectedSound ==
    ASSUME NEW body \in Body, Current(body), NEW b \in Bindings, NEW r \in Reasons
    PROVE  /\ Sound(body, RecordRejected(body, b, r))
           /\ Sound(body, RecordPreacceptRejected(body, b, r))
<1>1. EntryOf("Rejected", r) \in Entry
    BY DEF EntryOf, Entry, Terminal, Details
<1>2. ASSUME \/ body.entries[b].state \in Incomplete
             \/ Locate(body, b) = "Unknown"
      PROVE  Sound(body, Put(body, b, EntryOf("Rejected", r)))
    <2>1. body.entries[b].state \notin Terminal
        BY <1>2, LocateMeaning DEF Incomplete, Terminal
    <2> QED BY <1>1, <2>1, PutSound DEF EntryOf, Incomplete, Consumed, Terminal
<1>3. Sound(body, RecordRejected(body, b, r))
    BY <1>2, UnchangedSound DEF RecordRejected
<1>4. Sound(body, RecordPreacceptRejected(body, b, r))
    BY <1>2, UnchangedSound DEF RecordPreacceptRejected, Incomplete
<1> QED BY <1>3, <1>4

-----------------------------------------------------------------------------
(***************************************************************************)
(* Every action preserves the inductive invariant.                         *)
(***************************************************************************)

\* The initial state satisfies the inductive invariant.
LEMMA InitInv == LedgerInit => LedgerInv
<1> SUFFICES ASSUME LedgerInit PROVE LedgerInv
    OBVIOUS
<1> USE DEF LedgerInit
<1>1. NoStage \in Stage
    BY EmptyBodyGood DEF NoStage, Stage, Steps, NoAnswer, Answer, Result, Tags, NoEntry,
       EntryOf, Entry, Details
<1>2. NoAnswer \in Result
    BY DEF NoAnswer, Answer, Result, Tags, NoEntry, EntryOf, Entry, Details
<1>3. LedgerTypeOK
    BY <1>1, <1>2, EmptyBodyGood DEF LedgerTypeOK
<1>4. Evolves(EmptyBody, EmptyBody)
    BY EmptyBodyGood, EvolvesReflexive
<1>5. Publication /\ Ordered /\ Bodies /\ Grants
    BY <1>4, EmptyBodyGood, CallersAssumption
       DEF Publication, Ordered, Bodies, Grants, Locked, NoStage
<1> QED BY <1>3, <1>5 DEF LedgerInv

\* The facts about rest states that several actions establish.
LEMMA RestFacts ==
    /\ NoStage \in Stage /\ NoAnswer \in Result /\ Error \in Result
    /\ NoStage.step = "free" /\ NoStage.by = Opener /\ NoStage.grant = {}
    /\ NoStage.body = EmptyBody /\ Fenced(NoStage.body)
<1>1. NoEntry \in Entry
    BY DEF NoEntry, EntryOf, Entry, Details
<1>2. NoAnswer \in Result /\ Error \in Result
    BY <1>1 DEF NoAnswer, Error, Answer, Result, Tags
<1> QED BY <1>2, EmptyBodyGood DEF NoStage, Stage, Steps

\* open()
LEMMA OpenInv == LedgerInv /\ Open => LedgerInv'
<1> SUFFICES ASSUME LedgerInv, Open PROVE LedgerInv'
    OBVIOUS
<1> DEFINE s == [step |-> "written", by |-> Opener, body |-> Reopened(file),
                 answer |-> NoAnswer, grant |-> {}]
<1>1. file \in Body /\ Fenced(file) /\ file.incarnation < MaxIncarnation
    BY DEF LedgerInv, LedgerTypeOK, Bodies, Open
<1>2. /\ Reopened(file) \in Body /\ Evolves(file, Reopened(file))
      /\ Fenced(Reopened(file)) /\ Current(Reopened(file))
    BY <1>1, ReopenedGood
<1>3. s \in Stage
    BY <1>2, RestFacts DEF Stage, Steps
<1>4. /\ staged' = s /\ up' = "opening" /\ poisoned' = FALSE
      /\ disk' = disk /\ file' = file /\ mem' = mem /\ granted' = granted
      /\ ret' = [c \in Callers |-> NoAnswer]
    BY DEF Open
<1>5. /\ staged'.step = "written" /\ staged'.by = Opener /\ staged'.grant = {}
      /\ staged'.body = Reopened(file)
    BY <1>4
<1> HIDE DEF s
<1>6. LedgerTypeOK'
    BY <1>3, <1>4, RestFacts DEF LedgerInv, LedgerTypeOK
<1>7. Publication'
    BY <1>2, <1>4, <1>5 DEF Publication, Evolves
<1>8. Ordered'
    BY <1>4, <1>5 DEF LedgerInv, Ordered, Locked, Evolves
<1>9. Bodies'
    BY <1>2, <1>4, <1>5 DEF LedgerInv, Bodies, Fenced, Current, Present
<1>10. Grants'
    BY <1>4, <1>5 DEF LedgerInv, Grants
<1> QED BY <1>6, <1>7, <1>8, <1>9, <1>10 DEF LedgerInv

\* A call that takes the mutex and runs a sound mutation.
LEMMA MutateInv ==
    ASSUME LedgerInv, NEW c \in Callers, NEW m,
           Sound(mem, m), Mutate(c, m)
    PROVE  LedgerInv'
<1>1. /\ disk' = disk /\ file' = file /\ mem' = mem /\ up' = up
      /\ poisoned' = poisoned /\ granted' = granted
      /\ up = "up" /\ ~poisoned /\ staged.step = "free" /\ mem = disk /\ mem = file
    BY DEF Mutate, Locked, LedgerInv, Ordered
<1>2. CASE m.changed /\ ValidBody(m.body)
    <2> DEFINE s == [step |-> "written", by |-> c, body |-> m.body,
                     answer |-> m.answer, grant |-> m.grant]
    <2>1. staged' = s /\ ret' = [ret EXCEPT ![c] = NoAnswer]
        BY <1>2 DEF Mutate
    <2>2. /\ m.body \in Body /\ m.answer \in Result /\ m.grant \in SUBSET Bindings
          /\ Evolves(mem, m.body) /\ m.body.incarnation = mem.incarnation /\ Current(m.body)
          /\ \A b \in m.grant : mem.entries[b].state = "Validated"
                                /\ m.body.entries[b].state = "Accepted"
        BY DEF Sound, Mutation
    <2>3. Fenced(m.body)
        BY <1>2 DEF ValidBody, Fenced
    <2>4. s \in Stage
        BY <2>2 DEF Stage, Steps
    <2>5. /\ staged'.step = "written" /\ staged'.by = c /\ staged'.grant = m.grant
          /\ staged'.body = m.body
        BY <2>1
    <2> HIDE DEF s
    <2>6. LedgerTypeOK'
        BY <1>1, <2>1, <2>4, RestFacts DEF LedgerInv, LedgerTypeOK
    <2>7. Publication'
        BY <1>1, <2>2, <2>5, CallersAssumption DEF Publication, Evolves
    <2>8. Ordered'
        BY <1>1, <2>2, <2>5 DEF LedgerInv, Ordered, Locked, Evolves
    <2>9. Bodies'
        BY <1>1, <2>2, <2>3, <2>5 DEF LedgerInv, Bodies, Fenced, Current, Present
    <2>10. \A b \in m.grant : granted[b] = 0
        <3> SUFFICES ASSUME NEW b \in m.grant PROVE granted[b] = 0
            OBVIOUS
        <3>1. b \in Bindings /\ granted[b] \in Nat /\ disk.entries[b].state \notin Consumed
            BY <1>1, <2>2 DEF LedgerInv, LedgerTypeOK, Consumed, Terminal
        <3> QED BY <3>1 DEF LedgerInv, Grants
    <2>11. Grants'
        BY <1>1, <2>2, <2>5, <2>10 DEF LedgerInv, Grants, Consumed
    <2> QED BY <2>6, <2>7, <2>8, <2>9, <2>11 DEF LedgerInv
<1>3. CASE ~(m.changed /\ ValidBody(m.body))
    <2>1. /\ staged' = staged
          /\ ret' = [ret EXCEPT ![c] = IF m.changed THEN Error ELSE m.answer]
        BY <1>3 DEF Mutate
    <2>2. m.answer \in Result
        BY DEF Sound, Mutation
    <2>3. LedgerTypeOK'
        BY <1>1, <2>1, <2>2, RestFacts DEF LedgerInv, LedgerTypeOK
    <2> QED BY <1>1, <2>1, <2>3
            DEF LedgerInv, Publication, Ordered, Bodies, Grants, Locked, Evolves, Fenced,
                Current, Present
<1> QED BY <1>2, <1>3

\* Steps that publish nothing: reads, refusals, a failed verification, taking an answer.
LEMMA AnswerInv ==
    ASSUME LedgerInv, NEW c \in Callers,
           \/ \E a \in Result : Read(c, a)
           \/ Take(c)
           \/ Unhealthy(c)
           \/ VerifyFails(c)
    PROVE  LedgerInv'
<1>1. /\ disk' = disk /\ file' = file /\ mem' = mem /\ up' = up
      /\ staged' = staged /\ granted' = granted
      /\ \/ poisoned' = poisoned
         \/ poisoned' = TRUE /\ up = "up" /\ staged.step = "free"
    BY DEF Read, Take, Unhealthy, VerifyFails, Locked
<1>2. \E a \in Result : ret' = [ret EXCEPT ![c] = a]
    BY RestFacts DEF Read, Take, Unhealthy, VerifyFails
<1>3. LedgerTypeOK'
    BY <1>1, <1>2 DEF LedgerInv, LedgerTypeOK
<1>4. Publication' /\ Ordered'
    BY <1>1 DEF LedgerInv, LedgerTypeOK, Publication, Ordered, Locked, Evolves
<1>5. Bodies' /\ Grants'
    BY <1>1 DEF LedgerInv, Bodies, Grants, Fenced, Current, Present
<1> QED BY <1>3, <1>4, <1>5 DEF LedgerInv

\* persist_snapshot(): the rename.
LEMMA RenameInv == LedgerInv /\ Rename => LedgerInv'
<1> SUFFICES ASSUME LedgerInv, Rename PROVE LedgerInv'
    OBVIOUS
<1>1. /\ disk' = disk /\ file' = staged.body /\ mem' = mem /\ up' = up
      /\ poisoned' = poisoned /\ ret' = ret /\ granted' = granted
      /\ staged.step = "written" /\ staged' = [staged EXCEPT !.step = "renamed"]
    BY DEF Rename
<1>2. staged \in Stage /\ disk \in Body /\ file \in Body /\ staged.body \in Body
    BY DEF LedgerInv, LedgerTypeOK, Stage
<1>3. /\ staged' \in Stage /\ staged'.step = "renamed" /\ staged'.body = staged.body
      /\ staged'.by = staged.by /\ staged'.grant = staged.grant
    BY <1>1, <1>2 DEF Stage, Steps
<1>4. Evolves(disk, staged.body)
    BY <1>1, <1>2, EvolvesTransitive DEF LedgerInv, Ordered, Publication
<1>5. LedgerTypeOK'
    BY <1>1, <1>2, <1>3 DEF LedgerInv, LedgerTypeOK
<1>6. Publication' /\ Ordered'
    BY <1>1, <1>3, <1>4 DEF LedgerInv, Publication, Ordered, Locked, Evolves
<1>7. Bodies' /\ Grants'
    BY <1>1, <1>3 DEF LedgerInv, Bodies, Grants, Fenced, Current, Present
<1> QED BY <1>5, <1>6, <1>7 DEF LedgerInv

\* persist_snapshot(): the directory sync.
LEMMA SyncInv == LedgerInv /\ Sync => LedgerInv'
<1> SUFFICES ASSUME LedgerInv, Sync PROVE LedgerInv'
    OBVIOUS
<1>1. /\ disk' = file /\ file' = file /\ mem' = mem /\ up' = up
      /\ poisoned' = poisoned /\ ret' = ret /\ granted' = granted
      /\ staged.step = "renamed" /\ staged' = [staged EXCEPT !.step = "synced"]
    BY DEF Sync
<1>2. staged \in Stage /\ file \in Body /\ disk \in Body /\ file = staged.body
    BY <1>1 DEF LedgerInv, LedgerTypeOK, Publication
<1>3. /\ staged' \in Stage /\ staged'.step = "synced" /\ staged'.body = staged.body
      /\ staged'.by = staged.by /\ staged'.grant = staged.grant
    BY <1>1, <1>2 DEF Stage, Steps
<1>4. Evolves(file, file) /\ Evolves(disk, file)
    BY <1>2, EvolvesReflexive DEF LedgerInv, Ordered
<1>5. LedgerTypeOK'
    BY <1>1, <1>2, <1>3 DEF LedgerInv, LedgerTypeOK
<1>6. Publication' /\ Ordered'
    BY <1>1, <1>2, <1>3, <1>4 DEF LedgerInv, Publication, Ordered, Locked, Evolves
<1>7. Bodies' /\ Grants'
    BY <1>1, <1>3, <1>4 DEF LedgerInv, Bodies, Grants, Fenced, Current, Present, Evolves
<1> QED BY <1>5, <1>6, <1>7 DEF LedgerInv

\* with_mutation() and open(): the published body is adopted and the call answered.
LEMMA PublishInv == LedgerInv /\ Publish => LedgerInv'
<1> SUFFICES ASSUME LedgerInv, Publish PROVE LedgerInv'
    OBVIOUS
<1>1. /\ disk' = disk /\ file' = file /\ mem' = staged.body /\ up' = "up"
      /\ poisoned' = poisoned /\ staged' = NoStage /\ staged.step = "synced"
      /\ disk = staged.body /\ file = staged.body
    BY DEF Publish, LedgerInv, Publication
<1>2. staged.body \in Body /\ staged.answer \in Result
    BY DEF LedgerInv, LedgerTypeOK, Stage
<1>3. ret' \in [Callers -> Result]
    BY <1>2 DEF Publish, LedgerInv, LedgerTypeOK
<1>4. \A b \in Bindings : /\ granted[b] \in Nat
                          /\ granted'[b] = IF b \in staged.grant THEN granted[b] + 1 ELSE granted[b]
    BY DEF Publish, LedgerInv, LedgerTypeOK
<1>5. granted' \in [Bindings -> Nat]
    BY <1>4 DEF Publish
<1>6. LedgerTypeOK'
    BY <1>1, <1>2, <1>3, <1>5, RestFacts DEF LedgerInv, LedgerTypeOK
<1>7. Publication' /\ Ordered'
    BY <1>1, RestFacts DEF LedgerInv, Publication, Ordered, Locked, Evolves
<1>8. Bodies'
    BY <1>1, RestFacts DEF LedgerInv, Bodies, Fenced, Current, Present
<1>9. Grants'
    BY <1>1, <1>4, RestFacts DEF LedgerInv, Grants
<1> QED BY <1>6, <1>7, <1>8, <1>9 DEF LedgerInv

\* A failed publication poisons a live ledger, or ends an opening process.
LEMMA PublicationFailsInv == LedgerInv /\ PublicationFails => LedgerInv'
<1> SUFFICES ASSUME LedgerInv, PublicationFails PROVE LedgerInv'
    OBVIOUS
<1>1. /\ disk' = disk /\ file' = file /\ mem' = mem /\ granted' = granted
      /\ staged' = NoStage /\ staged.step # "free"
    BY DEF PublicationFails
<1>2. \/ staged.by = Opener /\ up' = "down" /\ poisoned' = poisoned /\ ret' = ret
      \/ /\ staged.by # Opener /\ up' = up /\ up = "up" /\ poisoned' = TRUE
         /\ ret' = [ret EXCEPT ![staged.by] = Error]
    BY <1>1 DEF PublicationFails, LedgerInv, Publication
<1>3. LedgerTypeOK'
    BY <1>1, <1>2, RestFacts DEF LedgerInv, LedgerTypeOK
<1>4. Publication' /\ Ordered'
    BY <1>1, <1>2, RestFacts DEF LedgerInv, Publication, Ordered, Locked, Evolves
<1>5. Bodies' /\ Grants'
    BY <1>1, <1>2, RestFacts DEF LedgerInv, Bodies, Grants, Fenced, Current, Present
<1> QED BY <1>3, <1>4, <1>5 DEF LedgerInv

\* The process or the machine dies.
LEMMA DownInv == LedgerInv /\ (Crash \/ PowerLoss) => LedgerInv'
<1> SUFFICES ASSUME LedgerInv, Crash \/ PowerLoss PROVE LedgerInv'
    OBVIOUS
<1>1. /\ up' = "down" /\ poisoned' = FALSE /\ staged' = NoStage /\ mem' = EmptyBody
      /\ ret' = [c \in Callers |-> NoAnswer] /\ granted' = granted
      /\ \/ disk' = disk /\ file' = file
         \/ disk' = disk /\ file' = disk
         \/ disk' = file /\ file' = file
    BY DEF Crash, PowerLoss
<1>2. Evolves(disk, disk) /\ Evolves(file, file) /\ Evolves(disk, file)
    BY EvolvesReflexive DEF LedgerInv, LedgerTypeOK, Ordered
<1>3. LedgerTypeOK'
    BY <1>1, RestFacts, EmptyBodyGood DEF LedgerInv, LedgerTypeOK
<1>4. Publication' /\ Ordered'
    BY <1>1, <1>2, RestFacts DEF Publication, Ordered, Locked, Evolves
<1>5. Bodies'
    BY <1>1, RestFacts DEF LedgerInv, Bodies, Fenced, Present
<1>6. Grants'
    BY <1>1, <1>2, RestFacts DEF LedgerInv, Grants, Evolves
<1> QED BY <1>3, <1>4, <1>5, <1>6 DEF LedgerInv

\* Every operation of a caller, whatever it is called with.
LEMMA CallInv == ASSUME LedgerInv, NEW c \in Callers, Call(c) PROVE LedgerInv'
<1>1. mem \in Body
    BY DEF LedgerInv, LedgerTypeOK
<1>2. ASSUME NEW m, Mutate(c, m) PROVE Current(mem)
    BY <1>2 DEF Mutate, Locked, LedgerInv, Bodies
<1>3. PICK b \in Bindings :
        \/ Mutate(c, RecordReceived(mem, b))
        \/ Mutate(c, RecordValidated(mem, b))
        \/ Mutate(c, ConsumeAndAccept(mem, b))
        \/ Mutate(c, MarkRunning(mem, b))
        \/ \E p \in Payloads : Mutate(c, RecordTerminalCandidate(mem, b, p))
        \/ \E r \in Reasons : Mutate(c, RecordRejected(mem, b, r))
        \/ \E r \in Reasons : Mutate(c, RecordPreacceptRejected(mem, b, r))
        \/ \E peer \in {x.principal : x \in Bindings} : Read(c, Query(mem, b, peer))
    BY DEF Call
<1>4. CASE Mutate(c, RecordReceived(mem, b))
    BY <1>1, <1>2, <1>4, ReceivedSound, MutateInv
<1>5. CASE Mutate(c, RecordValidated(mem, b))
    BY <1>1, <1>2, <1>5, ValidatedSound, MutateInv
<1>6. CASE Mutate(c, ConsumeAndAccept(mem, b))
    BY <1>1, <1>2, <1>6, AcceptSound, MutateInv
<1>7. CASE Mutate(c, MarkRunning(mem, b))
    BY <1>1, <1>2, <1>7, RunningSound, MutateInv
<1>8. CASE \E p \in Payloads : Mutate(c, RecordTerminalCandidate(mem, b, p))
    BY <1>1, <1>2, <1>8, TerminalSound, MutateInv
<1>9. CASE \E r \in Reasons : Mutate(c, RecordRejected(mem, b, r))
    BY <1>1, <1>2, <1>9, RejectedSound, MutateInv
<1>10. CASE \E r \in Reasons : Mutate(c, RecordPreacceptRejected(mem, b, r))
    BY <1>1, <1>2, <1>10, RejectedSound, MutateInv
<1>11. CASE \E peer \in {x.principal : x \in Bindings} : Read(c, Query(mem, b, peer))
    <2>1. PICK peer : Read(c, Query(mem, b, peer))
        BY <1>11
    <2>2. NoEntry \in Entry /\ mem.entries[b] \in Entry
        BY <1>1 DEF Body, NoEntry, EntryOf, Entry, Details
    <2>3. Query(mem, b, peer) \in Result
        BY <2>2 DEF Query, Answer, Result, Tags
    <2> QED BY <2>1, <2>3, AnswerInv
<1> QED BY <1>3, <1>4, <1>5, <1>6, <1>7, <1>8, <1>9, <1>10, <1>11

\* Every step of the ledger preserves the inductive invariant.
LEMMA NextInv == LedgerInv /\ [LedgerNext]_ledgerVars => LedgerInv'
<1> SUFFICES ASSUME LedgerInv, [LedgerNext]_ledgerVars PROVE LedgerInv'
    OBVIOUS
<1>1. CASE \E c \in Callers : Call(c)
    BY <1>1, CallInv
<1>2. CASE \E c \in Callers : Take(c) \/ Unhealthy(c) \/ VerifyFails(c)
    BY <1>2, AnswerInv
<1>3. CASE Environment
    BY <1>3, OpenInv, RenameInv, SyncInv, PublishInv, PublicationFailsInv, DownInv
       DEF Environment
<1>4. CASE UNCHANGED ledgerVars
    BY <1>4 DEF ledgerVars, LedgerInv, LedgerTypeOK, Publication, Ordered, Bodies, Grants,
       Locked, Evolves, Fenced, Current, Present
<1> QED BY <1>1, <1>2, <1>3, <1>4 DEF LedgerNext

\* The durable snapshot only ever evolves.
LEMMA DiskEvolves == LedgerInv /\ [LedgerNext]_ledgerVars => Evolves(disk, disk')
<1> SUFFICES ASSUME LedgerInv, [LedgerNext]_ledgerVars PROVE Evolves(disk, disk')
    OBVIOUS
<1>1. disk' = disk \/ disk' = file
    BY DEF LedgerNext, Environment, Call, Mutate, Read, Take, Unhealthy, VerifyFails, Open, Rename,
       Sync, Publish, PublicationFails, Crash, PowerLoss, ledgerVars
<1>2. Evolves(disk, disk) /\ Evolves(disk, file)
    BY EvolvesReflexive DEF LedgerInv, LedgerTypeOK, Ordered
<1> QED BY <1>1, <1>2 DEF Evolves

-----------------------------------------------------------------------------
(***************************************************************************)
(* The theorems.                                                           *)
(***************************************************************************)

\* The inductive invariant holds of every behaviour of the ledger.
THEOREM LedgerInvariant == LedgerSpec => []LedgerInv
BY InitInv, NextInv, PTL DEF LedgerSpec

\* Every body the ledger stages, renames, syncs, adopts or answers from is well formed.
THEOREM LedgerTypes == LedgerSpec => []LedgerTypeOK
<1>1. LedgerInv => LedgerTypeOK
    BY DEF LedgerInv
<1> QED BY <1>1, LedgerInvariant, PTL

\* consume_and_accept lets a binding execute at most once, over all crashes and restarts, and
\* a grant that was answered can no longer be lost.
THEOREM GrantsAreSafe == LedgerSpec => [](AtMostOneGrant /\ GrantIsDurable)
<1>1. LedgerInv => AtMostOneGrant /\ GrantIsDurable
    BY DEF LedgerInv, Grants, Ordered, Evolves, AtMostOneGrant, GrantIsDurable
<1> QED BY <1>1, LedgerInvariant, PTL

\* The replay fence: two granted bindings of one issuer share neither nonce nor attempt.
THEOREM ReplayFence == LedgerSpec => []GrantFence
<1>1. LedgerInv => GrantFence
    BY DEF LedgerInv, Grants, Bodies, Fenced, Present, GrantFence, Consumed, Terminal
<1> QED BY <1>1, LedgerInvariant, PTL

\* A healthy ledger answers only from what a restart would read back, serves an incarnation
\* only once it is durable, and holds no unfinished work of an older incarnation.
THEOREM ServingIsDurable ==
    LedgerSpec => [](AnswersAreDurable /\ IncarnationIsDurable /\ NoStaleWork)
<1>1. LedgerInv => AnswersAreDurable /\ IncarnationIsDurable /\ NoStaleWork
    BY DEF LedgerInv, Ordered, Bodies, Current, Present, AnswersAreDurable,
       IncarnationIsDurable, NoStaleWork
<1> QED BY <1>1, LedgerInvariant, PTL

\* A durable terminal entry is never replaced, removed or rewritten.
THEOREM TerminalEntriesAreFinal == LedgerSpec => TerminalIsFinal
<1>1. LedgerInv /\ [LedgerNext]_ledgerVars =>
         [\A b \in Bindings : disk.entries[b].state \in Terminal =>
             disk'.entries[b] = disk.entries[b]]_ledgerVars
    BY DiskEvolves DEF Evolves
<1> QED BY <1>1, LedgerInvariant, PTL DEF LedgerSpec, TerminalIsFinal

-----------------------------------------------------------------------------
(***************************************************************************)
(* The inductive invariant.  A handler owns its attempt from the answer    *)
(* that granted it until it stores a verdict.  While it does, every copy   *)
(* of the ledger body agrees on the state of that attempt: the other       *)
(* handlers' calls leave an accepted or running entry alone.               *)
(***************************************************************************)

\* Every copy of the ledger body has binding b in state s.
AllAt(b, s) ==
    /\ disk.entries[b].state = s /\ file.entries[b].state = s /\ mem.entries[b].state = s
    /\ staged.step # "free" => staged.body.entries[b].state = s

\* The handler was granted its attempt and has not asked to mark it running.
Entitled(h) == pc[h] = "mark" \/ (pc[h] = "accepted" /\ ret[h].tag = "Applied")

\* The handler's own change to the ledger is being published.
Pending(h) == staged.step # "free" /\ staged.by = h

Owner(h) == Entitled(h) \/ Executing(h) \/ (pc[h] = "marked" /\ Pending(h))

\* What a handler waits for while its change is published.
Awaits(h, b) ==
    /\ pc[h] \in {"received", "validated", "accepted", "marked", "stored"}
    /\ ret[h] = NoAnswer
    /\ staged.answer = Answer("Applied", staged.body.entries[b])
    /\ pc[h] = "accepted" =>
          /\ b \in staged.grant
          /\ mem.entries[b].state = "Validated" /\ staged.body.entries[b].state = "Accepted"
    /\ pc[h] = "marked" =>
          /\ granted[b] > 0 /\ realized[b] = 0
          /\ mem.entries[b].state = "Accepted" /\ staged.body.entries[b].state = "Running"

HandlerInv(h, b) ==
    /\ up # "up" => pc[h] = "idle"
    /\ pc[h] \notin Waits => ret[h] = NoAnswer
    /\ pc[h] \in {"preject", "xreject"} => reason[h] \in Reasons
    /\ ret[h].entry.state \in Terminal => disk.entries[b] = ret[h].entry
    /\ Entitled(h) => AllAt(b, "Accepted") /\ granted[b] > 0 /\ realized[b] = 0
    /\ Executing(h) => AllAt(b, "Running") /\ granted[b] > 0
    /\ Executing(h) /\ pc[h] \in {"marked", "checkstart", "realize"} => realized[b] = 0
    /\ pc[h] \in {"realizing", "store"} => realized[b] = 1
    /\ Pending(h) => Awaits(h, b)

\* No attempt has two owners.
Exclusive ==
    \A g, h \in Handlers : g # h /\ Owner(g) /\ Owner(h) => req[g].binding # req[h].binding

\* Results are recorded only of work that was granted and started, and only what is on the
\* disk was ever told.
Histories ==
    \A b \in Bindings :
        /\ realized[b] <= 1 /\ (realized[b] > 0 => granted[b] > 0)
        /\ \A body \in {disk, file, mem, staged.body} :
              body.entries[b].state = "TerminalCandidate" => realized[b] = 1
        /\ \A e \in told[b] : e.state \in Terminal /\ disk.entries[b] = e

ProviderInv ==
    /\ ProviderTypeOK /\ LedgerInv
    /\ \A h \in Handlers : HandlerInv(h, req[h].binding)
    /\ Exclusive /\ Histories

-----------------------------------------------------------------------------
(***************************************************************************)
(* The steps of a handler, by what they do to the ledger: calls, which     *)
(* answer or stage a body; taking an answer; and steps that leave it alone.*)
(***************************************************************************)
Calling(h) ==
    \/ QueryLedger(h) \/ Receive(h) \/ Requery(h) \/ Validate(h) \/ Accept(h)
    \/ Recheck(h) \/ MarkRunningCall(h) \/ StoreTerminal(h)
    \/ RecordPreacceptRejection(h) \/ RecordExecutionRejection(h) \/ Ask(h)

Taking(h) ==
    \/ Queried(h) \/ Received(h) \/ Requeried(h) \/ Validated(h) \/ Accepted(h)
    \/ Rechecked(h) \/ Marked(h) \/ Stored(h) \/ Asked(h)

Thinking(h) ==
    \/ Submit(h) \/ AskStatus(h) \/ CheckNew(h) \/ CheckDurable(h) \/ Prepare(h)
    \/ CheckAccept(h) \/ CheckStart(h) \/ StartRealizer(h) \/ Realized(h)

\* A handler's step is of one of the three kinds.
LEMMA HandlerSteps ==
    ASSUME NEW h \in Handlers
    PROVE  Submit(h) \/ AskStatus(h) \/ HandlerStep(h) <=> Calling(h) \/ Taking(h) \/ Thinking(h)
BY DEF HandlerStep, Calling, Taking, Thinking

\* A request that no handler holds is still a request.
LEMMA NoRequestGood == NoRequest \in [binding : Bindings, peer : Principals]
<1>1. PICK b \in Bindings : TRUE
    BY RequestsAssumption
<1>2. b.principal \in Principals
    BY DEF Principals
<1> QED BY <1>1, <1>2 DEF NoRequest

\* What a call of the ledger by handler h with request for b does: it answers at once, or it
\* stages the entry e for b.
AnswersAtOnce(h, b) ==
    /\ staged' = staged
    /\ \E a \in Result : /\ ret' = [ret EXCEPT ![h] = a]
                         /\ a.tag # "Applied"
                         /\ a.entry.state \in Terminal => disk.entries[b] = a.entry

\* Which entry e a handler that goes on from `from' to `to' may write, and with which grant.
Permits(from, to, b, e, g) ==
    \/ /\ to \in {"received", "validated", "stored"} /\ g = {}
       /\ mem.entries[b].state \notin {"Accepted", "Running"}
       /\ e.state # "TerminalCandidate"
    \/ /\ from = "accept" /\ to = "accepted" /\ g = {b}
       /\ mem.entries[b].state = "Validated" /\ e.state = "Accepted"
    \/ /\ from = "mark" /\ to = "marked" /\ g = {}
       /\ mem.entries[b].state = "Accepted" /\ e.state = "Running"
    \/ /\ from \in {"store", "xreject"} /\ to = "stored" /\ g = {}
       /\ e.state = "TerminalCandidate" => from = "store"

Stages(h, b, e, g) ==
    /\ staged' = [step |-> "written", by |-> h, body |-> [mem EXCEPT !.entries[b] = e],
                  answer |-> Answer("Applied", e), grant |-> g]
    /\ ret' = [ret EXCEPT ![h] = NoAnswer]
    /\ staged.step = "free" /\ mem = disk /\ mem = file

\* A mutation that writes a permitted entry, or nothing.
Writes(m, from, to, b) ==
    \/ m = Refuse(mem) \/ m = Keep(mem, "Duplicate", b)
    \/ \E e \in Entry, g \in {{}, {b}} :
          m = Write(mem, b, e, g) /\ Permits(from, to, b, e, g)

Outcome(h, from, to, b) ==
    /\ UNCHANGED <<disk, file, mem, up, granted>> /\ up = "up"
    /\ \/ AnswersAtOnce(h, b)
       \/ \E e \in Entry, g \in {{}, {b}} : Permits(from, to, b, e, g) /\ Stages(h, b, e, g)

CallShape(h, b) ==
    /\ UNCHANGED <<req, reason, realized, told>>
    /\ pc[h] \in Calls
    /\ \E to \in Waits : pc' = [pc EXCEPT ![h] = to] /\ Outcome(h, pc[h], to, b)

\* A refusal or a read: what Mutate does with a mutation that changes nothing.
LEMMA AnswerShape ==
    ASSUME ProviderInv, NEW h \in Handlers, NEW b \in Bindings,
           \/ Unhealthy(h) \/ VerifyFails(h)
           \/ \E peer \in Principals : Read(h, Query(mem, b, peer))
    PROVE  /\ AnswersAtOnce(h, b) /\ up = "up"
           /\ UNCHANGED <<disk, file, mem, up, granted>>
<1>1. mem \in Body /\ mem.entries[b] \in Entry /\ NoEntry \in Entry /\ NoEntry.state = "Absent"
    BY DEF ProviderInv, LedgerInv, LedgerTypeOK, Body, NoEntry, EntryOf, Entry, Details
<1>2. /\ Error \in Result /\ Error.tag # "Applied" /\ Error.entry.state \notin Terminal
    BY <1>1, RestFacts DEF Error, Answer, Terminal
<1>3. CASE Unhealthy(h) \/ VerifyFails(h)
    BY <1>2, <1>3 DEF Unhealthy, VerifyFails, AnswersAtOnce, Locked
<1>4. CASE \E peer \in Principals : Read(h, Query(mem, b, peer))
    <2>1. PICK peer \in Principals : Read(h, Query(mem, b, peer))
        BY <1>4
    <2> DEFINE a == Query(mem, b, peer)
    <2>2. /\ a \in Result /\ a.tag # "Applied"
          /\ a.entry = NoEntry \/ a.entry = mem.entries[b]
        BY <1>1 DEF Query, Answer, Result, Tags
    <2>3. mem = disk
        BY <2>1 DEF Read, ProviderInv, LedgerInv, Ordered
    <2>4. a.entry.state \in Terminal => disk.entries[b] = a.entry
        BY <1>1, <2>2, <2>3 DEF Terminal
    <2> HIDE DEF a
    <2> QED BY <2>1, <2>2, <2>4 DEF Read, AnswersAtOnce, a, Locked
<1> QED BY <1>3, <1>4

\* with_mutation() with a mutation that writes the entry of b or nothing.
LEMMA MutateShape ==
    ASSUME ProviderInv, NEW h \in Handlers, NEW b \in Bindings, NEW m, Mutate(h, m),
           NEW from, NEW to,
           Writes(m, from, to, b)
    PROVE  Outcome(h, from, to, b)
<1>1. /\ mem.entries[b] \in Entry /\ NoEntry \in Entry /\ NoEntry.state = "Absent"
      /\ Error \in Result /\ Error.tag # "Applied" /\ Error.entry.state \notin Terminal
    BY RestFacts DEF ProviderInv, LedgerInv, LedgerTypeOK, Body, NoEntry, EntryOf, Entry,
       Details, Error, Answer, Terminal
<1>2. /\ UNCHANGED <<disk, file, mem, up, granted>> /\ up = "up"
      /\ staged.step = "free" /\ mem = disk /\ mem = file
    BY DEF Mutate, Locked, ProviderInv, LedgerInv, Ordered
<1>3. CASE m = Refuse(mem) \/ m = Keep(mem, "Duplicate", b)
    <2>1. /\ ~m.changed /\ m.answer \in Result /\ m.answer.tag # "Applied"
          /\ m.answer.entry.state \in Terminal => disk.entries[b] = m.answer.entry
        BY <1>1, <1>2, <1>3 DEF Refuse, Keep, Answer, Result, Tags
    <2> QED BY <1>2, <2>1 DEF Mutate, AnswersAtOnce, Outcome
<1>4. CASE \E e \in Entry, g \in {{}, {b}} :
              m = Write(mem, b, e, g) /\ Permits(from, to, b, e, g)
    <2>1. PICK e \in Entry, g \in {{}, {b}} :
              m = Write(mem, b, e, g) /\ Permits(from, to, b, e, g)
        BY <1>4
    <2>2. /\ m.changed /\ m.body = [mem EXCEPT !.entries[b] = e] /\ m.grant = g
          /\ m.answer = Answer("Applied", e)
        BY <2>1 DEF Write
    <2>3. CASE ValidBody(m.body)
        BY <1>2, <2>1, <2>2, <2>3 DEF Mutate, Stages, Outcome
    <2>4. CASE ~ValidBody(m.body)
        BY <1>1, <1>2, <2>2, <2>4 DEF Mutate, AnswersAtOnce, Outcome
    <2> QED BY <2>3, <2>4
<1> QED BY <1>2, <1>3, <1>4 DEF Writes, Outcome

\* The operations write only the entries their callers are permitted to write.
LEMMA OperationsPermitted ==
    ASSUME ProviderInv, NEW b \in Bindings
    PROVE  /\ Writes(RecordReceived(mem, b), "receive", "received", b)
           /\ Writes(RecordValidated(mem, b), "validate", "validated", b)
           /\ Writes(ConsumeAndAccept(mem, b), "accept", "accepted", b)
           /\ Writes(MarkRunning(mem, b), "mark", "marked", b)
           /\ \A p \in Payloads : Writes(RecordTerminalCandidate(mem, b, p), "store", "stored", b)
           /\ \A r \in Reasons : Writes(RecordPreacceptRejected(mem, b, r), "preject", "stored", b)
           /\ \A r \in Reasons : Writes(RecordRejected(mem, b, r), "xreject", "stored", b)
<1>1. mem \in Body /\ mem.entries[b] \in Entry
    BY DEF ProviderInv, LedgerInv, LedgerTypeOK, Body
<1>2. \A s \in Incomplete \cup Terminal, d \in Details : EntryOf(s, d) \in Entry
    BY DEF EntryOf, Entry
<1>3. NoDetail \in Details /\ Payloads \subseteq Details /\ Reasons \subseteq Details
    BY DEF Details
<1>4. \A s, d : EntryOf(s, d).state = s
    BY DEF EntryOf
<1>5. /\ Locate(mem, b) = "Unknown" => mem.entries[b].state = "Absent"
      /\ Locate(mem, b) = "Exact" => mem.entries[b].state # "Absent"
    BY <1>1, LocateMeaning
<1> USE <1>2, <1>3, <1>4, <1>5 DEF Incomplete, Terminal, Put, Permits, Writes
<1>6. Writes(RecordReceived(mem, b), "receive", "received", b)
    BY DEF RecordReceived
<1>7. Writes(RecordValidated(mem, b), "validate", "validated", b)
    BY DEF RecordValidated
<1>8. Writes(ConsumeAndAccept(mem, b), "accept", "accepted", b)
    BY DEF ConsumeAndAccept
<1>9. Writes(MarkRunning(mem, b), "mark", "marked", b)
    BY DEF MarkRunning
<1>10. ASSUME NEW p \in Payloads
       PROVE  Writes(RecordTerminalCandidate(mem, b, p), "store", "stored", b)
    <2>1. CASE Locate(mem, b) = "Exact" /\ mem.entries[b].state = "Running"
        <3>1. RecordTerminalCandidate(mem, b, p) = Write(mem, b, EntryOf("TerminalCandidate", p), {})
            BY <2>1 DEF RecordTerminalCandidate
        <3> QED BY <3>1
    <2>2. CASE ~(Locate(mem, b) = "Exact" /\ mem.entries[b].state = "Running")
        BY <2>2 DEF RecordTerminalCandidate
    <2> QED BY <2>1, <2>2
<1>11. \A r \in Reasons : Writes(RecordPreacceptRejected(mem, b, r), "preject", "stored", b)
    BY DEF RecordPreacceptRejected
<1>12. \A r \in Reasons : Writes(RecordRejected(mem, b, r), "xreject", "stored", b)
    BY DEF RecordRejected
<1> QED BY <1>6, <1>7, <1>8, <1>9, <1>10, <1>11, <1>12

\* Every call of the ledger by a handler has that shape.
LEMMA CallingShape ==
    ASSUME ProviderInv, NEW h \in Handlers, Calling(h)
    PROVE  CallShape(h, req[h].binding)
<1> DEFINE b == req[h].binding
<1>1. b \in Bindings /\ req[h].peer \in Principals /\ pc \in [Handlers -> Calls \cup Waits \cup Local]
    BY DEF ProviderInv, ProviderTypeOK
<1>2. ASSUME NEW from \in Calls, NEW to \in Waits, NEW m, Writes(m, from, to, b),
             LedgerCall(h, from, to, Mutate(h, m))
      PROVE  CallShape(h, b)
    <2>1. /\ pc[h] = from /\ pc' = [pc EXCEPT ![h] = to]
          /\ UNCHANGED <<req, reason, realized, told>>
          /\ Mutate(h, m) \/ Unhealthy(h) \/ VerifyFails(h)
        BY <1>2 DEF LedgerCall, Goto
    <2> HIDE DEF b
    <2>2. CASE Mutate(h, m)
        <3>1. Outcome(h, from, to, b)
            BY <1>1, <1>2, <2>2, MutateShape
        <3> QED BY <1>2, <2>1, <3>1 DEF CallShape
    <2>3. CASE Unhealthy(h) \/ VerifyFails(h)
        BY <1>1, <2>1, <2>3, AnswerShape DEF CallShape, Outcome
    <2> QED BY <2>1, <2>2, <2>3
<1>3. ASSUME NEW from \in Calls, NEW to \in Waits,
             LedgerCall(h, from, to, Read(h, Query(mem, b, req[h].peer)))
      PROVE  CallShape(h, b)
    <2>1. /\ pc[h] = from /\ pc' = [pc EXCEPT ![h] = to]
          /\ UNCHANGED <<req, reason, realized, told>>
          /\ Read(h, Query(mem, b, req[h].peer)) \/ Unhealthy(h) \/ VerifyFails(h)
        BY <1>3 DEF LedgerCall, Goto
    <2> HIDE DEF b
    <2>2. AnswersAtOnce(h, b) /\ up = "up" /\ UNCHANGED <<disk, file, mem, up, granted>>
        BY <1>1, <2>1, AnswerShape
    <2> QED BY <2>1, <2>2 DEF CallShape, Outcome
<1>4. Calling(h) => CallShape(h, b)
    <2>1. QueryLedger(h) \/ Requery(h) \/ Recheck(h) \/ Ask(h) => CallShape(h, b)
        BY <1>3 DEF QueryLedger, Requery, Recheck, Ask, Calls, Waits
    <2>2. ASSUME Receive(h) \/ Validate(h) \/ Accept(h) \/ MarkRunningCall(h)
          PROVE  CallShape(h, b)
        BY <1>1, <1>2, <2>2, OperationsPermitted
           DEF Receive, Validate, Accept, MarkRunningCall, Calls, Waits
    <2>3. ASSUME StoreTerminal(h) PROVE CallShape(h, b)
        BY <1>1, <1>2, <2>3, OperationsPermitted DEF StoreTerminal, Calls, Waits
    <2>4. ASSUME RecordPreacceptRejection(h) \/ RecordExecutionRejection(h)
          PROVE  CallShape(h, b)
        <3>1. reason[h] \in Reasons
            BY <2>4 DEF RecordPreacceptRejection, RecordExecutionRejection, LedgerCall,
               ProviderInv, HandlerInv
        <3> QED BY <1>1, <1>2, <2>4, <3>1, OperationsPermitted
                DEF RecordPreacceptRejection, RecordExecutionRejection, Calls, Waits
    <2> QED BY <2>1, <2>2, <2>3, <2>4 DEF Calling
<1> QED BY <1>4

\* What a handler does with an answer: it goes on, or it replies and is done.
TakeShape(h, b) ==
    /\ UNCHANGED <<disk, file, mem, up, poisoned, staged, granted, realized>>
    /\ pc[h] \in Waits /\ ret[h].tag # "None" /\ ret' = [ret EXCEPT ![h] = NoAnswer]
    /\ \/ told' = told
       \/ ret[h].entry.state \in Terminal /\ told' = [told EXCEPT ![b] = @ \cup {ret[h].entry}]
    /\ \E to \in Calls \cup Local :
          /\ pc' = [pc EXCEPT ![h] = to]
          /\ \/ /\ to = "idle" /\ req' = [req EXCEPT ![h] = NoRequest]
                /\ reason' = [reason EXCEPT ![h] = "none"]
             \/ /\ UNCHANGED <<req, reason>>
                /\ \/ to \in {"check", "checkdurable", "requery", "prepare", "checkaccept", "recheck"}
                   \/ pc[h] = "accepted" /\ ret[h].tag = "Applied" /\ to = "mark"
                   \/ pc[h] = "marked" /\ ret[h].tag = "Applied" /\ to = "checkstart"

LEMMA TakingShape ==
    ASSUME NEW h \in Handlers, Taking(h)
    PROVE  TakeShape(h, req[h].binding)
<1> DEFINE b == req[h].binding
<1>1. Take(h) /\ pc[h] \in Waits
    BY DEF Taking, Queried, Received, Requeried, Validated, Accepted, Rechecked, Marked,
       Stored, Asked, Answered, Waits
<1>2. /\ UNCHANGED <<disk, file, mem, up, poisoned, staged, granted>>
      /\ ret[h].tag # "None" /\ ret' = [ret EXCEPT ![h] = NoAnswer]
    BY <1>1 DEF Take
<1>3. ASSUME ReplyFromEntry(h) \/ ReplyUnrecorded(h) PROVE TakeShape(h, b)
    BY <1>1, <1>2, <1>3 DEF ReplyFromEntry, ReplyUnrecorded, Done, Goto, TakeShape, Local
<1>4. ASSUME NEW to \in Calls \cup Local, Continue(h, to),
             \/ to \in {"check", "checkdurable", "requery", "prepare", "checkaccept", "recheck"}
             \/ pc[h] = "accepted" /\ ret[h].tag = "Applied" /\ to = "mark"
             \/ pc[h] = "marked" /\ ret[h].tag = "Applied" /\ to = "checkstart"
      PROVE  TakeShape(h, b)
    BY <1>1, <1>2, <1>4 DEF Continue, Goto, TakeShape
<1>5. \/ ReplyFromEntry(h) \/ ReplyUnrecorded(h)
      \/ \E to \in Calls \cup Local :
            /\ Continue(h, to)
            /\ \/ to \in {"check", "checkdurable", "requery", "prepare", "checkaccept", "recheck"}
               \/ pc[h] = "accepted" /\ ret[h].tag = "Applied" /\ to = "mark"
               \/ pc[h] = "marked" /\ ret[h].tag = "Applied" /\ to = "checkstart"
    <2>1. {"check", "checkdurable", "requery", "prepare", "checkaccept", "recheck", "mark",
           "checkstart"} \subseteq Calls \cup Local
        BY DEF Calls, Local
    <2> QED BY <2>1 DEF Taking, Queried, Received, Requeried, Validated, Accepted, Rechecked,
               Marked, Stored, Asked, Answered
<1> QED BY <1>3, <1>4, <1>5

\* What a handler does between two calls.
ThinkShape(h, b) ==
    /\ UNCHANGED <<ledgerVars, told>>
    /\ pc[h] \notin Waits
    /\ \E to \in Calls \cup Local, q \in [binding : Bindings, peer : Principals],
          why \in Reasons \cup {"none"} :
          /\ pc' = [pc EXCEPT ![h] = to] /\ req' = [req EXCEPT ![h] = q]
          /\ reason' = [reason EXCEPT ![h] = why]
          /\ pc[h] = "idle" => up = "up"
          /\ to \in {"preject", "xreject"} => why \in Reasons
          /\ \/ /\ to \in {"idle", "query", "ask", "receive", "validate", "accept", "preject"}
                /\ realized' = realized
             \/ /\ q = req[h] /\ realized' = realized
                /\ \/ pc[h] = "checkstart" /\ to \in {"realize", "xreject"}
                   \/ pc[h] = "realizing" /\ to \in {"store", "xreject"}
             \/ /\ q = req[h] /\ pc[h] = "realize" /\ to = "realizing"
                /\ realized' = [realized EXCEPT ![b] = @ + 1]

LEMMA ThinkingShape ==
    ASSUME ProviderTypeOK, NEW h \in Handlers, Thinking(h)
    PROVE  ThinkShape(h, req[h].binding)
<1>1. /\ req[h] \in [binding : Bindings, peer : Principals] /\ req = [req EXCEPT ![h] = req[h]]
      /\ reason[h] \in Reasons \cup {"none"} /\ reason = [reason EXCEPT ![h] = reason[h]]
      /\ NoRequest \in [binding : Bindings, peer : Principals]
    BY NoRequestGood DEF ProviderTypeOK
<1>2. {"expired", "stale", "unreconstructed", "unrealized"} \subseteq Reasons
    BY ReasonsAssumption
<1>3. CASE Submit(h) \/ AskStatus(h)
    BY <1>1, <1>3 DEF Submit, AskStatus, ThinkShape, Goto, Calls, Waits
<1>4. CASE CheckNew(h) \/ CheckDurable(h) \/ CheckAccept(h) \/ CheckStart(h)
    BY <1>1, <1>2, <1>4 DEF CheckNew, CheckDurable, CheckAccept, CheckStart, LeaseCheck,
       Continue, ReplyUnrecorded, Reject, Done, ThinkShape, Goto, Calls, Waits, Local
<1>5. CASE Prepare(h) \/ Realized(h)
    BY <1>1, <1>2, <1>5 DEF Prepare, Realized,
       Continue, ReplyUnrecorded, Reject, Done, ThinkShape, Goto, Calls, Waits, Local
<1>6. CASE StartRealizer(h)
    BY <1>1, <1>6 DEF StartRealizer, ThinkShape, Goto, Waits, Local
<1> QED BY <1>3, <1>4, <1>5, <1>6 DEF Thinking

-----------------------------------------------------------------------------
(***************************************************************************)
(* Every step of the provider is a step of the ledger.                     *)
(***************************************************************************)

\* Handlers use the ledger only through its operations, with known bindings, peers and
\* reasons, and the rest of the provider's steps are the ledger's own.
LEMMA ProviderLedgerStep == ProviderInv /\ [ProviderNext]_vars => [LedgerNext]_ledgerVars
<1> SUFFICES ASSUME ProviderInv, [ProviderNext]_vars PROVE [LedgerNext]_ledgerVars
    OBVIOUS
<1>1. ASSUME NEW h \in Handlers, Calling(h) PROVE LedgerNext
    <2>1. /\ req[h].binding \in Bindings /\ h \in Callers
          /\ req[h].peer \in {x.principal : x \in Bindings}
        BY DEF ProviderInv, ProviderTypeOK, Handlers, Principals
    <2>2. pc[h] \in {"preject", "xreject"} => reason[h] \in Reasons
        BY DEF ProviderInv, HandlerInv
    <2>3. Call(h) \/ Unhealthy(h) \/ VerifyFails(h)
        BY <1>1, <2>1, <2>2 DEF Calling, QueryLedger, Receive, Requery, Validate, Accept, Recheck,
           MarkRunningCall, StoreTerminal, RecordPreacceptRejection, RecordExecutionRejection,
           Ask, LedgerCall, Call
    <2> QED BY <2>1, <2>3 DEF LedgerNext
<1>2. ASSUME NEW h \in Handlers, Taking(h) PROVE LedgerNext
    BY <1>2 DEF Taking, Queried, Received, Requeried, Validated, Accepted, Rechecked, Marked,
       Stored, Asked, Answered, LedgerNext, Handlers
<1>3. ASSUME NEW h \in Handlers, Thinking(h) PROVE UNCHANGED ledgerVars
    BY <1>3, ThinkingShape DEF ThinkShape, ProviderInv
<1>4. CASE \E h \in Handlers : Submit(h) \/ AskStatus(h) \/ HandlerStep(h)
    BY <1>1, <1>2, <1>3, <1>4, HandlerSteps
<1>5. CASE PublicationStep \/ Open \/ PublicationFails \/ ProcessDies
    BY <1>5 DEF PublicationStep, ProcessDies, LedgerNext, Environment
<1>6. CASE UNCHANGED vars
    BY <1>6 DEF vars
<1>7. CASE ProviderNext
    BY <1>4, <1>5, <1>7 DEF ProviderNext
<1> QED BY <1>6, <1>7

\* The types of the handlers' variables.
LEMMA HandlerTypes ==
    ASSUME ProviderInv, [ProviderNext]_vars, LedgerTypeOK'
    PROVE  ProviderTypeOK'
<1>1. /\ pc \in [Handlers -> Calls \cup Waits \cup Local]
      /\ req \in [Handlers -> [binding : Bindings, peer : Principals]]
      /\ reason \in [Handlers -> Reasons \cup {"none"}]
      /\ realized \in [Bindings -> Nat] /\ told \in [Bindings -> SUBSET Entry]
      /\ ret \in [Handlers -> Result]
    BY DEF ProviderInv, ProviderTypeOK, LedgerTypeOK, Handlers
<1>2. ASSUME NEW h \in Handlers, Calling(h) PROVE ProviderTypeOK'
    BY <1>1, <1>2, CallingShape DEF CallShape, ProviderTypeOK
<1>3. ASSUME NEW h \in Handlers, Taking(h) PROVE ProviderTypeOK'
    <2>1. ret[h].entry \in Entry /\ req[h].binding \in Bindings
        BY <1>1 DEF Result
    <2>2. told' \in [Bindings -> SUBSET Entry] /\ realized' \in [Bindings -> Nat]
        BY <1>1, <1>3, <2>1, TakingShape DEF TakeShape
    <2>3. /\ pc' \in [Handlers -> Calls \cup Waits \cup Local]
          /\ req' \in [Handlers -> [binding : Bindings, peer : Principals]]
          /\ reason' \in [Handlers -> Reasons \cup {"none"}]
        <3>1. PICK to \in Calls \cup Local :
                /\ pc' = [pc EXCEPT ![h] = to]
                /\ \/ /\ req' = [req EXCEPT ![h] = NoRequest]
                      /\ reason' = [reason EXCEPT ![h] = "none"]
                   \/ UNCHANGED <<req, reason>>
            BY <1>3, TakingShape DEF TakeShape
        <3> QED BY ZenonT(40), <1>1, <3>1, NoRequestGood
    <2> QED BY <2>2, <2>3 DEF ProviderTypeOK
<1>4. ASSUME NEW h \in Handlers, Thinking(h) PROVE ProviderTypeOK'
    <2>1. ThinkShape(h, req[h].binding)
        BY <1>4, ThinkingShape DEF ProviderInv
    <2>2. told' \in [Bindings -> SUBSET Entry] /\ realized' \in [Bindings -> Nat]
        BY <1>1, <2>1 DEF ThinkShape
    <2>3. /\ pc' \in [Handlers -> Calls \cup Waits \cup Local]
          /\ req' \in [Handlers -> [binding : Bindings, peer : Principals]]
          /\ reason' \in [Handlers -> Reasons \cup {"none"}]
        BY <1>1, <2>1 DEF ThinkShape
    <2> QED BY <2>2, <2>3 DEF ProviderTypeOK
<1>5. CASE UNCHANGED handlerVars
    BY <1>1, <1>5 DEF handlerVars, ProviderTypeOK
<1>6. CASE ProcessDies
    BY <1>1, <1>6, NoRequestGood DEF ProcessDies, ProviderTypeOK, Local
<1>7. CASE ProviderNext
    BY <1>2, <1>3, <1>4, <1>5, <1>6, <1>7, HandlerSteps DEF ProviderNext, PublicationStep
<1>8. CASE UNCHANGED vars
    BY <1>5, <1>8 DEF vars
<1> QED BY <1>7, <1>8

-----------------------------------------------------------------------------
(***************************************************************************)
(* Every step keeps the handlers' part of the invariant.                   *)
(***************************************************************************)
Handling == (\A h \in Handlers : HandlerInv(h, req[h].binding)) /\ Exclusive /\ Histories

\* The facts about the variables' types that the steps below use.
LEMMA TypeFacts ==
    ASSUME ProviderInv
    PROVE  /\ pc \in [Handlers -> Calls \cup Waits \cup Local]
           /\ req \in [Handlers -> [binding : Bindings, peer : Principals]]
           /\ reason \in [Handlers -> Reasons \cup {"none"}]
           /\ realized \in [Bindings -> Nat] /\ told \in [Bindings -> SUBSET Entry]
           /\ ret \in [Handlers -> Result] /\ granted \in [Bindings -> Nat]
           /\ disk \in Body /\ file \in Body /\ mem \in Body /\ staged.body \in Body
           /\ \A body \in {disk, file, mem, staged.body} : body.entries \in [Bindings -> Entry]
           /\ NoAnswer.tag = "None" /\ NoAnswer.entry.state \notin Terminal
BY DEF ProviderInv, ProviderTypeOK, LedgerTypeOK, Handlers, Stage, Body, NoAnswer, Answer,
   NoEntry, EntryOf, Terminal

\* A call that is answered at once leaves its handler without an attempt of its own.
LEMMA AnsweredHandling ==
    ASSUME ProviderInv, NEW h \in Handlers, CallShape(h, req[h].binding),
           AnswersAtOnce(h, req[h].binding)
    PROVE  Handling'
<1>1. /\ UNCHANGED <<disk, file, mem, up, granted, req, reason, realized, told, staged>>
      /\ pc[h] \in Calls /\ up = "up"
    BY DEF CallShape, Outcome, AnswersAtOnce
<1>2. PICK to \in Waits, a \in Result :
        /\ pc' = [pc EXCEPT ![h] = to] /\ ret' = [ret EXCEPT ![h] = a]
        /\ a.tag # "Applied"
        /\ a.entry.state \in Terminal => disk.entries[req[h].binding] = a.entry
    BY DEF CallShape, AnswersAtOnce
<1>3. /\ pc'[h] = to /\ ret'[h] = a
      /\ \A g \in Handlers \ {h} : pc'[g] = pc[g] /\ ret'[g] = ret[g]
    BY <1>2, TypeFacts
<1>4. ~Pending(h)
    BY <1>1 DEF ProviderInv, HandlerInv, Awaits, Calls
<1>5. ~Entitled(h)' /\ ~Executing(h)' /\ ~Pending(h)'
    BY <1>1, <1>2, <1>3, <1>4 DEF Entitled, Executing, Pending, Waits
<1>6. HandlerInv(h, req[h].binding)'
    BY <1>1, <1>2, <1>3, <1>5 DEF HandlerInv, Waits
<1>7. ASSUME NEW g \in Handlers \ {h}
      PROVE  HandlerInv(g, req[g].binding)' /\ (Owner(g)' <=> Owner(g))
    BY <1>1, <1>3 DEF ProviderInv, HandlerInv, Owner, Entitled, Executing, Pending, Awaits, AllAt
<1>8. Exclusive'
    BY <1>1, <1>5, <1>7 DEF ProviderInv, Exclusive, Owner
<1>9. Histories'
    BY <1>1 DEF ProviderInv, Histories
<1> QED BY <1>6, <1>7, <1>8, <1>9 DEF Handling

\* A call that stages an entry for b touches no other owner's attempt.
LEMMA StagedHandling ==
    ASSUME ProviderInv, NEW h \in Handlers, CallShape(h, req[h].binding),
           ~AnswersAtOnce(h, req[h].binding)
    PROVE  Handling'
<1> DEFINE b == req[h].binding
<1>1. /\ UNCHANGED <<disk, file, mem, up, granted, req, reason, realized, told>>
      /\ pc[h] \in Calls /\ up = "up"
    BY DEF CallShape, Outcome
<1>2. PICK to \in Waits, e \in Entry, g \in {{}, {b}} :
        /\ pc' = [pc EXCEPT ![h] = to]
        /\ Permits(pc[h], to, b, e, g) /\ Stages(h, b, e, g)
    BY DEF CallShape, Outcome
<1>3. /\ pc'[h] = to /\ ret'[h] = NoAnswer /\ b \in Bindings
      /\ \A f \in Handlers \ {h} : pc'[f] = pc[f] /\ ret'[f] = ret[f]
    BY <1>2, TypeFacts DEF Stages
<1>4. /\ staged.step = "free" /\ mem = disk /\ mem = file
      /\ staged'.step # "free" /\ staged'.by = h /\ staged'.grant = g
      /\ staged'.answer = Answer("Applied", e)
      /\ staged'.body = [mem EXCEPT !.entries[b] = e]
    BY <1>2 DEF Stages
<1>5. /\ staged'.body.entries[b] = e
      /\ \A c \in Bindings \ {b} : staged'.body.entries[c] = mem.entries[c]
    BY <1>3, <1>4, TypeFacts DEF Body
<1>6. /\ pc[h] = "mark" => Owner(h) /\ Entitled(h)
      /\ pc[h] \in {"store", "xreject"} => Owner(h)
    BY DEF Owner, Entitled, Executing
<1>7. \A f \in Handlers \ {h} :
        /\ ~Pending(f) /\ ~Pending(f)'
        /\ Entitled(f)' <=> Entitled(f)
        /\ Executing(f)' <=> Executing(f)
    BY <1>3, <1>4 DEF Pending, Entitled, Executing
<1>8. Pending(h)' /\ ~Entitled(h)' /\ ~Executing(h)'
    BY <1>2, <1>3, <1>4, TypeFacts DEF Pending, Entitled, Executing, Waits
<1>9. Awaits(h, b)'
    <2>1. to \in {"received", "validated", "accepted", "marked", "stored"}
        BY <1>2 DEF Permits
    <2>2. /\ to = "accepted" => /\ g = {b} /\ mem.entries[b].state = "Validated"
                               /\ e.state = "Accepted"
          /\ to = "marked" => /\ pc[h] = "mark" /\ mem.entries[b].state = "Accepted"
                             /\ e.state = "Running"
        BY <1>2 DEF Permits
    <2>3. pc[h] = "mark" => granted[b] > 0 /\ realized[b] = 0
        BY <1>6 DEF ProviderInv, HandlerInv
    <2> QED BY <1>1, <1>3, <1>4, <1>5, <2>1, <2>2, <2>3 DEF Awaits
<1>10. HandlerInv(h, req[h].binding)'
    BY <1>1, <1>2, <1>3, <1>8, <1>9, TypeFacts DEF HandlerInv, Waits
<1>11. ASSUME NEW f \in Handlers \ {h}, Owner(f)
       PROVE  req[f].binding # b \/ (staged'.body.entries[b].state = mem.entries[b].state)
    <2>1. mem.entries[req[f].binding].state \in {"Accepted", "Running"}
        BY <1>7, <1>11 DEF ProviderInv, HandlerInv, Owner, AllAt
    <2>2. Owner(h) => req[f].binding # b
        BY <1>11 DEF ProviderInv, Exclusive
    <2> QED BY <1>2, <1>6, <2>1, <2>2 DEF Permits
<1>12. ASSUME NEW f \in Handlers \ {h} PROVE HandlerInv(f, req[f].binding)'
    <2>1. HandlerInv(f, req[f].binding) /\ req[f].binding \in Bindings
        BY TypeFacts DEF ProviderInv
    <2>2. ASSUME NEW st, AllAt(req[f].binding, st), Owner(f) PROVE AllAt(req[f].binding, st)'
        BY <1>1, <1>4, <1>5, <1>11, <2>1, <2>2 DEF AllAt
    <2> QED BY <1>1, <1>3, <1>7, <2>1, <2>2 DEF HandlerInv, Owner
<1>13. Exclusive'
    <2>1. \A f \in Handlers : Owner(f)' => Owner(f)
        <3>1. Owner(h)' => Owner(h)
            BY <1>2, <1>3, <1>6, <1>8 DEF Owner, Permits
        <3> QED BY <1>3, <1>7, <3>1 DEF Owner
    <2> QED BY <1>1, <2>1 DEF ProviderInv, Exclusive
<1>14. Histories'
    <2>1. e.state = "TerminalCandidate" => realized[b] = 1
        <3>1. pc[h] = "store" => realized[b] = 1
            BY DEF ProviderInv, HandlerInv
        <3> QED BY <1>2, <3>1 DEF Permits
    <2>2. \A c \in Bindings : staged'.body.entries[c].state = "TerminalCandidate" => realized[c] = 1
        BY <1>5, <2>1 DEF ProviderInv, Histories
    <2> QED BY <1>1, <2>2 DEF ProviderInv, Histories
<1> QED BY <1>10, <1>12, <1>13, <1>14 DEF Handling

\* Taking an answer: the grant and the mark carry the attempt on, a reply ends it and tells
\* only what is on the disk.
LEMMA TakingHandling ==
    ASSUME ProviderInv, NEW h \in Handlers, TakeShape(h, req[h].binding)
    PROVE  Handling'
<1> DEFINE b == req[h].binding
<1>1. /\ UNCHANGED <<disk, file, mem, up, poisoned, staged, granted, realized>>
      /\ pc[h] \in Waits /\ ret[h].tag # "None" /\ ret' = [ret EXCEPT ![h] = NoAnswer]
      /\ b \in Bindings
    BY TypeFacts DEF TakeShape
<1>2. PICK to \in Calls \cup Local :
        /\ pc' = [pc EXCEPT ![h] = to]
        /\ \/ /\ to = "idle" /\ req' = [req EXCEPT ![h] = NoRequest]
              /\ reason' = [reason EXCEPT ![h] = "none"]
           \/ /\ UNCHANGED <<req, reason>>
              /\ \/ to \in {"check", "checkdurable", "requery", "prepare", "checkaccept", "recheck"}
                 \/ pc[h] = "accepted" /\ ret[h].tag = "Applied" /\ to = "mark"
                 \/ pc[h] = "marked" /\ ret[h].tag = "Applied" /\ to = "checkstart"
    BY DEF TakeShape
<1>3. /\ pc'[h] = to /\ ret'[h] = NoAnswer
      /\ \A f \in Handlers \ {h} : pc'[f] = pc[f] /\ ret'[f] = ret[f] /\ req'[f] = req[f]
                                   /\ reason'[f] = reason[f]
    BY <1>1, <1>2, TypeFacts
<1>4. ~Pending(h) /\ ~Pending(h)'
    BY <1>1, TypeFacts DEF ProviderInv, HandlerInv, Awaits, Pending
<1>5. \A f \in Handlers \ {h} : HandlerInv(f, req[f].binding)' /\ (Owner(f)' <=> Owner(f))
    BY <1>1, <1>3 DEF ProviderInv, HandlerInv, Owner, Entitled, Executing, Pending, Awaits, AllAt
<1>6. /\ Entitled(h)' => Entitled(h) /\ req' = req
      /\ Executing(h)' => Executing(h) /\ pc[h] = "marked" /\ pc'[h] = "checkstart" /\ req' = req
    BY <1>1, <1>2, <1>3, TypeFacts DEF Entitled, Executing, Calls, Local
<1>7. HandlerInv(h, req[h].binding)'
    <2>1. HandlerInv(h, b)
        BY DEF ProviderInv
    <2>2. /\ to \notin {"preject", "xreject", "realizing", "store"}
          /\ pc[h] # "idle"
        BY <1>1, <1>2 DEF Waits
    <2>3. /\ Entitled(h)' => AllAt(req[h].binding, "Accepted")'
          /\ Executing(h)' => AllAt(req[h].binding, "Running")'
        BY <1>1, <1>6, <2>1 DEF HandlerInv, AllAt
    <2> QED BY <1>1, <1>3, <1>4, <1>6, <2>1, <2>2, <2>3, TypeFacts DEF HandlerInv
<1>8. Exclusive'
    <2>1. \A f \in Handlers : Owner(f)' => Owner(f) /\ req'[f] = req[f]
        BY <1>3, <1>4, <1>5, <1>6 DEF Owner
    <2> QED BY <2>1 DEF ProviderInv, Exclusive
<1>9. Histories'
    <2>1. \A c \in Bindings : \A x \in told'[c] : x.state \in Terminal /\ disk.entries[c] = x
        <3>1. CASE told' = told
            BY <3>1 DEF ProviderInv, Histories
        <3>2. CASE ret[h].entry.state \in Terminal /\ told' = [told EXCEPT ![b] = @ \cup {ret[h].entry}]
            <4>1. disk.entries[b] = ret[h].entry
                BY <3>2 DEF ProviderInv, HandlerInv
            <4>2. \A c \in Bindings : told'[c] = IF c = b THEN told[b] \cup {ret[h].entry} ELSE told[c]
                BY <1>1, <3>2, TypeFacts
            <4> QED BY <3>2, <4>1, <4>2 DEF ProviderInv, Histories
        <3> QED BY <3>1, <3>2 DEF TakeShape
    <2> QED BY <1>1, <2>1 DEF ProviderInv, Histories
<1> QED BY <1>5, <1>7, <1>8, <1>9 DEF Handling

\* Steps between calls: a handler that executes alone starts the realizer once.
LEMMA ThinkingHandling ==
    ASSUME ProviderInv, NEW h \in Handlers, ThinkShape(h, req[h].binding)
    PROVE  Handling'
<1> DEFINE b == req[h].binding
<1>1. /\ UNCHANGED <<disk, file, mem, up, poisoned, staged, ret, granted, told>>
      /\ pc[h] \notin Waits /\ b \in Bindings
    BY TypeFacts DEF ThinkShape, ledgerVars
<1>2. PICK to \in Calls \cup Local, q \in [binding : Bindings, peer : Principals],
           why \in Reasons \cup {"none"} :
        /\ pc' = [pc EXCEPT ![h] = to] /\ req' = [req EXCEPT ![h] = q]
        /\ reason' = [reason EXCEPT ![h] = why]
        /\ pc[h] = "idle" => up = "up"
        /\ to \in {"preject", "xreject"} => why \in Reasons
        /\ \/ /\ to \in {"idle", "query", "ask", "receive", "validate", "accept", "preject"}
              /\ realized' = realized
           \/ /\ q = req[h] /\ realized' = realized
              /\ \/ pc[h] = "checkstart" /\ to \in {"realize", "xreject"}
                 \/ pc[h] = "realizing" /\ to \in {"store", "xreject"}
           \/ /\ q = req[h] /\ pc[h] = "realize" /\ to = "realizing"
              /\ realized' = [realized EXCEPT ![b] = @ + 1]
    BY DEF ThinkShape
<1>3. /\ pc'[h] = to /\ req'[h] = q /\ reason'[h] = why
      /\ \A f \in Handlers \ {h} : pc'[f] = pc[f] /\ req'[f] = req[f] /\ reason'[f] = reason[f]
    BY <1>2, TypeFacts
<1>4. HandlerInv(h, b) /\ ret[h] = NoAnswer /\ ~Pending(h) /\ ~Pending(h)' /\ up = "up"
    BY <1>1, <1>2 DEF ProviderInv, HandlerInv, Awaits, Waits, Pending
<1>5. /\ ~Entitled(h)'
      /\ Executing(h)' => Executing(h) /\ q = req[h] /\ AllAt(b, "Running") /\ granted[b] > 0
    BY <1>1, <1>2, <1>3, <1>4, TypeFacts DEF Entitled, Executing, HandlerInv, Calls, Local, Waits
<1>6. /\ \A c \in Bindings \ {b} : realized'[c] = realized[c]
      /\ realized'[b] = IF to = "realizing" THEN 1 ELSE realized[b]
      /\ to = "realizing" => Owner(h) /\ realized[b] = 0 /\ granted[b] > 0
    BY <1>1, <1>2, <1>4, TypeFacts DEF HandlerInv, Executing, Owner
<1>7. HandlerInv(h, req[h].binding)'
    <2>1. Executing(h)' => AllAt(req[h].binding, "Running")' /\ granted'[req'[h].binding] > 0
        BY <1>1, <1>3, <1>5 DEF AllAt
    <2>2. to \notin Waits
        BY <1>2 DEF Calls, Local, Waits
    <2>3. /\ to = "realize" => q = req[h] /\ realized'[b] = 0
          /\ to \in {"realizing", "store"} => q = req[h] /\ realized'[b] = 1
          /\ to \notin {"marked", "checkstart"}
        BY <1>1, <1>2, <1>4, <1>6, <2>2 DEF HandlerInv, Executing, Waits
    <2> QED BY <1>1, <1>2, <1>3, <1>4, <1>5, <2>1, <2>2, <2>3, TypeFacts DEF HandlerInv
<1>8. ASSUME NEW f \in Handlers \ {h}
      PROVE  HandlerInv(f, req[f].binding)' /\ (Owner(f)' <=> Owner(f))
    <2>1. HandlerInv(f, req[f].binding) /\ req[f].binding \in Bindings
        BY TypeFacts DEF ProviderInv
    <2>2. to = "realizing" /\ Owner(f) => req[f].binding # b
        BY <1>6 DEF ProviderInv, Exclusive
    <2>3. Owner(f) => realized'[req[f].binding] = realized[req[f].binding]
        BY <1>6, <2>1, <2>2
    <2>4. pc[f] \in {"realizing", "store"} => Owner(f)
        BY DEF Owner, Executing
    <2>5. pc[f] = "marked" /\ Pending(f) => Owner(f)
        BY DEF Owner
    <2>6. /\ Owner(f)' <=> Owner(f)
          /\ Entitled(f)' <=> Entitled(f)
          /\ Executing(f)' <=> Executing(f)
          /\ Pending(f)' <=> Pending(f)
        BY <1>1, <1>3 DEF Owner, Entitled, Executing, Pending
    <2>7. Pending(f) => Awaits(f, req[f].binding)'
        BY <1>1, <1>3, <2>1, <2>3, <2>5 DEF Awaits, HandlerInv
    <2>8. AllAt(req[f].binding, "Accepted")' <=> AllAt(req[f].binding, "Accepted")
        BY <1>1, <1>3 DEF AllAt
    <2>9. AllAt(req[f].binding, "Running")' <=> AllAt(req[f].binding, "Running")
        BY <1>1, <1>3 DEF AllAt
    <2> QED BY <1>1, <1>3, <2>1, <2>3, <2>4, <2>6, <2>7, <2>8, <2>9 DEF HandlerInv, Owner
<1>9. Exclusive'
    <2>1. \A f \in Handlers : Owner(f)' => Owner(f) /\ req'[f] = req[f]
        BY <1>3, <1>4, <1>5, <1>8 DEF Owner
    <2> QED BY <2>1 DEF ProviderInv, Exclusive
<1>10. Histories'
    BY <1>1, <1>6 DEF ProviderInv, Histories
<1> QED BY <1>7, <1>8, <1>9, <1>10 DEF Handling

\* The rename and the directory sync: the new body agrees on every owned attempt.
LEMMA PersistHandling ==
    ASSUME ProviderInv, Rename \/ Sync, UNCHANGED handlerVars
    PROVE  Handling'
<1>1. /\ UNCHANGED <<mem, up, ret, granted, pc, req, reason, realized, told>>
      /\ staged.step # "free" /\ staged'.step # "free"
      /\ staged'.by = staged.by /\ staged'.body = staged.body /\ staged'.answer = staged.answer
      /\ staged'.grant = staged.grant
      /\ \/ disk' = disk /\ file' = staged.body
         \/ disk' = file /\ file' = file
    BY DEF Rename, Sync, handlerVars, ProviderInv, LedgerInv, LedgerTypeOK, Stage
<1>2. \A b \in Bindings : disk.entries[b].state \in Terminal => disk'.entries[b] = disk.entries[b]
    BY <1>1 DEF ProviderInv, LedgerInv, Ordered, Evolves
<1>3. ASSUME NEW h \in Handlers
      PROVE  HandlerInv(h, req[h].binding)' /\ (Owner(h)' <=> Owner(h))
    <2>1. HandlerInv(h, req[h].binding) /\ req[h].binding \in Bindings
        BY TypeFacts DEF ProviderInv
    <2>2. /\ Owner(h)' <=> Owner(h)
          /\ Entitled(h)' <=> Entitled(h)
          /\ Executing(h)' <=> Executing(h)
          /\ Pending(h)' <=> Pending(h)
        BY <1>1 DEF Owner, Entitled, Executing, Pending
    <2>3. Pending(h) => Awaits(h, req[h].binding)'
        BY <1>1, <2>1 DEF Awaits, HandlerInv
    <2>4. /\ AllAt(req[h].binding, "Accepted") => AllAt(req[h].binding, "Accepted")'
          /\ AllAt(req[h].binding, "Running") => AllAt(req[h].binding, "Running")'
        BY <1>1 DEF AllAt
    <2>5. ret[h].entry.state \in Terminal => disk'.entries[req[h].binding] = ret[h].entry
        BY <1>2, <2>1 DEF HandlerInv
    <2> QED BY <1>1, <2>1, <2>2, <2>3, <2>4, <2>5 DEF HandlerInv
<1>4. Exclusive'
    BY <1>1, <1>3 DEF ProviderInv, Exclusive
<1>5. Histories'
    BY <1>1, <1>2 DEF ProviderInv, Histories
<1> QED BY <1>3, <1>4, <1>5 DEF Handling

\* The publication ends: its handler gets the answer it waited for, the others see the new body.
LEMMA PublishHandling ==
    ASSUME ProviderInv, Publish, UNCHANGED handlerVars
    PROVE  Handling'
<1>1. /\ UNCHANGED <<disk, file, pc, req, reason, realized, told>>
      /\ mem' = staged.body /\ staged' = NoStage /\ up' = "up" /\ staged.step = "synced"
      /\ disk = staged.body /\ file = staged.body
    BY DEF Publish, handlerVars, ProviderInv, LedgerInv, Publication
<1>2. \A h \in Handlers : ret'[h] = IF h = staged.by THEN staged.answer ELSE ret[h]
    BY DEF Publish, Handlers
<1>3. \A b \in Bindings :
        /\ granted'[b] >= granted[b]
        /\ b \in staged.grant => granted'[b] > 0 /\ granted[b] = 0
    BY TypeFacts DEF Publish, ProviderInv, LedgerInv, Grants
<1>4. staged'.step = "free" /\ \A b \in Bindings : staged'.body.entries[b].state = "Absent"
    BY <1>1, RestFacts, EmptyBodyGood DEF NoEntry, EntryOf
<1>5. \A h \in Handlers : ~Pending(h)'
    BY <1>4 DEF Pending
<1>6. ASSUME NEW h \in Handlers
      PROVE  /\ HandlerInv(h, req[h].binding)'
             /\ Owner(h)' => Owner(h) \/ mem.entries[req[h].binding].state = "Validated"
    <2> DEFINE b == req[h].binding
    <2>1. HandlerInv(h, b) /\ b \in Bindings
        BY TypeFacts DEF ProviderInv
    <2>2. CASE staged.by # h
        <3>1. ret'[h] = ret[h] /\ pc'[h] = pc[h]
            BY <1>1, <1>2, <2>2
        <3>2. /\ Entitled(h)' <=> Entitled(h)
              /\ Executing(h)' <=> Executing(h)
            BY <3>1 DEF Entitled, Executing
        <3>3. /\ AllAt(b, "Accepted") => AllAt(b, "Accepted")'
              /\ AllAt(b, "Running") => AllAt(b, "Running")'
            BY <1>1, <1>4 DEF AllAt
        <3>4. granted[b] \in Int /\ granted'[b] \in Int
            BY <2>1, TypeFacts DEF Publish
        <3>5. granted[b] > 0 => granted'[b] > 0
            BY <1>3, <2>1, <3>4
        <3> QED BY <1>1, <1>5, <2>1, <3>1, <3>2, <3>3, <3>5 DEF HandlerInv, Owner
    <2>3. CASE staged.by = h
        <3>1. /\ ret'[h] = staged.answer /\ pc'[h] = pc[h] /\ Awaits(h, b)
              /\ staged.answer.tag = "Applied" /\ staged.answer.entry = staged.body.entries[b]
            BY <1>1, <1>2, <2>1, <2>3 DEF HandlerInv, Pending, Awaits, Answer
        <3>2. pc[h] = "accepted" => AllAt(b, "Accepted")' /\ granted'[b] > 0 /\ realized[b] = 0
            <4>1. b \in staged.grant => granted'[b] > 0 /\ realized[b] = 0
                BY <1>3, <2>1, TypeFacts DEF ProviderInv, Histories
            <4> QED BY <1>1, <1>4, <3>1, <4>1 DEF AllAt, Awaits
        <3>3. pc[h] = "marked" => AllAt(b, "Running")' /\ granted'[b] > 0 /\ realized[b] = 0
            <4>1. granted[b] \in Int /\ granted'[b] \in Int
                BY <2>1, TypeFacts DEF Publish
            <4>2. granted[b] > 0 => granted'[b] > 0
                BY <1>3, <2>1, <4>1
            <4> QED BY <1>1, <1>4, <3>1, <4>2 DEF AllAt, Awaits
        <3>4. /\ pc[h] \in {"received", "validated", "accepted", "marked", "stored"}
              /\ Entitled(h)' => pc[h] = "accepted"
              /\ Executing(h)' => pc[h] = "marked"
            BY <3>1 DEF Awaits, Entitled, Executing
        <3>5. Owner(h)' => Owner(h) \/ mem.entries[b].state = "Validated"
            BY <1>1, <1>5, <2>3, <3>1, <3>4 DEF Owner, Awaits, Pending
        <3> QED BY <1>1, <1>5, <2>1, <3>1, <3>2, <3>3, <3>4, <3>5 DEF HandlerInv, Waits
    <2> QED BY <2>2, <2>3
<1>7. Exclusive'
    <2>1. ASSUME NEW g \in Handlers, NEW h \in Handlers, g # h, Owner(g)', Owner(h)',
                 req[g].binding = req[h].binding
          PROVE  FALSE
        <3>1. \A f \in Handlers : Owner(f) => mem.entries[req[f].binding].state \in {"Accepted", "Running"}
            BY DEF ProviderInv, HandlerInv, Owner, AllAt, Awaits
        <3>2. ~(Owner(g) /\ Owner(h))
            BY <2>1 DEF ProviderInv, Exclusive
        <3>3. \A f \in Handlers : Owner(f)' /\ ~Owner(f) => staged.by = f
            BY <1>1, <1>2, <1>5 DEF Owner, Entitled, Executing
        <3> QED BY <1>6, <2>1, <3>1, <3>2, <3>3
    <2> QED BY <1>1, <2>1 DEF Exclusive
<1>8. Histories'
    <2>1. \A b \in Bindings : realized'[b] > 0 => granted'[b] > 0
        <3> SUFFICES ASSUME NEW b \in Bindings, realized[b] > 0 PROVE granted'[b] > 0
            BY <1>1
        <3>1. granted[b] \in Int /\ granted'[b] \in Int /\ granted[b] > 0
            BY TypeFacts DEF Publish, ProviderInv, Histories
        <3> QED BY <1>3, <3>1
    <2> QED BY <1>1, <1>4, <2>1 DEF ProviderInv, Histories
<1> QED BY <1>6, <1>7, <1>8 DEF Handling

\* open() starts to publish the reopened body before there is any handler.
LEMMA OpenHandling ==
    ASSUME ProviderInv, Open, UNCHANGED handlerVars
    PROVE  Handling'
<1>1. /\ UNCHANGED <<disk, file, mem, granted, pc, req, reason, realized, told>>
      /\ up = "down" /\ staged'.by = Opener /\ staged'.body = Reopened(file)
      /\ \A h \in Handlers : ret'[h] = NoAnswer
    BY DEF Open, handlerVars, Handlers
<1>2. \A h \in Handlers : pc[h] = "idle" /\ pc'[h] = "idle" /\ ~Pending(h)'
    BY <1>1, CallersAssumption DEF ProviderInv, HandlerInv, Pending, Handlers
<1>3. \A h \in Handlers : HandlerInv(h, req[h].binding)' /\ ~Owner(h)'
    BY <1>1, <1>2, TypeFacts DEF HandlerInv, Entitled, Executing, Owner, Waits
<1>4. \A b \in Bindings : staged'.body.entries[b].state = "TerminalCandidate" =>
                             file.entries[b].state = "TerminalCandidate"
    BY <1>1, TypeFacts DEF Reopened, EntryOf
<1>5. Histories'
    BY <1>1, <1>4 DEF ProviderInv, Histories
<1> QED BY <1>3, <1>5 DEF Handling, Exclusive

\* A failed publication: its handler is told of an error and owns nothing.
LEMMA FailsHandling ==
    ASSUME ProviderInv, PublicationFails, UNCHANGED handlerVars
    PROVE  Handling'
<1>1. /\ UNCHANGED <<disk, file, mem, granted, pc, req, reason, realized, told>>
      /\ staged.step # "free" /\ staged' = NoStage
    BY DEF PublicationFails, handlerVars
<1>2. staged'.step = "free" /\ \A b \in Bindings : staged'.body.entries[b].state = "Absent"
    BY <1>1, RestFacts, EmptyBodyGood DEF NoEntry, EntryOf
<1>3. \/ staged.by = Opener /\ up' = "down" /\ up = "opening" /\ ret' = ret
      \/ /\ staged.by \in Handlers /\ up' = up
         /\ ret' = [ret EXCEPT ![staged.by] = Error]
    BY <1>1 DEF PublicationFails, ProviderInv, LedgerInv, LedgerTypeOK, Publication, Stage, Handlers
<1>4. Error.tag = "Err" /\ Error.entry.state \notin Terminal
    BY DEF Error, Answer, NoEntry, EntryOf, Terminal
<1>5. ASSUME NEW h \in Handlers
      PROVE  HandlerInv(h, req[h].binding)' /\ (Owner(h)' => Owner(h))
    <2> DEFINE b == req[h].binding
    <2>1. HandlerInv(h, b) /\ ~Pending(h)'
        BY <1>2 DEF ProviderInv, Pending
    <2>2. CASE staged.by = h
        <3>1. /\ pc[h] \in {"received", "validated", "accepted", "marked", "stored"}
              /\ pc'[h] = pc[h] /\ ret'[h] = Error /\ up' = up
            BY <1>1, <1>3, <2>1, <2>2, CallersAssumption, TypeFacts
               DEF HandlerInv, Pending, Awaits, Handlers
        <3>2. ~Entitled(h)' /\ ~Executing(h)'
            BY <1>4, <3>1 DEF Entitled, Executing
        <3> QED BY <1>1, <1>4, <2>1, <3>1, <3>2 DEF HandlerInv, Owner, Waits
    <2>3. CASE staged.by # h
        <3>1. /\ pc'[h] = pc[h] /\ ret'[h] = ret[h]
              /\ up' # "up" => pc[h] = "idle"
            BY <1>1, <1>3, <2>1, <2>3, TypeFacts DEF HandlerInv
        <3>2. /\ Entitled(h)' <=> Entitled(h)
              /\ Executing(h)' <=> Executing(h)
            BY <3>1 DEF Entitled, Executing
        <3>3. /\ AllAt(b, "Accepted") => AllAt(b, "Accepted")'
              /\ AllAt(b, "Running") => AllAt(b, "Running")'
            BY <1>1, <1>2 DEF AllAt
        <3> QED BY <1>1, <2>1, <3>1, <3>2, <3>3 DEF HandlerInv, Owner
    <2> QED BY <2>2, <2>3
<1>6. Exclusive'
    BY <1>1, <1>5 DEF ProviderInv, Exclusive
<1>7. Histories'
    BY <1>1, <1>2 DEF ProviderInv, Histories
<1> QED BY <1>5, <1>6, <1>7 DEF Handling

\* The process or the machine dies, and its handlers with it.
LEMMA DiesHandling ==
    ASSUME ProviderInv, ProcessDies
    PROVE  Handling'
<1>1. /\ UNCHANGED <<granted, realized, told>>
      /\ staged' = NoStage /\ mem' = EmptyBody
      /\ \A h \in Handlers : pc'[h] = "idle" /\ ret'[h] = NoAnswer
      /\ disk' \in {disk, file} /\ file' \in {disk, file}
    BY DEF ProcessDies, Crash, PowerLoss, Handlers
<1>2. /\ staged'.step = "free"
      /\ \A b \in Bindings : staged'.body.entries[b].state = "Absent" /\ mem'.entries[b].state = "Absent"
    BY <1>1, RestFacts, EmptyBodyGood DEF NoEntry, EntryOf
<1>3. \A b \in Bindings : disk.entries[b].state \in Terminal => disk'.entries[b] = disk.entries[b]
    BY <1>1 DEF ProviderInv, LedgerInv, Ordered, Evolves
<1>4. \A h \in Handlers : HandlerInv(h, req[h].binding)' /\ ~Owner(h)'
    BY <1>1, <1>2, TypeFacts DEF HandlerInv, Entitled, Executing, Pending, Owner, Waits
<1>5. Histories'
    BY <1>1, <1>2, <1>3 DEF ProviderInv, Histories
<1> QED BY <1>4, <1>5 DEF Handling, Exclusive

-----------------------------------------------------------------------------
(***************************************************************************)
(* The theorems.                                                           *)
(***************************************************************************)

\* The initial state satisfies the inductive invariant.
LEMMA ProviderInitInv == ProviderInit => ProviderInv
<1> SUFFICES ASSUME ProviderInit PROVE ProviderInv
    OBVIOUS
<1>1. LedgerInit /\ LedgerInv
    BY InitInv DEF ProviderInit
<1>2. ProviderTypeOK
    BY <1>1, NoRequestGood DEF ProviderInit, ProviderTypeOK, LedgerInv, Local
<1>3. NoAnswer.tag = "None" /\ NoAnswer.entry.state \notin Terminal /\ staged.step = "free"
    BY <1>1, RestFacts DEF LedgerInit, NoAnswer, Answer, NoEntry, EntryOf, Terminal
<1>4. \A h \in Handlers : pc[h] = "idle" /\ ret[h] = NoAnswer
    BY <1>1 DEF ProviderInit, LedgerInit, Handlers
<1>5. \A h \in Handlers : HandlerInv(h, req[h].binding) /\ ~Owner(h)
    BY <1>3, <1>4 DEF HandlerInv, Entitled, Executing, Pending, Owner, Waits
<1>6. \A b \in Bindings : \A body \in {disk, file, mem, staged.body} :
         body.entries[b].state # "TerminalCandidate"
    BY <1>1, RestFacts, EmptyBodyGood DEF LedgerInit, NoEntry, EntryOf
<1>7. Histories
    BY <1>6 DEF ProviderInit, Histories
<1> QED BY <1>1, <1>2, <1>5, <1>7 DEF ProviderInv, Exclusive

\* Every step of the provider keeps it.
LEMMA ProviderNextInv == ProviderInv /\ [ProviderNext]_vars => ProviderInv'
<1> SUFFICES ASSUME ProviderInv, [ProviderNext]_vars PROVE ProviderInv'
    OBVIOUS
<1>1. LedgerInv'
    BY ProviderLedgerStep, NextInv DEF ProviderInv
<1>2. ProviderTypeOK'
    BY <1>1, HandlerTypes DEF LedgerInv
<1>3. ASSUME NEW h \in Handlers, Calling(h) \/ Taking(h) \/ Thinking(h) PROVE Handling'
    <2>1. Calling(h) => Handling'
        BY CallingShape, AnsweredHandling, StagedHandling
    <2>2. Taking(h) => Handling'
        BY TakingShape, TakingHandling
    <2>3. Thinking(h) => Handling'
        BY ThinkingShape, ThinkingHandling DEF ProviderInv
    <2> QED BY <1>3, <2>1, <2>2, <2>3
<1>4. Handling'
    <2>1. CASE \E h \in Handlers : Submit(h) \/ AskStatus(h) \/ HandlerStep(h)
        BY <1>3, <2>1, HandlerSteps
    <2>2. CASE PublicationStep
        BY <2>2, PersistHandling, PublishHandling DEF PublicationStep
    <2>3. CASE (Open \/ PublicationFails) /\ UNCHANGED handlerVars
        BY <2>3, OpenHandling, FailsHandling
    <2>4. CASE ProcessDies
        BY <2>4, DiesHandling
    <2>5. CASE UNCHANGED vars
        BY <2>5 DEF vars, ledgerVars, handlerVars, ProviderInv, Handling, HandlerInv, Exclusive,
           Histories, Owner, Entitled, Executing, Pending, Awaits, AllAt
    <2>6. CASE ProviderNext
        BY <2>1, <2>2, <2>3, <2>4, <2>6 DEF ProviderNext
    <2> QED BY <2>5, <2>6
<1> QED BY <1>1, <1>2, <1>4 DEF ProviderInv, Handling

\* The inductive invariant holds of every behaviour of the provider.
THEOREM ProviderInvariant == ProviderSpec => []ProviderInv
BY ProviderInitInv, ProviderNextInv, PTL DEF ProviderSpec

\* The provider's threads drive the ledger only as the ledger's own specification allows.
THEOREM ProviderUsesLedger == ProviderSpec => LedgerSpec
<1>1. ProviderInit => LedgerInit
    BY DEF ProviderInit
<1> QED BY <1>1, ProviderLedgerStep, ProviderInvariant, PTL DEF ProviderSpec, LedgerSpec

\* So what is proved of the ledger holds under the provider's real callers: an attempt is
\* granted at most once, the replay fence holds, and answers are durable and final.
THEOREM ProviderKeepsLedger ==
    ProviderSpec => [](AtMostOneGrant /\ GrantFence /\ AnswersAreDurable) /\ TerminalIsFinal
BY ProviderUsesLedger, GrantsAreSafe, ReplayFence, ServingIsDurable, TerminalEntriesAreFinal, PTL

\* While a handler executes an attempt the attempt is durably Running, and no other handler,
\* of however many, executes it.
THEOREM ExclusiveExecution == ProviderSpec => []ExecutionIsExclusive
<1>1. ProviderInv => ExecutionIsExclusive
    BY DEF ProviderInv, HandlerInv, AllAt, Exclusive, Owner, ExecutionIsExclusive
<1> QED BY <1>1, ProviderInvariant, PTL

\* The verdict of the abstract service: what is on the disk.
Verdict(body) ==
    [b \in Bindings |-> IF body.entries[b].state \in Terminal THEN {body.entries[b]} ELSE {}]

\* A step that starts no work and tells nobody anything decides verdicts, or none.
LEMMA DecidingStep ==
    ASSUME ProviderInv, [ProviderNext]_vars, UNCHANGED <<realized, told>>
    PROVE  [Attempt!Next]_Attempt!vars
<1>1. disk' = disk \/ disk' = file
    <2>1. [LedgerNext]_ledgerVars
        BY ProviderLedgerStep
    <2> QED BY <2>1 DEF LedgerNext, Environment, Call, Mutate, Read, Take, Unhealthy,
            VerifyFails, Open, Rename, Sync, Publish, PublicationFails, Crash, PowerLoss, ledgerVars
<1>2. ASSUME NEW b \in Bindings, Verdict(disk)'[b] # Verdict(disk)[b]
      PROVE  /\ Verdict(disk)[b] = {}
             /\ \E v \in {e \in Entry : e.state \in Terminal} :
                   /\ Verdict(disk)'[b] = {v}
                   /\ v.state = "TerminalCandidate" => realized[b] = 1
    <2>1. disk' = file
        BY <1>1, <1>2 DEF Verdict
    <2>2. disk.entries[b].state \in Terminal => file.entries[b] = disk.entries[b]
        BY DEF ProviderInv, LedgerInv, Ordered, Evolves
    <2>3. file.entries[b].state \in Terminal /\ disk.entries[b].state \notin Terminal
        BY <1>2, <2>1, <2>2 DEF Verdict
    <2>4. file.entries[b] \in Entry
        BY TypeFacts
    <2>5. file.entries[b].state = "TerminalCandidate" => realized[b] = 1
        BY DEF ProviderInv, Histories
    <2> QED BY <2>1, <2>3, <2>4, <2>5 DEF Verdict
<1>3. Attempt!Decide
    BY <1>2 DEF Attempt!Decide, Verdict
<1> QED BY <1>3 DEF Attempt!Next

\* The realizer's start is the abstract start: the binding is undecided and uncontested.
LEMMA StartingStep ==
    ASSUME ProviderInv, NEW h \in Handlers, StartRealizer(h)
    PROVE  [Attempt!Next]_Attempt!vars
<1> DEFINE b == req[h].binding
<1>1. /\ b \in Bindings /\ HandlerInv(h, b) /\ pc[h] = "realize"
      /\ realized' = [realized EXCEPT ![b] = @ + 1] /\ told' = told /\ disk' = disk
    BY TypeFacts DEF ProviderInv, StartRealizer, ledgerVars
<1>2. disk.entries[b].state = "Running" /\ granted[b] > 0 /\ realized[b] = 0
    BY <1>1 DEF HandlerInv, Executing, AllAt
<1>3. realized' = [realized EXCEPT ![b] = 1]
    BY <1>1, <1>2
<1>4. \A c \in Bindings : realized[c] > 0 => c # b /\ ~SameKey(c, b)
    <2>1. \A c \in Bindings : realized[c] > 0 => granted[c] > 0
        BY DEF ProviderInv, Histories
    <2>2. \A c \in Bindings : granted[c] > 0 => disk.entries[c].state # "Absent"
        BY DEF ProviderInv, LedgerInv, Grants, Consumed, Terminal
    <2> QED BY <1>1, <1>2, <2>1, <2>2 DEF ProviderInv, LedgerInv, Bodies, Fenced, Present
<1>5. Attempt!Start(b)
    BY <1>1, <1>2, <1>3, <1>4 DEF Attempt!Start, Terminal
<1> QED BY <1>1, <1>5 DEF Attempt!Next

\* A reply from a terminal entry tells the verdict on the disk.
LEMMA TellingStep ==
    ASSUME ProviderInv, NEW h \in Handlers, TakeShape(h, req[h].binding), told' # told
    PROVE  [Attempt!Next]_Attempt!vars
<1> DEFINE b == req[h].binding
<1>1. /\ b \in Bindings /\ realized' = realized /\ disk' = disk
      /\ ret[h].entry.state \in Terminal /\ told' = [told EXCEPT ![b] = @ \cup {ret[h].entry}]
    BY TypeFacts DEF TakeShape
<1>2. disk.entries[b] = ret[h].entry
    BY <1>1 DEF ProviderInv, HandlerInv
<1>3. told[b] \cup {ret[h].entry} = {disk.entries[b]}
    BY <1>1, <1>2 DEF ProviderInv, Histories
<1>4. Attempt!Tell(b)
    BY <1>1, <1>2, <1>3 DEF Attempt!Tell
<1> QED BY <1>1, <1>4 DEF Attempt!Next

\* The provider implements the abstract service for any number of handlers and bindings.
THEOREM ProviderImplements == ProviderSpec => ImplementsAttempt
<1>1. ProviderInit => Attempt!Init
    BY EmptyBodyGood DEF ProviderInit, LedgerInit, Attempt!Init, NoEntry, EntryOf, Terminal
<1>2. ProviderInv /\ [ProviderNext]_vars => [Attempt!Next]_Attempt!vars
    <2> SUFFICES ASSUME ProviderInv, [ProviderNext]_vars PROVE [Attempt!Next]_Attempt!vars
        OBVIOUS
    <2>1. ASSUME NEW h \in Handlers, Calling(h) PROVE UNCHANGED <<realized, told>>
        BY <2>1, CallingShape DEF CallShape
    <2>2. ASSUME NEW h \in Handlers, Taking(h)
          PROVE  UNCHANGED <<realized, told>> \/ [Attempt!Next]_Attempt!vars
        <3>1. TakeShape(h, req[h].binding) /\ realized' = realized
            BY <2>2, TakingShape DEF TakeShape
        <3> QED BY <3>1, TellingStep
    <2>3. ASSUME NEW h \in Handlers, Thinking(h)
          PROVE  UNCHANGED <<realized, told>> \/ [Attempt!Next]_Attempt!vars
        <3>1. StartRealizer(h) => [Attempt!Next]_Attempt!vars
            BY StartingStep
        <3>2. ~StartRealizer(h) => UNCHANGED <<realized, told>>
            BY <2>3 DEF Thinking, Submit, AskStatus, CheckNew, CheckDurable, Prepare, CheckAccept,
               CheckStart, Realized, LeaseCheck, Continue, ReplyUnrecorded, Reject
        <3> QED BY <3>1, <3>2
    <2>4. CASE UNCHANGED <<realized, told>>
        BY <2>4, DecidingStep
    <2>5. CASE UNCHANGED handlerVars \/ UNCHANGED vars
        BY <2>4, <2>5 DEF handlerVars, vars
    <2>6. CASE ProcessDies
        BY <2>4, <2>6 DEF ProcessDies
    <2>7. CASE ProviderNext
        BY <2>1, <2>2, <2>3, <2>4, <2>5, <2>6, <2>7, HandlerSteps DEF ProviderNext, PublicationStep
    <2> QED BY <2>5, <2>7
<1> QED BY <1>1, <1>2, ProviderInvariant, PTL DEF ProviderSpec, ImplementsAttempt, Attempt!Spec
=============================================================================
