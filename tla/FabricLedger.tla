---------------------------- MODULE FabricLedger ----------------------------
(***************************************************************************)
(* The durable attempt ledger of a Fabric provider                         *)
(* (hosted_remote/fabric/ledger.rs).                                       *)
(*                                                                         *)
(* A provider process keeps one table of attempt bindings.  The table is   *)
(* published as a whole: it is written to a staging file, renamed over the *)
(* snapshot file, and the directory is synced; only then does the process  *)
(* adopt it in memory and answer the caller.  A process crash loses the    *)
(* memory; a power loss may also undo a rename that was not yet synced.    *)
(* Reopening advances the incarnation and abandons whatever was unfinished.*)
(***************************************************************************)
EXTENDS Integers, FiniteSets

CONSTANTS
    Bindings,        \* attempt bindings that submissions may carry
    Callers,         \* threads that call the ledger
    Opener,          \* the thread that runs open()
    Reasons,         \* reason codes of rejections
    Payloads,        \* exact bytes of terminal candidates
    RestartReason,   \* "provider-restarted"
    NoDetail,        \* neither a reason nor terminal bytes
    MaxEntries,      \* MAX_FABRIC_LEDGER_ENTRIES_V1
    MaxIncarnation   \* the largest incarnation (u64::MAX in the code)

(***************************************************************************)
(* A binding is the record of its replay keys (issuer, attempt, nonce),    *)
(* the TLS principal of the client and the incarnation it is addressed to. *)
(* Bindings that differ only in a digest of their contents are modelled as *)
(* different bindings with the same keys.                                  *)
(***************************************************************************)
ASSUME BindingsAssumption ==
    \A b \in Bindings : b.incarnation \in Nat \ {0}

ASSUME CallersAssumption == Opener \notin Callers

ASSUME BoundsAssumption == MaxEntries \in Nat /\ MaxIncarnation \in Nat \ {0}

Incomplete == {"Received", "Validated", "Accepted", "Running"}

Terminal == {"TerminalCandidate", "Rejected", "Abandoned"}

\* States from which a binding is never accepted (again).
Consumed == {"Accepted", "Running"} \cup Terminal

Details == Reasons \cup Payloads \cup {RestartReason, NoDetail}

Entry == [state : {"Absent"} \cup Incomplete \cup Terminal, detail : Details]

EntryOf(state, detail) == [state |-> state, detail |-> detail]

NoEntry == EntryOf("Absent", NoDetail)

Body == [incarnation : 0..MaxIncarnation, entries : [Bindings -> Entry]]

\* An absent snapshot file: incarnation 0 and no entries.
EmptyBody == [incarnation |-> 0, entries |-> [b \in Bindings |-> NoEntry]]

Tags == {"None", "Err", "Unknown", "Conflict", "Found", "Duplicate", "Applied"}

Result == [tag : Tags, entry : Entry]

Answer(tag, entry) == [tag |-> tag, entry |-> entry]

NoAnswer == Answer("None", NoEntry)

Error == Answer("Err", NoEntry)

VARIABLES
    disk,      \* the snapshot that survives a power loss
    file,      \* the snapshot that a reader of the directory sees
    mem,       \* LedgerMemoryV1.body of the live process
    up,        \* "down", "opening" or "up"
    poisoned,  \* the poisoned flag of the live process
    staged,    \* the publication under way; it holds the ledger mutex
    ret,       \* what each caller's last ledger call answered
    granted    \* how often may_execute was answered, ever (history)

ledgerVars == <<disk, file, mem, up, poisoned, staged, ret, granted>>

Steps == {"free", "written", "renamed", "synced"}

NoStage ==
    [step |-> "free", by |-> Opener, body |-> EmptyBody, answer |-> NoAnswer, grant |-> {}]

Stage ==
    [step : Steps, by : Callers \cup {Opener}, body : Body, answer : Result,
     grant : SUBSET Bindings]

-----------------------------------------------------------------------------
(***************************************************************************)
(* What each operation does to a body.  The result is the next body, the   *)
(* answer, whether there is anything to publish, and the binding whose     *)
(* execution the answer permits (may_execute).                             *)
(***************************************************************************)
Present(body) == {b \in Bindings : body.entries[b].state # "Absent"}

\* The issuer-scoped replay keys: a nonce and an attempt coordinate.
SameKey(x, b) == x.issuer = b.issuer /\ (x.nonce = b.nonce \/ x.attempt = b.attempt)

Locate(body, b) ==
    CASE \E x \in Present(body) \ {b} : SameKey(x, b) -> "Conflict"
      [] b \in Present(body) /\ ~ \E x \in Present(body) \ {b} : SameKey(x, b) -> "Exact"
      [] OTHER -> "Unknown"

Refuse(body) == [body |-> body, answer |-> Error, changed |-> FALSE, grant |-> {}]

Keep(body, tag, b) ==
    [body |-> body, answer |-> Answer(tag, body.entries[b]), changed |-> FALSE, grant |-> {}]

Write(body, b, entry, grant) ==
    [body |-> [body EXCEPT !.entries[b] = entry],
     answer |-> Answer("Applied", entry), changed |-> TRUE, grant |-> grant]

Put(body, b, entry) == Write(body, b, entry, {})

\* require_current_incarnation and the entry bound, asked of a new binding.
Admissible(body, b) ==
    /\ b.incarnation = body.incarnation
    /\ Cardinality(Present(body)) < MaxEntries

RecordReceived(body, b) ==
    CASE Locate(body, b) = "Exact" -> Keep(body, "Duplicate", b)
      [] Locate(body, b) = "Unknown" /\ Admissible(body, b) ->
            Put(body, b, EntryOf("Received", NoDetail))
      [] OTHER -> Refuse(body)

RecordValidated(body, b) ==
    CASE Locate(body, b) # "Exact" -> Refuse(body)
      [] Locate(body, b) = "Exact" /\ body.entries[b].state = "Received" ->
            Put(body, b, EntryOf("Validated", NoDetail))
      [] OTHER -> Keep(body, "Duplicate", b)

\* Mutant: an attempt that is already accepted is granted again.
RegrantAccepted(body, b) ==
    CASE /\ Locate(body, b) = "Exact"
         /\ body.entries[b].state \in {"Validated", "Accepted"}
         /\ b.incarnation = body.incarnation ->
            Write(body, b, EntryOf("Accepted", NoDetail), {b})
      [] OTHER -> Refuse(body)

\* The answer "Applied" is the acceptance with may_execute, "Duplicate" the one without.
ConsumeAndAccept(body, b) ==
    CASE \/ Locate(body, b) # "Exact"
         \/ body.entries[b].state = "Validated" /\ b.incarnation # body.incarnation ->
            Refuse(body)
      [] /\ Locate(body, b) = "Exact"
         /\ body.entries[b].state = "Validated" /\ b.incarnation = body.incarnation ->
            Write(body, b, EntryOf("Accepted", NoDetail), {b})
      [] OTHER -> Keep(body, "Duplicate", b)

MarkRunning(body, b) ==
    CASE Locate(body, b) = "Exact" /\ body.entries[b].state = "Accepted" ->
            Put(body, b, EntryOf("Running", NoDetail))
      [] /\ Locate(body, b) = "Exact"
         /\ body.entries[b].state \in {"Running", "TerminalCandidate"} ->
            Keep(body, "Duplicate", b)
      [] OTHER -> Refuse(body)

RecordTerminalCandidate(body, b, payload) ==
    CASE Locate(body, b) = "Exact" /\ body.entries[b].state = "Running" ->
            Put(body, b, EntryOf("TerminalCandidate", payload))
      [] /\ Locate(body, b) = "Exact"
         /\ body.entries[b] = EntryOf("TerminalCandidate", payload) ->
            Keep(body, "Duplicate", b)
      [] OTHER -> Refuse(body)

\* Mutant: a rejection replaces a terminal state.
RejectAnyState(body, b, reason) ==
    IF Locate(body, b) = "Exact" \/ (Locate(body, b) = "Unknown" /\ Admissible(body, b))
    THEN Put(body, b, EntryOf("Rejected", reason)) ELSE Refuse(body)

RecordRejected(body, b, reason) ==
    CASE \/ Locate(body, b) = "Exact" /\ body.entries[b].state \in Incomplete
         \/ Locate(body, b) = "Unknown" /\ Admissible(body, b) ->
            Put(body, b, EntryOf("Rejected", reason))
      [] Locate(body, b) = "Exact" /\ body.entries[b] = EntryOf("Rejected", reason) ->
            Keep(body, "Duplicate", b)
      [] OTHER -> Refuse(body)

\* Mutant: the rejection of a lease check also replaces an accepted or running attempt.
RejectIncomplete(body, b, reason) ==
    CASE \/ Locate(body, b) = "Exact" /\ body.entries[b].state \in Incomplete
         \/ Locate(body, b) = "Unknown" /\ Admissible(body, b) ->
            Put(body, b, EntryOf("Rejected", reason))
      [] Locate(body, b) = "Exact" /\ body.entries[b].state \in Terminal ->
            Keep(body, "Duplicate", b)
      [] OTHER -> Refuse(body)

RecordPreacceptRejected(body, b, reason) ==
    CASE \/ Locate(body, b) = "Exact" /\ body.entries[b].state \in {"Received", "Validated"}
         \/ Locate(body, b) = "Unknown" /\ Admissible(body, b) ->
            Put(body, b, EntryOf("Rejected", reason))
      [] /\ Locate(body, b) = "Exact"
         /\ body.entries[b].state \notin {"Received", "Validated"} ->
            Keep(body, "Duplicate", b)
      [] OTHER -> Refuse(body)

\* query(): reads only.  A key match with any other binding is a conflict, and so
\* is an exact match asked for by another TLS principal.
Query(body, b, peer) ==
    CASE Locate(body, b) = "Unknown" -> Answer("Unknown", NoEntry)
      [] Locate(body, b) = "Exact" /\ b.principal = peer ->
            Answer("Found", body.entries[b])
      [] OTHER -> Answer("Conflict", NoEntry)

\* validate_body(), run on every body before it is published.
ValidBody(body) ==
    /\ Cardinality(Present(body)) <= MaxEntries
    /\ \A b \in Present(body) : b.incarnation <= body.incarnation
    /\ \A x, y \in Present(body) : x # y => ~SameKey(x, y)

\* Mutant: a restart drops unfinished attempts instead of abandoning them.
ReopenedDropping(body) ==
    [incarnation |-> body.incarnation + 1,
     entries |-> [b \in Bindings |->
        IF body.entries[b].state \in Incomplete THEN NoEntry ELSE body.entries[b]]]

\* open(): the next incarnation, with every unfinished attempt abandoned.
Reopened(body) ==
    [incarnation |-> body.incarnation + 1,
     entries |-> [b \in Bindings |->
        IF body.entries[b].state \in Incomplete
        THEN EntryOf("Abandoned", RestartReason) ELSE body.entries[b]]]

-----------------------------------------------------------------------------
LedgerInit ==
    /\ disk = EmptyBody /\ file = EmptyBody /\ mem = EmptyBody
    /\ up = "down" /\ poisoned = FALSE /\ staged = NoStage
    /\ ret = [c \in Callers |-> NoAnswer]
    /\ granted = [b \in Bindings |-> 0]

\* The process starts: it takes the root lock, drops stale staging files, reads the
\* snapshot and begins to publish the reopened body.  At the last incarnation it fails.
Open ==
    /\ up = "down" /\ file.incarnation < MaxIncarnation
    /\ up' = "opening" /\ poisoned' = FALSE
    /\ staged' = [step |-> "written", by |-> Opener,
                  body |-> Reopened(file), answer |-> NoAnswer, grant |-> {}]
    /\ ret' = [c \in Callers |-> NoAnswer]
    /\ UNCHANGED <<disk, file, mem, granted>>

\* lock_verified() succeeds for a caller that takes the mutex.
Locked == up = "up" /\ ~poisoned /\ staged.step = "free"

\* with_mutation(): an unchanged or refused body is answered at once; a changed one is
\* validated and staged, and the caller keeps the mutex while it is published.
Mutate(c, m) ==
    /\ Locked
    /\ IF m.changed /\ ValidBody(m.body)
       THEN /\ staged' = [step |-> "written", by |-> c, body |-> m.body,
                          answer |-> m.answer, grant |-> m.grant]
            /\ ret' = [ret EXCEPT ![c] = NoAnswer]
       ELSE /\ ret' = [ret EXCEPT ![c] = IF m.changed THEN Error ELSE m.answer]
            /\ UNCHANGED staged
    /\ UNCHANGED <<disk, file, mem, up, poisoned, granted>>

\* A read under the mutex.
Read(c, answer) ==
    /\ Locked
    /\ ret' = [ret EXCEPT ![c] = answer]
    /\ UNCHANGED <<disk, file, mem, up, poisoned, staged, granted>>

\* require_healthy() refuses a caller of a poisoned ledger.
Unhealthy(c) ==
    /\ up = "up" /\ poisoned /\ staged.step = "free"
    /\ ret' = [ret EXCEPT ![c] = Error]
    /\ UNCHANGED <<disk, file, mem, up, poisoned, staged, granted>>

\* A caller goes on with the answer it got.
Take(c) ==
    /\ ret[c].tag # "None"
    /\ ret' = [ret EXCEPT ![c] = NoAnswer]
    /\ UNCHANGED <<disk, file, mem, up, poisoned, staged, granted>>

\* lock_verified() finds a path or the snapshot unreadable or changed.
VerifyFails(c) ==
    /\ Locked
    /\ poisoned' = TRUE
    /\ ret' = [ret EXCEPT ![c] = Error]
    /\ UNCHANGED <<disk, file, mem, up, staged, granted>>

\* persist_snapshot(): rename the synced staging file over the snapshot ...
Rename ==
    /\ staged.step = "written"
    /\ staged' = [staged EXCEPT !.step = "renamed"]
    /\ file' = staged.body
    /\ UNCHANGED <<disk, mem, up, poisoned, ret, granted>>

\* Mutant: the directory is never synced.
SyncOmitted ==
    /\ staged.step = "renamed"
    /\ staged' = [staged EXCEPT !.step = "synced"]
    /\ UNCHANGED <<disk, file, mem, up, poisoned, ret, granted>>

\* ... then sync the directory, which makes the rename durable.
Sync ==
    /\ staged.step = "renamed"
    /\ staged' = [staged EXCEPT !.step = "synced"]
    /\ disk' = file
    /\ UNCHANGED <<file, mem, up, poisoned, ret, granted>>

\* The process adopts the published body and the caller gets its answer.
Publish ==
    /\ staged.step = "synced"
    /\ mem' = staged.body
    /\ staged' = NoStage
    /\ up' = "up"
    /\ ret' = [c \in Callers |-> IF c = staged.by THEN staged.answer ELSE ret[c]]
    /\ granted' = [b \in Bindings |->
         IF b \in staged.grant THEN granted[b] + 1 ELSE granted[b]]
    /\ UNCHANGED <<disk, file, poisoned>>

\* Mutant: a failed publication is reported but does not poison the ledger.
FailureNotPoisoning ==
    /\ staged.step # "free"
    /\ staged' = NoStage
    /\ IF staged.by = Opener
       THEN up' = "down" /\ UNCHANGED ret
       ELSE ret' = [ret EXCEPT ![staged.by] = Error] /\ UNCHANGED up
    /\ UNCHANGED <<disk, file, mem, poisoned, granted>>

\* Any failure of the publication: the staging file is removed.  A live ledger is poisoned,
\* because the rename may or may not have happened; an opening process gives up.
PublicationFails ==
    /\ staged.step # "free"
    /\ staged' = NoStage
    /\ IF staged.by = Opener
       THEN up' = "down" /\ UNCHANGED <<poisoned, ret>>
       ELSE /\ poisoned' = TRUE
            /\ ret' = [ret EXCEPT ![staged.by] = Error]
            /\ UNCHANGED up
    /\ UNCHANGED <<disk, file, mem, granted>>

\* The process dies; the file system keeps what a reader sees.
Crash ==
    /\ up # "down"
    /\ up' = "down" /\ poisoned' = FALSE /\ staged' = NoStage
    /\ mem' = EmptyBody
    /\ ret' = [c \in Callers |-> NoAnswer]
    /\ UNCHANGED <<disk, file, granted>>

\* The machine dies; a rename that was not synced may be undone or may have reached the disk.
PowerLoss ==
    /\ up' = "down" /\ poisoned' = FALSE /\ staged' = NoStage
    /\ mem' = EmptyBody
    /\ ret' = [c \in Callers |-> NoAnswer]
    /\ \/ file' = disk /\ UNCHANGED disk
       \/ disk' = file /\ UNCHANGED file
    /\ UNCHANGED granted

\* One call of the ledger by caller c.
Call(c) ==
    \E b \in Bindings :
        \/ Mutate(c, RecordReceived(mem, b))
        \/ Mutate(c, RecordValidated(mem, b))
        \/ Mutate(c, ConsumeAndAccept(mem, b))
        \/ Mutate(c, MarkRunning(mem, b))
        \/ \E p \in Payloads : Mutate(c, RecordTerminalCandidate(mem, b, p))
        \/ \E r \in Reasons : Mutate(c, RecordRejected(mem, b, r))
        \/ \E r \in Reasons : Mutate(c, RecordPreacceptRejected(mem, b, r))
        \/ \E peer \in {x.principal : x \in Bindings} : Read(c, Query(mem, b, peer))

\* Steps that do not belong to a caller's program.
Environment == Open \/ Rename \/ Sync \/ Publish \/ PublicationFails \/ Crash \/ PowerLoss

LedgerNext ==
    \/ \E c \in Callers : Call(c) \/ Take(c) \/ Unhealthy(c) \/ VerifyFails(c)
    \/ Environment

LedgerSpec == LedgerInit /\ [][LedgerNext]_ledgerVars

-----------------------------------------------------------------------------
(***************************************************************************)
(* Properties.                                                             *)
(***************************************************************************)

\* The variables keep their types: every body ever staged, renamed, synced or adopted is
\* a well-formed ledger body (FabricLedgerEntryV1, FabricLedgerBodyV1).
LedgerTypeOK ==
    /\ disk \in Body /\ file \in Body /\ mem \in Body
    /\ up \in {"down", "opening", "up"} /\ poisoned \in BOOLEAN
    /\ staged \in Stage
    /\ ret \in [Callers -> Result]
    /\ granted \in [Bindings -> Nat]

\* consume_and_accept answers may_execute at most once for a binding, over every crash,
\* power loss, failed publication and restart.
AtMostOneGrant == \A b \in Bindings : granted[b] <= 1

\* The replay fence: of all bindings of one issuer that share a nonce or an attempt
\* coordinate, at most one is ever granted execution, in whatever incarnation it is asked.
GrantFence ==
    \A x, y \in Bindings :
        granted[x] > 0 /\ granted[y] > 0 /\ SameKey(x, y) => x = y

\* "Execute is returned only after the new snapshot and its parent directory are durably
\* synced": no crash can bring back a state in which a granted binding was not accepted.
GrantIsDurable ==
    \A b \in Bindings : granted[b] > 0 =>
        disk.entries[b].state \in Consumed /\ file.entries[b].state \in Consumed

\* Whatever a healthy ledger answers from is what a restart would read back, even after
\* a power loss: with_mutation adopts a body only once it is published.
AnswersAreDurable == Locked => mem = disk /\ mem = file

\* Unfinished attempts of a serving ledger belong to the incarnation it serves: a restart
\* leaves nothing of an older execution cell to be accepted or resumed.
NoStaleWork ==
    up = "up" => \A b \in Present(mem) :
        mem.entries[b].state \in Incomplete => b.incarnation = mem.incarnation

\* A ledger serves under an incarnation only after that incarnation is durable, so that no
\* later restart can serve under the same one.
IncarnationIsDurable == up = "up" => disk.incarnation = mem.incarnation

\* A durable terminal entry (candidate bytes, rejection or abandonment) never changes.
TerminalIsFinal ==
    [][\A b \in Bindings : disk.entries[b].state \in Terminal =>
          disk'.entries[b] = disk.entries[b]]_ledgerVars
=============================================================================
