--------------------------- MODULE FabricProvider ---------------------------
(***************************************************************************)
(* The Fabric provider (hosted_remote/fabric/provider.rs): one handler     *)
(* thread per authenticated stream, each serving one submission or one     *)
(* query.  Handlers share the attempt ledger and interleave between any    *)
(* two of its calls; the lease is checked three times against a wall clock *)
(* that may move between the checks.                                       *)
(*                                                                         *)
(* A handler's program counter names the call it is about to make          *)
(* ("query", "receive", ...) or the call whose answer it waits for         *)
(* ("queried", "received", ...); the answer is ret[h].                     *)
(***************************************************************************)
EXTENDS FabricLedger

CONSTANTS
    ClockReadable   \* whether the wall clock can always be read as Unix time

ASSUME ClockAssumption == ClockReadable \in BOOLEAN

\* A provider without a binding to ask for serves nobody.
ASSUME RequestsAssumption == Bindings # {}

ASSUME ReasonsAssumption == {"expired", "stale", "unreconstructed", "unrealized"} \subseteq Reasons

Handlers == Callers

Principals == {b.principal : b \in Bindings}

Preaccept == {"Received", "Validated"}

VARIABLES
    pc,        \* where each handler is
    req,       \* the binding and the TLS peer of each handler's request
    reason,    \* why a handler is about to record a rejection
    realized,  \* how often the realizer was started for a binding, ever (history)
    told       \* the durable verdicts ever sent for a binding (history)

handlerVars == <<pc, req, reason, realized, told>>

vars == <<ledgerVars, handlerVars>>

Calls == {"query", "receive", "requery", "validate", "accept", "recheck", "mark",
          "store", "preject", "xreject", "ask"}

Waits == {"queried", "received", "requeried", "validated", "accepted", "rechecked",
          "marked", "stored", "asked"}

Local == {"idle", "check", "checkdurable", "prepare", "checkaccept", "checkstart", "realize",
          "realizing"}

NoRequest == [binding |-> CHOOSE b \in Bindings : TRUE, peer |-> CHOOSE p \in Principals : TRUE]

-----------------------------------------------------------------------------
Goto(h, label) == pc' = [pc EXCEPT ![h] = label]

\* The handler returns; its stream is closed with or without a response.
Done(h) ==
    /\ Goto(h, "idle")
    /\ req' = [req EXCEPT ![h] = NoRequest]
    /\ reason' = [reason EXCEPT ![h] = "none"]

\* A handler's ledger call: it answers or stages, or finds the ledger poisoned or unreadable.
LedgerCall(h, from, to, call) ==
    /\ pc[h] = from
    /\ call \/ Unhealthy(h) \/ VerifyFails(h)
    /\ Goto(h, to)
    /\ UNCHANGED <<req, reason, realized, told>>

Answered(h, at) == pc[h] = at /\ Take(h)

\* reply_from_entry(): a terminal entry is a verdict, anything else a progress report.
ReplyFromEntry(h) ==
    /\ Done(h)
    /\ told' = IF ret[h].entry.state \in Terminal
               THEN [told EXCEPT ![req[h].binding] = @ \cup {ret[h].entry}] ELSE told
    /\ UNCHANGED realized

\* rejection_reply(), or an error that closes the stream: nothing durable is said.
ReplyUnrecorded(h) == Done(h) /\ UNCHANGED <<realized, told>>

Continue(h, label) == Goto(h, label) /\ UNCHANGED <<req, reason, realized, told>>

Reject(h, label, why) ==
    /\ Goto(h, label)
    /\ reason' = [reason EXCEPT ![h] = why]
    /\ UNCHANGED <<req, realized, told>>

-----------------------------------------------------------------------------
\* A submission arrives.  One that fails validation or authentication never gets further.
Submit(h) ==
    /\ up = "up" /\ pc[h] = "idle"
    /\ \E b \in Bindings, peer \in Principals :
          req' = [req EXCEPT ![h] = [binding |-> b, peer |-> peer]]
    /\ Goto(h, "query")
    /\ UNCHANGED <<ledgerVars, reason, realized, told>>

QueryLedger(h) ==
    LedgerCall(h, "query", "queried", Read(h, Query(mem, req[h].binding, req[h].peer)))

Queried(h) ==
    /\ Answered(h, "queried")
    /\ CASE ret[h].tag = "Unknown" -> Continue(h, "check")
         [] ret[h].tag = "Found" /\ ret[h].entry.state \in Preaccept ->
               Continue(h, "checkdurable")
         [] ret[h].tag = "Found" /\ ret[h].entry.state \notin Preaccept -> ReplyFromEntry(h)
         [] OTHER -> ReplyUnrecorded(h)

\* validate_target(): the lease names this peer and this execution cell.
ValidateTarget(h) ==
    /\ req[h].binding.principal = req[h].peer
    /\ req[h].binding.incarnation = mem.incarnation

\* One look at the clock, then at the target.  A failed check replies, or goes on to record
\* the rejection at `refusal'.
LeaseCheck(h, from, to, refusal) ==
    /\ pc[h] = from
    /\ UNCHANGED ledgerVars
    /\ \/ ValidateTarget(h) /\ Continue(h, to)
       \/ refusal = "reply" /\ ReplyUnrecorded(h)
       \/ refusal # "reply" /\ Reject(h, refusal, "expired")
       \/ refusal # "reply" /\ ~ValidateTarget(h) /\ Reject(h, refusal, "stale")
       \/ ~ClockReadable /\ ReplyUnrecorded(h)

\* The first check leaves no trace for an attempt that is not in the ledger yet.
CheckNew(h) == LeaseCheck(h, "check", "receive", "reply")

CheckDurable(h) == LeaseCheck(h, "checkdurable", "receive", "preject")

Receive(h) ==
    LedgerCall(h, "receive", "received", Mutate(h, RecordReceived(mem, req[h].binding)))

Received(h) ==
    /\ Answered(h, "received")
    /\ CASE ret[h].tag = "Err" -> Continue(h, "requery")
         [] ret[h].tag # "Err" /\ ret[h].entry.state \in Preaccept -> Continue(h, "prepare")
         [] OTHER -> ReplyFromEntry(h)

Requery(h) ==
    LedgerCall(h, "requery", "requeried", Read(h, Query(mem, req[h].binding, req[h].peer)))

Requeried(h) ==
    /\ Answered(h, "requeried")
    /\ IF ret[h].tag = "Found" THEN ReplyFromEntry(h) ELSE ReplyUnrecorded(h)

\* realizer.prepare() reconstructs the source, or the attempt is rejected.
Prepare(h) ==
    /\ pc[h] = "prepare"
    /\ Continue(h, "validate") \/ Reject(h, "preject", "unreconstructed")
    /\ UNCHANGED ledgerVars

Validate(h) ==
    LedgerCall(h, "validate", "validated", Mutate(h, RecordValidated(mem, req[h].binding)))

Validated(h) ==
    /\ Answered(h, "validated")
    /\ CASE ret[h].tag = "Err" -> ReplyUnrecorded(h)
         [] ret[h].entry.state = "Validated" -> Continue(h, "checkaccept")
         [] OTHER -> ReplyFromEntry(h)

CheckAccept(h) == LeaseCheck(h, "checkaccept", "accept", "preject")

Accept(h) ==
    LedgerCall(h, "accept", "accepted", Mutate(h, ConsumeAndAccept(mem, req[h].binding)))

Accepted(h) ==
    /\ Answered(h, "accepted")
    /\ CASE ret[h].tag = "Applied" -> Continue(h, "mark")
         [] ret[h].tag = "Duplicate" -> ReplyFromEntry(h)
         [] OTHER -> Continue(h, "recheck")

\* After a failed acceptance the query only chooses between a rejection and an error.
Recheck(h) ==
    LedgerCall(h, "recheck", "rechecked", Read(h, Query(mem, req[h].binding, req[h].peer)))

Rechecked(h) == Answered(h, "rechecked") /\ ReplyUnrecorded(h)

MarkRunningCall(h) ==
    LedgerCall(h, "mark", "marked", Mutate(h, MarkRunning(mem, req[h].binding)))

Marked(h) ==
    /\ Answered(h, "marked")
    /\ CASE ret[h].tag = "Applied" -> Continue(h, "checkstart")
         [] ret[h].tag = "Duplicate" -> ReplyFromEntry(h)
         [] OTHER -> ReplyUnrecorded(h)

\* Mutant: an expiry found just before the start is answered but not recorded.
StartUnrecorded(h) == LeaseCheck(h, "checkstart", "realize", "reply")

CheckStart(h) == LeaseCheck(h, "checkstart", "realize", "xreject")

\* realizer.realize() begins.
StartRealizer(h) ==
    /\ pc[h] = "realize"
    /\ Goto(h, "realizing")
    /\ realized' = [realized EXCEPT ![req[h].binding] = @ + 1]
    /\ UNCHANGED <<ledgerVars, req, reason, told>>

\* Its result, the runtime budget and the terminal signature.
Realized(h) ==
    /\ pc[h] = "realizing"
    /\ Continue(h, "store") \/ Reject(h, "xreject", "unrealized")
    /\ UNCHANGED ledgerVars

StoreTerminal(h) ==
    \E p \in Payloads : LedgerCall(h, "store", "stored",
        Mutate(h, RecordTerminalCandidate(mem, req[h].binding, p)))

RecordPreacceptRejection(h) ==
    LedgerCall(h, "preject", "stored",
        Mutate(h, RecordPreacceptRejected(mem, req[h].binding, reason[h])))

RecordExecutionRejection(h) ==
    LedgerCall(h, "xreject", "stored",
        Mutate(h, RecordRejected(mem, req[h].binding, reason[h])))

Stored(h) ==
    /\ Answered(h, "stored")
    /\ IF ret[h].tag = "Err" THEN ReplyUnrecorded(h) ELSE ReplyFromEntry(h)

\* handle_query(): a read-only request.
AskStatus(h) ==
    /\ up = "up" /\ pc[h] = "idle"
    /\ \E b \in Bindings, peer \in Principals :
          req' = [req EXCEPT ![h] = [binding |-> b, peer |-> peer]]
    /\ Goto(h, "ask")
    /\ UNCHANGED <<ledgerVars, reason, realized, told>>

Ask(h) == LedgerCall(h, "ask", "asked", Read(h, Query(mem, req[h].binding, req[h].peer)))

Asked(h) ==
    /\ Answered(h, "asked")
    /\ IF ret[h].tag = "Found" THEN ReplyFromEntry(h) ELSE ReplyUnrecorded(h)

-----------------------------------------------------------------------------
ProviderInit ==
    /\ LedgerInit
    /\ pc = [h \in Handlers |-> "idle"]
    /\ req = [h \in Handlers |-> NoRequest]
    /\ reason = [h \in Handlers |-> "none"]
    /\ realized = [b \in Bindings |-> 0]
    /\ told = [b \in Bindings |-> {}]

HandlerStep(h) ==
    \/ QueryLedger(h) \/ Queried(h) \/ CheckNew(h) \/ CheckDurable(h)
    \/ Receive(h) \/ Received(h) \/ Requery(h) \/ Requeried(h)
    \/ Prepare(h) \/ Validate(h) \/ Validated(h) \/ CheckAccept(h)
    \/ Accept(h) \/ Accepted(h) \/ Recheck(h) \/ Rechecked(h)
    \/ MarkRunningCall(h) \/ Marked(h) \/ CheckStart(h)
    \/ StartRealizer(h) \/ Realized(h)
    \/ StoreTerminal(h) \/ RecordPreacceptRejection(h) \/ RecordExecutionRejection(h)
    \/ Stored(h) \/ Ask(h) \/ Asked(h)

\* The ledger's publication proceeds under the mutex of the handler that started it.
PublicationStep == (Rename \/ Sync \/ Publish) /\ UNCHANGED handlerVars

\* Handler threads die with their process.
ProcessDies ==
    /\ Crash \/ PowerLoss
    /\ pc' = [h \in Handlers |-> "idle"]
    /\ req' = [h \in Handlers |-> NoRequest]
    /\ reason' = [h \in Handlers |-> "none"]
    /\ UNCHANGED <<realized, told>>

ProviderNext ==
    \/ \E h \in Handlers : Submit(h) \/ AskStatus(h) \/ HandlerStep(h)
    \/ PublicationStep
    \/ (Open \/ PublicationFails) /\ UNCHANGED handlerVars
    \/ ProcessDies

\* Threads are scheduled, and file-system calls return.
Fairness ==
    /\ \A h \in Handlers : WF_vars(HandlerStep(h))
    /\ WF_vars(PublicationStep)

ProviderSpec == ProviderInit /\ [][ProviderNext]_vars

FairProviderSpec == ProviderSpec /\ Fairness

-----------------------------------------------------------------------------
(***************************************************************************)
(* Properties.                                                             *)
(***************************************************************************)

\* Handlers are at known points and hold requests for known bindings.
ProviderTypeOK ==
    /\ LedgerTypeOK
    /\ pc \in [Handlers -> Calls \cup Waits \cup Local]
    /\ req \in [Handlers -> [binding : Bindings, peer : Principals]]
    /\ reason \in [Handlers -> Reasons \cup {"none"}]
    /\ realized \in [Bindings -> Nat]
    /\ told \in [Bindings -> SUBSET Entry]

\* A handler between mark_running and the recording of its verdict.
Executing(h) ==
    \/ pc[h] \in {"checkstart", "realize", "realizing", "store", "xreject"}
    \/ pc[h] = "marked" /\ ret[h].tag = "Applied"

\* While a handler executes an attempt, the attempt is durably Running and no other handler
\* executes it: a concurrent rejection or restart never runs under the executing handler.
ExecutionIsExclusive ==
    \A h \in Handlers : Executing(h) =>
        /\ disk.entries[req[h].binding].state = "Running"
        /\ \A g \in Handlers \ {h} : Executing(g) => req[g].binding # req[h].binding

\* The abstract service: a verdict is decided when its entry is on the disk.
Attempt == INSTANCE FabricAttempt WITH
    Competes <- SameKey,
    Verdicts <- {e \in Entry : e.state \in Terminal},
    Completed <- LAMBDA e : e.state = "TerminalCandidate",
    runs <- realized,
    verdict <- [b \in Bindings |->
        IF disk.entries[b].state \in Terminal THEN {disk.entries[b]} ELSE {}]

\* The provider implements FabricAttempt: over every interleaving of streams, crash and
\* power loss, work starts once and only while undecided and uncontested, a result is
\* recorded only for work that ran, and clients learn only what was decided.
ImplementsAttempt == Attempt!Spec

\* Every attempt in the ledger gets a verdict, unless the ledger is poisoned or the process
\* dies (the next open then abandons the attempt).
AttemptsConclude ==
    \A b \in Bindings :
        (up = "up" /\ mem.entries[b].state \in Incomplete) ~>
            (up # "up" \/ poisoned \/ mem.entries[b].state \in Terminal)
=============================================================================
