---------------------------- MODULE FabricClient ----------------------------
(***************************************************************************)
(* The coordinator's side of a Fabric attempt (hosted_remote/fabric:       *)
(* execute_remote and its gates in coordinator.rs, exchange in client.rs)  *)
(* against the provider that FabricAttempt promises: one prepared attempt  *)
(* per binding, submitted once and then polled, each exchange on a stream  *)
(* of its own, with one monotonic deadline over all of it.                 *)
(*                                                                         *)
(* Requests and replies may be lost or late, the work may start or be      *)
(* decided after the coordinator has given up, and the authenticated node  *)
(* may answer with a reply that belongs to another attempt.                *)
(***************************************************************************)
EXTENDS FabricAttempt

ASSUME VerdictsAssumption == Verdicts = {"value", "failed", "late", "rejected", "abandoned"}

\* A value is the result of an execution.
ASSUME CompletedAssumption == Completed("value")

VARIABLES
    step,      \* where execute_remote is
    expired,   \* the attempts whose monotonic deadline has passed
    inflight,  \* the attempts whose request is on its way to the provider
    serving,   \* the attempts whose submission a provider handler has read
    wire,      \* the response on each attempt's open stream
    result     \* what execute_remote returned

clientVars == <<step, expired, inflight, serving, wire, result>>
systemVars == <<vars, clientVars>>

NoResponse == [of |-> "nobody", says |-> "nothing"]

Response(b, says) == [of |-> b, says |-> says]

ClientInit ==
    /\ Init
    /\ step = [b \in Bindings |-> "ready"]
    /\ expired = {} /\ inflight = {} /\ serving = {}
    /\ wire = [b \in Bindings |-> NoResponse]
    /\ result = [b \in Bindings |-> "none"]

-----------------------------------------------------------------------------
\* execute_remote returns; dropping the stream also drops what is on it.
Return(b, r) ==
    /\ step' = [step EXCEPT ![b] = "done"]
    /\ result' = [result EXCEPT ![b] = r]
    /\ wire' = [wire EXCEPT ![b] = NoResponse]

\* The head of the loop and exchange(): connect and write the request.
Send(b) ==
    /\ step[b] = "ready" /\ b \notin expired
    /\ step' = [step EXCEPT ![b] = "sent"]
    /\ inflight' = inflight \cup {b}
    /\ UNCHANGED <<vars, expired, serving, wire, result>>

\* Mutant: the deadline is looked at between exchanges only.
DeadlineBetweenExchanges(b) ==
    /\ step[b] = "ready" /\ b \in expired
    /\ Return(b, "error")
    /\ UNCHANGED <<vars, expired, inflight, serving>>

\* The deadline, at the head of the loop, in a blocked read or right after one.
DeadlineFails(b) ==
    /\ step[b] \in {"ready", "sent"} /\ b \in expired
    /\ Return(b, "error")
    /\ UNCHANGED <<vars, expired, inflight, serving>>

\* The connection, the request or the response fails (map_client_failure).
TransportFails(b) ==
    /\ step[b] \in {"ready", "sent"}
    /\ Return(b, "error")
    /\ UNCHANGED <<vars, expired, inflight, serving>>

\* Mutant: the candidate is bound to the node but not to the submission.
AcceptsAnyOf(b, r) == r.says = "value"

\* accept_terminal_candidate: gates 1 to 17 bind the candidate to this very
\* submission and its receipt, gate 16 wants success, gate 18 a completion in time.
Accepts(b, r) == r.of = b /\ r.says = "value"

\* A terminal candidate or a refusal ends the attempt.
ReadVerdict(b) ==
    /\ step[b] = "sent" /\ b \notin expired
    /\ wire[b] # NoResponse /\ wire[b].says # "progress"
    /\ Return(b, IF Accepts(b, wire[b]) THEN "value" ELSE "error")
    /\ UNCHANGED <<vars, expired, inflight, serving>>

\* A status report: validate_intermediate_status, then sleep and poll.
ReadProgress(b) ==
    /\ step[b] = "sent" /\ b \notin expired /\ wire[b].says = "progress"
    /\ \/ /\ wire[b].of = b
          /\ step' = [step EXCEPT ![b] = "sleeping"]
          /\ wire' = [wire EXCEPT ![b] = NoResponse]
          /\ UNCHANGED result
       \/ wire[b].of # b /\ Return(b, "error")
    /\ UNCHANGED <<vars, expired, inflight, serving>>

\* The sleep ends, by the deadline at the latest, and the next request is a
\* QueryAttempt for the same submission.
Wake(b) ==
    /\ step[b] = "sleeping"
    /\ step' = [step EXCEPT ![b] = "ready"]
    /\ UNCHANGED <<vars, expired, inflight, serving, wire, result>>

Expire(b) ==
    /\ b \notin expired
    /\ expired' = expired \cup {b}
    /\ UNCHANGED <<vars, step, inflight, serving, wire, result>>

-----------------------------------------------------------------------------
(* The provider and the network.                                            *)

\* A request arrives, possibly after its sender is gone, or never does.
Deliver(b) ==
    /\ b \in inflight
    /\ inflight' = inflight \ {b}
    /\ \/ serving' = serving \cup {b}
       \/ UNCHANGED serving
    /\ UNCHANGED <<vars, step, expired, wire, result>>

ProviderStarts(b) == b \in serving /\ Start(b) /\ UNCHANGED clientVars

\* One verdict becomes final (FabricAttempt's Decide, one binding at a time).
ProviderDecides(b, v) ==
    /\ b \in serving
    /\ verdict[b] = {} /\ (Completed(v) => runs[b] = 1)
    /\ verdict' = [verdict EXCEPT ![b] = {v}]
    /\ UNCHANGED <<runs, told, clientVars>>

\* A reply goes to the stream of b if it is still open.
OnStream(b, r) ==
    /\ step[b] = "sent" /\ b \notin inflight /\ wire[b] = NoResponse
    /\ wire' = [wire EXCEPT ![b] = r]
    /\ UNCHANGED <<step, expired, inflight, serving, result>>

\* The handler tells the recorded verdict.
ReplyVerdict(b) ==
    /\ Tell(b)
    /\ \E v \in verdict[b] : OnStream(b, Response(b, v))

\* It reports progress of an undecided attempt, or refuses without a record.
ReplyUnrecorded(b) ==
    /\ UNCHANGED vars
    /\ \/ b \in serving /\ verdict[b] = {} /\ OnStream(b, Response(b, "progress"))
       \/ OnStream(b, Response(b, "rejected"))

\* The node answers b with a reply it once gave to c, or a report about c.
Misreply(b, c) ==
    /\ b # c /\ UNCHANGED vars
    /\ \/ \E v \in told[c] : OnStream(b, Response(c, v))
       \/ c \in serving /\ OnStream(b, Response(c, "progress"))

-----------------------------------------------------------------------------
CoordinatorStep(b) ==
    Send(b) \/ DeadlineFails(b) \/ ReadVerdict(b) \/ ReadProgress(b) \/ Wake(b)

ClientNext ==
    \E b \in Bindings :
        \/ CoordinatorStep(b) \/ TransportFails(b) \/ Expire(b)
        \/ Deliver(b) \/ ProviderStarts(b) \/ ReplyVerdict(b) \/ ReplyUnrecorded(b)
        \/ \E v \in Verdicts : ProviderDecides(b, v)
        \/ \E c \in Bindings : Misreply(b, c)

ClientSpec == ClientInit /\ [][ClientNext]_systemVars

\* The coordinator's thread is scheduled and its monotonic clock advances;
\* nothing is asked of the network or the provider.
ClientFairness == \A b \in Bindings : WF_systemVars(CoordinatorStep(b))
                                   /\ WF_systemVars(Expire(b))

FairClientSpec == ClientSpec /\ ClientFairness

-----------------------------------------------------------------------------
\* A value that execute_remote returned is the verdict the provider recorded
\* for that submission, of work that ran once and completed in time, whatever
\* other replies of the node reached the stream.
AcceptedIsRecorded ==
    \A b \in Bindings :
        result[b] = "value" => verdict[b] = {"value"} /\ runs[b] = 1

\* Every attempt returns, answered or not: no reply, a provider that never
\* decides and a poll that always finds it running end at the deadline.
AttemptsReturn == \A b \in Bindings : <>(step[b] = "done")
=============================================================================
