------------------------- MODULE FabricClientProofs -------------------------
(***************************************************************************)
(* Proofs about the coordinator's side of a Fabric attempt, for any set of *)
(* attempts and any interleaving of deadlines, lost and misdirected        *)
(* replies: an accepted value is the one the provider recorded.            *)
(***************************************************************************)
EXTENDS FabricClient, TLAPS

\* The provider's side: a verdict is one, it stays, a result follows an execution, and only
\* verdicts are told.
ProviderSide ==
    /\ runs \in [Bindings -> Nat]
    /\ verdict \in [Bindings -> SUBSET Verdicts]
    /\ told \in [Bindings -> SUBSET Verdicts]
    /\ \A b \in Bindings :
        /\ verdict[b] # {} => \E v \in Verdicts : verdict[b] = {v} /\ (Completed(v) => runs[b] = 1)
        /\ told[b] \subseteq verdict[b]

\* A value on a stream, and a value that was returned, are recorded verdicts: on a stream of
\* the attempt the response names, in a result of the attempt itself.
ClientSide ==
    /\ wire \in [Bindings -> [of : Bindings, says : Verdicts \cup {"progress"}] \cup {NoResponse}]
    /\ result \in [Bindings -> {"none", "error", "value"}]
    /\ \A b \in Bindings :
        /\ wire[b].says = "value" => wire[b].of \in Bindings /\ verdict[wire[b].of] = {"value"}
        /\ result[b] = "value" => verdict[b] = {"value"}

ClientInv == ProviderSide /\ ClientSide

\* Initially nothing is known.
LEMMA ClientInitInv == ClientInit => ClientInv
BY VerdictsAssumption DEF ClientInit, Init, ClientInv, ProviderSide, ClientSide, NoResponse

\* Recorded verdicts stay, whatever the provider or the client does.
LEMMA VerdictsStay ==
    ASSUME ClientInv, [ClientNext]_systemVars
    PROVE  /\ ProviderSide'
           /\ \A b \in Bindings : verdict[b] # {} => verdict'[b] = verdict[b]
<1>1. CASE UNCHANGED vars
    BY <1>1 DEF vars, ClientInv, ProviderSide
<1>2. ASSUME NEW b \in Bindings, ProviderStarts(b)
      PROVE  ProviderSide' /\ verdict' = verdict
    <2>1. /\ verdict' = verdict /\ told' = told /\ runs' = [runs EXCEPT ![b] = 1]
          /\ verdict[b] = {}
        BY <1>2 DEF ProviderStarts, Start
    <2> QED BY <2>1 DEF ClientInv, ProviderSide
<1>3. ASSUME NEW b \in Bindings, NEW v \in Verdicts, ProviderDecides(b, v)
      PROVE  /\ ProviderSide'
             /\ \A c \in Bindings : verdict[c] # {} => verdict'[c] = verdict[c]
    <2>1. /\ verdict' = [verdict EXCEPT ![b] = {v}] /\ runs' = runs /\ told' = told
          /\ verdict[b] = {} /\ (Completed(v) => runs[b] = 1)
        BY <1>3 DEF ProviderDecides
    <2> QED BY <2>1 DEF ClientInv, ProviderSide
<1>4. ASSUME NEW b \in Bindings, ReplyVerdict(b)
      PROVE  ProviderSide' /\ verdict' = verdict
    <2>1. told' = [told EXCEPT ![b] = verdict[b]] /\ runs' = runs /\ verdict' = verdict
        BY <1>4 DEF ReplyVerdict, Tell
    <2> QED BY <2>1 DEF ClientInv, ProviderSide
<1>5. \/ UNCHANGED vars
      \/ \E b \in Bindings : \/ ProviderStarts(b) \/ ReplyVerdict(b)
                              \/ \E v \in Verdicts : ProviderDecides(b, v)
    BY DEF ClientNext, systemVars, CoordinatorStep, Send, DeadlineFails, ReadVerdict, ReadProgress,
       Wake, TransportFails, Expire, Deliver, ReplyUnrecorded, Misreply
<1>6. CASE \E b \in Bindings : \/ ProviderStarts(b) \/ ReplyVerdict(b)
                              \/ \E v \in Verdicts : ProviderDecides(b, v)
    BY <1>2, <1>3, <1>4, <1>6
<1>7. CASE UNCHANGED vars
    BY <1>1, <1>7 DEF vars
<1> QED BY <1>5, <1>6, <1>7

\* What the streams carry and what was returned stays true of the recorded verdicts.
LEMMA ClientSideInv ==
    ASSUME ClientInv, [ClientNext]_systemVars
    PROVE  ClientSide'
<1>1. /\ wire \in [Bindings -> [of : Bindings, says : Verdicts \cup {"progress"}] \cup {NoResponse}]
      /\ result \in [Bindings -> {"none", "error", "value"}]
      /\ \A b \in Bindings : verdict[b] = {"value"} => verdict'[b] = {"value"}
      /\ NoResponse.says # "value"
    BY VerdictsStay DEF ClientInv, ClientSide, NoResponse
<1>2. CASE UNCHANGED <<wire, result>>
    BY <1>1, <1>2 DEF ClientInv, ClientSide
<1>3. ASSUME NEW b \in Bindings, NEW r \in {"error", "value"}, Return(b, r),
             r = "value" => verdict[b] = {"value"}
      PROVE  ClientSide'
    <2>1. /\ wire' = [wire EXCEPT ![b] = NoResponse]
          /\ result' = [result EXCEPT ![b] = r]
        BY <1>3 DEF Return
    <2> QED BY <1>1, <1>3, <2>1 DEF ClientInv, ClientSide
<1>4. ASSUME NEW b \in Bindings, NEW c \in Bindings, NEW v \in Verdicts \cup {"progress"},
             OnStream(b, Response(c, v)), v = "value" => verdict[c] = {"value"}
      PROVE  ClientSide'
    <2>1. wire' = [wire EXCEPT ![b] = [of |-> c, says |-> v]] /\ result' = result
        BY <1>4 DEF OnStream, Response
    <2> QED BY <1>1, <1>4, <2>1 DEF ClientInv, ClientSide
<1>5. ASSUME NEW b \in Bindings, DeadlineFails(b) \/ TransportFails(b)
      PROVE  ClientSide'
    BY <1>3, <1>5 DEF DeadlineFails, TransportFails
<1>6. ASSUME NEW b \in Bindings, ReadVerdict(b) PROVE ClientSide'
    BY <1>3, <1>6 DEF ReadVerdict, Accepts, ClientInv, ClientSide
<1>7. ASSUME NEW b \in Bindings, ReadProgress(b) PROVE ClientSide'
    <2>1. CASE wire' = [wire EXCEPT ![b] = NoResponse] /\ result' = result
        BY <1>1, <2>1 DEF ClientInv, ClientSide
    <2> QED BY <1>3, <1>7, <2>1 DEF ReadProgress
<1>8. ASSUME NEW b \in Bindings, ReplyVerdict(b) PROVE ClientSide'
    <2>1. PICK v \in verdict[b] : OnStream(b, Response(b, v))
        BY <1>8 DEF ReplyVerdict
    <2>2. v \in Verdicts /\ verdict[b] = {v}
        BY <2>1 DEF ClientInv, ProviderSide
    <2> QED BY <1>4, <2>1, <2>2
<1>9. ASSUME NEW b \in Bindings, ReplyUnrecorded(b) PROVE ClientSide'
    BY <1>4, <1>9, VerdictsAssumption DEF ReplyUnrecorded
<1>10. ASSUME NEW b \in Bindings, NEW c \in Bindings, Misreply(b, c) PROVE ClientSide'
    <2>1. CASE c \in serving /\ OnStream(b, Response(c, "progress"))
        BY <1>4, <2>1
    <2>2. CASE \E v \in told[c] : OnStream(b, Response(c, v))
        <3>1. PICK v \in told[c] : OnStream(b, Response(c, v))
            BY <2>2
        <3>2. v \in Verdicts /\ verdict[c] = {v}
            BY <3>1 DEF ClientInv, ProviderSide
        <3> QED BY <1>4, <3>1, <3>2
    <2> QED BY <1>10, <2>1, <2>2 DEF Misreply
<1>11. ASSUME NEW b \in Bindings,
              \/ Send(b) \/ Wake(b) \/ Expire(b) \/ Deliver(b) \/ ProviderStarts(b)
              \/ \E v \in Verdicts : ProviderDecides(b, v)
       PROVE  UNCHANGED <<wire, result>>
    BY <1>11 DEF Send, Wake, Expire, Deliver, ProviderStarts, ProviderDecides, clientVars
<1>12. CASE ClientNext
    BY <1>2, <1>5, <1>6, <1>7, <1>8, <1>9, <1>10, <1>11, <1>12 DEF ClientNext, CoordinatorStep
<1>13. CASE UNCHANGED systemVars
    BY <1>2, <1>13 DEF systemVars, clientVars
<1> QED BY <1>12, <1>13

\* The inductive invariant holds of every behaviour of the client.
THEOREM ClientInvariant == ClientSpec => []ClientInv
<1>1. ClientInv /\ [ClientNext]_systemVars => ClientInv'
    BY VerdictsStay, ClientSideInv DEF ClientInv
<1> QED BY <1>1, ClientInitInv, PTL DEF ClientSpec

\* A value that execute_remote returns is the verdict recorded for that very attempt, and its
\* work ran once.
THEOREM AcceptedValues == ClientSpec => []AcceptedIsRecorded
<1>1. ClientInv => AcceptedIsRecorded
    BY CompletedAssumption DEF ClientInv, ProviderSide, ClientSide, AcceptedIsRecorded
<1> QED BY <1>1, ClientInvariant, PTL

\* The client asks of the provider only what FabricAttempt lets it ask: every behaviour of the
\* composition is one of FabricAttempt.
THEOREM ClientUsesAttempt == ClientSpec => Spec
<1>1. ClientInit => Init
    BY DEF ClientInit
<1>2. ClientInv /\ [ClientNext]_systemVars => [Next]_vars
    <2> SUFFICES ASSUME ClientInv, [ClientNext]_systemVars PROVE [Next]_vars
        OBVIOUS
    <2>1. ASSUME NEW b \in Bindings, ProviderStarts(b) PROVE Next
        BY <2>1 DEF ProviderStarts, Next
    <2>2. ASSUME NEW b \in Bindings, ReplyVerdict(b) PROVE Next
        BY <2>2 DEF ReplyVerdict, Next
    <2>3. ASSUME NEW b \in Bindings, NEW v \in Verdicts, ProviderDecides(b, v) PROVE Next
        BY <2>3 DEF ProviderDecides, Next, Decide, ClientInv, ProviderSide
    <2>4. \/ UNCHANGED vars
          \/ \E b \in Bindings : \/ ProviderStarts(b) \/ ReplyVerdict(b)
                                  \/ \E v \in Verdicts : ProviderDecides(b, v)
        BY DEF ClientNext, systemVars, CoordinatorStep, Send, DeadlineFails, ReadVerdict,
           ReadProgress, Wake, TransportFails, Expire, Deliver, ReplyUnrecorded, Misreply
    <2> QED BY <2>1, <2>2, <2>3, <2>4
<1> QED BY <1>1, <1>2, ClientInvariant, PTL DEF ClientSpec, Spec
=============================================================================
