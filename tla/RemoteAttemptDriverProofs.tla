--------------------- MODULE RemoteAttemptDriverProofs ---------------------
(***************************************************************************)
(* Proofs that the remote attempt driver delivers one completion per token *)
(* and never strands the coordinator, for any number of tokens, tasks,     *)
(* generations and slots.                                                  *)
(***************************************************************************)
EXTENDS RemoteAttemptDriver, FiniteSetTheorems, TLAPS

(***************************************************************************)
(* The inductive invariant.  What is in the pool is bound (InFlight), no   *)
(* token serves a local task and a remote one (Bindings), the newest       *)
(* generation alone is current, and a token was delivered only if its      *)
(* local task or one of its attempts came to an end (Accounted).           *)
(***************************************************************************)
Bindings ==
    /\ \A a \in Attempts : Seen(a) => token[a] \in Tokens /\ token[a] \notin seenLocal
    /\ \A a \in Attempts : ~Seen(a) => token[a] = NoToken

InFlight ==
    /\ IsFiniteSet(running) /\ IsFiniteSet(done) /\ running \cap done = {}
    /\ \A s \in running \cup done :
          IF s.attempt = Local THEN s.token \in activeLocal
          ELSE s.attempt \in Attempts /\ token[s.attempt] = s.token

Accounted ==
    \A t \in Tokens :
        \/ delivered[t] = 0
        \/ /\ delivered[t] = 1
           /\ \/ t \in seenLocal \ activeLocal
              \/ \E a \in Attempts : lifecycle[a] = "Delivered" /\ token[a] = t

DriverInv ==
    /\ TypeOK /\ Bindings /\ InFlight /\ Accounted
    /\ NewestWins /\ TokenIsTask /\ CompletionIsComing /\ ReceiptsAreSound

-----------------------------------------------------------------------------
\* An attempt is its task and its generation.
LEMMA AttemptIdentity ==
    \A a, b \in Attempts : a.task = b.task /\ a.generation = b.generation => a = b
BY DEF Attempts

\* Generations are integers.
LEMMA GenerationType == \A a \in Attempts : a.generation \in Int
BY DriverAssumption DEF Attempts

\* A planned attempt was never seen before, so neither was its submission.
LEMMA PlannedIsNew ==
    ASSUME DriverInv, NEW t \in Tokens, NEW a \in Attempts, Planned(t, a)
    PROVE  /\ ~Seen(a)
           /\ [token |-> t, attempt |-> a] \notin running \cup done
<1>1. ~Seen(a)
    BY GenerationType DEF Planned, Siblings
<1>2. token[a] = NoToken
    BY <1>1 DEF DriverInv, Bindings
<1>3. a # Local
    BY LocalAssumption
<1> QED BY <1>1, <1>2, <1>3, DriverAssumption DEF DriverInv, InFlight

\* Submitting a remote attempt, submit() with plan_remote_submission(), keeps the invariant.
LEMMA SubmitRemoteKeeps ==
    ASSUME DriverInv, NEW t \in Tokens, NEW a \in Attempts, SubmitRemote(t, a)
    PROVE  DriverInv'
<1> DEFINE s == [token |-> t, attempt |-> a]
<1>1. /\ Planned(t, a) /\ ~Seen(a) /\ s \notin running \cup done /\ a # Local
    BY PlannedIsNew, LocalAssumption DEF SubmitRemote
<1>2. /\ running' = running \cup {s} /\ done' = done /\ delivered' = delivered
      /\ activeLocal' = activeLocal /\ seenLocal' = seenLocal /\ fault' = "none"
      /\ token' = [token EXCEPT ![a] = t]
    BY DEF SubmitRemote, PoolSubmit
<1>3. \A b \in Attempts : lifecycle'[b] =
          IF b = a THEN "Active"
          ELSE IF b.task = a.task /\ lifecycle[b] = "Active" THEN "Fenced" ELSE lifecycle[b]
    BY DEF SubmitRemote
<1>4. \A b \in Attempts : token'[b] = IF b = a THEN t ELSE token[b]
    BY <1>2 DEF DriverInv, TypeOK
<1>5. \A b \in Attempts : Seen(b)' <=> (Seen(b) \/ b = a)
    BY <1>3 DEF Seen
<1>6. TypeOK'
  <2>1. lifecycle' \in [Attempts -> Lifecycles]
    BY DEF DriverInv, TypeOK, SubmitRemote, Lifecycles
  <2>2. token' \in [Attempts -> Tokens \cup {NoToken}]
    BY <1>2 DEF DriverInv, TypeOK
  <2> QED BY <1>2, <2>1, <2>2 DEF DriverInv, TypeOK, Submissions, Faults
<1>7. Bindings'
    BY <1>1, <1>2, <1>4, <1>5 DEF DriverInv, Bindings, Planned
<1>8. InFlight'
  <2>1. IsFiniteSet(running')
    BY <1>2, FS_AddElement DEF DriverInv, InFlight
  <2>2. \A r \in running \cup done : r.attempt # a \/ r.attempt = Local
    BY <1>1, DriverAssumption DEF DriverInv, InFlight, Bindings, TypeOK, Submissions
  <2> QED BY <1>1, <1>2, <1>4, <2>1, <2>2 DEF DriverInv, InFlight
<1>9. Accounted'
    BY <1>1, <1>2, <1>3, <1>4 DEF DriverInv, Accounted, Seen
<1>10. NewestWins'
  <2> SUFFICES ASSUME NEW b \in Attempts, lifecycle'[b] \in {"Active", "Delivered"},
                      NEW c \in Attempts, Seen(c)', c.task = b.task
               PROVE  c.generation <= b.generation
    BY DEF NewestWins, Siblings, Seen
  <2>1. CASE b = a
    BY <2>1, <1>1, <1>5, GenerationType DEF Planned, Siblings
  <2>2. CASE b # a /\ b.task = a.task
    BY <2>2, <1>1, <1>3 DEF Planned, Siblings, Seen
  <2>3. CASE b # a /\ b.task # a.task
    BY <2>3, <1>3, <1>5 DEF DriverInv, NewestWins, Siblings
  <2> QED BY <2>1, <2>2, <2>3
<1>11. TokenIsTask'
  <2> SUFFICES ASSUME NEW b \in Attempts, NEW c \in Attempts, Seen(b)', Seen(c)'
               PROVE  b.task = c.task <=> token'[b] = token'[c]
    BY DEF TokenIsTask
  <2>1. \A d \in Attempts : Seen(d) => (d.task = a.task <=> token[d] = t)
    BY <1>1 DEF Planned, Siblings, Bound
  <2> QED BY <2>1, <1>1, <1>4, <1>5 DEF DriverInv, TokenIsTask
<1>12. CompletionIsComing'
    BY <1>2, <1>3, <1>4 DEF DriverInv, CompletionIsComing
<1>13. ReceiptsAreSound'
    BY <1>2 DEF ReceiptsAreSound
<1> QED BY <1>6, <1>7, <1>8, <1>9, <1>10, <1>11, <1>12, <1>13 DEF DriverInv

\* Submitting a local task keeps the invariant.
LEMMA SubmitLocalKeeps ==
    ASSUME DriverInv, NEW t \in Tokens, SubmitLocal(t)
    PROVE  DriverInv'
<1> DEFINE s == [token |-> t, attempt |-> Local]
<1>1. /\ running' = running \cup {s} /\ done' = done /\ delivered' = delivered
      /\ activeLocal' = activeLocal \cup {t} /\ seenLocal' = seenLocal \cup {t}
      /\ fault' = "none" /\ token' = token /\ lifecycle' = lifecycle
      /\ t \notin seenLocal /\ Bound(t) = {}
    BY DEF SubmitLocal, PoolSubmit
<1>2. \A a \in Attempts : Seen(a)' <=> Seen(a)
    BY <1>1 DEF Seen
<1>3. s \notin running \cup done
    BY <1>1 DEF DriverInv, InFlight, TypeOK
<1>4. TypeOK'
    BY <1>1 DEF DriverInv, TypeOK, Submissions, Faults
<1>5. Bindings'
    BY <1>1, <1>2 DEF DriverInv, Bindings, Bound
<1>6. InFlight'
  <2>1. IsFiniteSet(running')
    BY <1>1, FS_AddElement DEF DriverInv, InFlight
  <2> QED BY <1>1, <1>3, <2>1 DEF DriverInv, InFlight
<1>7. Accounted'
    BY <1>1 DEF DriverInv, Accounted, TypeOK
<1>8. NewestWins' /\ TokenIsTask'
    BY <1>1, <1>2 DEF DriverInv, NewestWins, TokenIsTask, Siblings
<1>9. CompletionIsComing'
    BY <1>1 DEF DriverInv, CompletionIsComing
<1>10. ReceiptsAreSound'
    BY <1>1 DEF ReceiptsAreSound
<1> QED BY <1>4, <1>5, <1>6, <1>7, <1>8, <1>9, <1>10 DEF DriverInv

\* A worker that finishes keeps the invariant.
LEMMA CompleteKeeps ==
    ASSUME DriverInv, NEW s \in Submissions, Complete(s)
    PROVE  DriverInv'
<1>1. /\ s \in running /\ running' = running \ {s} /\ done' = done \cup {s}
      /\ delivered' = delivered /\ activeLocal' = activeLocal /\ seenLocal' = seenLocal
      /\ fault' = fault /\ token' = token /\ lifecycle' = lifecycle
    BY DEF Complete
<1>2. \A a \in Attempts : Seen(a)' <=> Seen(a)
    BY <1>1 DEF Seen
<1>3. TypeOK'
    BY <1>1 DEF DriverInv, TypeOK
<1>4. Bindings' /\ Accounted'
    BY <1>1, <1>2 DEF DriverInv, Bindings, Accounted
<1>5. InFlight'
  <2>1. IsFiniteSet(running') /\ IsFiniteSet(done')
    BY <1>1, FS_AddElement, FS_RemoveElement DEF DriverInv, InFlight
  <2> QED BY <1>1, <2>1 DEF DriverInv, InFlight
<1>6. NewestWins' /\ TokenIsTask'
    BY <1>1, <1>2 DEF DriverInv, NewestWins, TokenIsTask, Siblings
<1>7. CompletionIsComing'
    BY <1>1 DEF DriverInv, CompletionIsComing
<1>8. ReceiptsAreSound'
    BY <1>1 DEF DriverInv, ReceiptsAreSound
<1> QED BY <1>3, <1>4, <1>5, <1>6, <1>7, <1>8 DEF DriverInv

\* When a single completion is outstanding, receiving it leaves the pool empty.
LEMMA LastOne ==
    ASSUME DriverInv, NEW s \in done, Outstanding = 1
    PROVE  running = {} /\ done = {s}
<1>1. IsFiniteSet(running) /\ IsFiniteSet(done)
    BY DEF DriverInv, InFlight
<1>2. Cardinality(running) \in Nat /\ Cardinality(done) \in Nat
    BY <1>1, FS_CardinalityType
<1>3. Cardinality(done) # 0
    BY <1>1, FS_EmptySet
<1>4. Cardinality(running) = 0 /\ Cardinality(done) = 1
    BY <1>2, <1>3 DEF Outstanding
<1>5. running = {}
    BY <1>1, <1>4, FS_EmptySet
<1>6. \E x : done = {x}
    BY <1>1, <1>4, FS_Singleton
<1> QED BY <1>5, <1>6

\* Receiving the completion of a remote attempt, accept_event() and gate 19, keeps the
\* invariant.
LEMMA ReceiveRemoteKeeps ==
    ASSUME DriverInv, NEW s \in Submissions, ReceiveRemote(s)
    PROVE  DriverInv'
<1> DEFINE a == s.attempt
<1>1. /\ s \in done /\ a # Local /\ done' = done \ {s} /\ running' = running
      /\ activeLocal' = activeLocal /\ seenLocal' = seenLocal /\ token' = token
    BY DEF ReceiveRemote
<1>2. a \in Attempts /\ token[a] = s.token /\ s.token \in Tokens
    BY <1>1 DEF DriverInv, InFlight, Submissions
<1>3. Seen(a) /\ s.token \notin seenLocal
    BY <1>2, DriverAssumption DEF DriverInv, Bindings
<1>4. Bindings'
  <2>1. \A b \in Attempts : Seen(b)' <=> Seen(b)
    BY <1>2, <1>3 DEF ReceiveRemote, AcceptRemote, Discard, Deliver, Seen, DriverInv, TypeOK
  <2> QED BY <2>1, <1>1 DEF DriverInv, Bindings
<1>5. InFlight'
  <2>1. IsFiniteSet(done')
    BY <1>1, FS_RemoveElement DEF DriverInv, InFlight
  <2> QED BY <1>1, <2>1 DEF DriverInv, InFlight
<1>6. CASE lifecycle[a] # "Active"
  <2>1. /\ lifecycle' = lifecycle /\ delivered' = delivered
        /\ fault' = "none" \/ (fault' = "exhausted" /\ Outstanding = 1)
    BY <1>2, <1>6 DEF ReceiveRemote, AcceptRemote, Discard
  <2>2. \A b \in Attempts : Seen(b)' <=> Seen(b)
    BY <2>1 DEF Seen
  <2>3. TypeOK' /\ Accounted' /\ NewestWins' /\ TokenIsTask'
    BY <1>1, <2>1, <2>2
    DEF DriverInv, TypeOK, Faults, Accounted, NewestWins, TokenIsTask, Siblings
  <2>4. CompletionIsComing'
    BY <1>1, <1>6, <2>1 DEF DriverInv, CompletionIsComing
  <2>5. ReceiptsAreSound'
    <3>1. CASE fault' = "none"
      BY <3>1 DEF ReceiptsAreSound
    <3>2. CASE fault' = "exhausted" /\ Outstanding = 1
      <4>1. running' = {} /\ done' = {}
        BY <1>1, <3>2, LastOne
      <4> QED BY <3>2, <4>1, <2>4 DEF ReceiptsAreSound, CompletionIsComing
    <3> QED BY <2>1, <3>1, <3>2
  <2> QED BY <1>4, <1>5, <2>3, <2>4, <2>5 DEF DriverInv
<1>7. CASE lifecycle[a] = "Active"
  <2>1. /\ lifecycle' = [lifecycle EXCEPT ![a] = "Delivered"]
        /\ delivered' = [delivered EXCEPT ![s.token] = @ + 1] /\ fault' = "none"
    BY <1>2, <1>7 DEF ReceiveRemote, AcceptRemote, Deliver
  <2>2. \A b \in Attempts : lifecycle'[b] = IF b = a THEN "Delivered" ELSE lifecycle[b]
    BY <2>1 DEF DriverInv, TypeOK
  <2>3. \A b \in Attempts : Seen(b)' <=> Seen(b)
    BY <2>2, <1>3 DEF Seen
  <2>4. \A b \in Attempts : ~(lifecycle[b] = "Delivered" /\ token[b] = s.token)
    <3> SUFFICES ASSUME NEW b \in Attempts, lifecycle[b] = "Delivered", token[b] = s.token
                 PROVE  FALSE
      OBVIOUS
    <3>1. b.task = a.task
      BY <1>2, <1>3 DEF DriverInv, TokenIsTask, Seen
    <3>2. b.generation = a.generation
      BY <1>2, <1>3, <1>7, <3>1, GenerationType DEF DriverInv, NewestWins, Siblings, Seen
    <3> QED BY <1>2, <1>7, <3>1, <3>2, AttemptIdentity
  <2>5. delivered[s.token] = 0
    BY <1>2, <1>3, <2>4 DEF DriverInv, Accounted
  <2>6. TypeOK'
    BY <1>1, <1>2, <2>1 DEF DriverInv, TypeOK, Lifecycles, Faults
  <2>7. Accounted'
    BY <1>1, <1>2, <2>1, <2>2, <2>5 DEF DriverInv, Accounted, TypeOK
  <2>8. NewestWins' /\ TokenIsTask'
    BY <1>1, <1>7, <2>2, <2>3 DEF DriverInv, NewestWins, TokenIsTask, Siblings
  <2>9. CompletionIsComing'
    BY <1>1, <2>2 DEF DriverInv, CompletionIsComing
  <2>10. ReceiptsAreSound'
    BY <2>1 DEF ReceiptsAreSound
  <2> QED BY <1>4, <1>5, <2>6, <2>7, <2>8, <2>9, <2>10 DEF DriverInv
<1> QED BY <1>6, <1>7

\* Receiving the completion of a local task keeps the invariant.
LEMMA ReceiveLocalKeeps ==
    ASSUME DriverInv, NEW s \in Submissions, ReceiveLocal(s)
    PROVE  DriverInv'
<1>1. /\ s \in done /\ s.attempt = Local /\ s.token \in activeLocal
    BY DEF ReceiveLocal, DriverInv, InFlight
<1>2. /\ done' = done \ {s} /\ running' = running /\ activeLocal' = activeLocal \ {s.token}
      /\ seenLocal' = seenLocal /\ token' = token /\ lifecycle' = lifecycle
      /\ delivered' = [delivered EXCEPT ![s.token] = @ + 1] /\ fault' = "none"
    BY <1>1 DEF ReceiveLocal, Deliver
<1>3. s.token \in Tokens /\ s.token \in seenLocal
    BY <1>1 DEF DriverInv, TypeOK, Submissions
<1>4. \A a \in Attempts : Seen(a)' <=> Seen(a)
    BY <1>2 DEF Seen
<1>5. \A r \in running \cup done : r.attempt = Local /\ r.token = s.token => r = s
    BY <1>1 DEF DriverInv, TypeOK, Submissions
<1>6. delivered[s.token] = 0
  <2>1. \A a \in Attempts : ~(lifecycle[a] = "Delivered" /\ token[a] = s.token)
    BY <1>3 DEF DriverInv, Bindings, Seen
  <2> QED BY <1>1, <1>3, <2>1 DEF DriverInv, Accounted
<1>7. TypeOK'
    BY <1>2, <1>3 DEF DriverInv, TypeOK, Faults
<1>8. Bindings'
    BY <1>2, <1>4 DEF DriverInv, Bindings
<1>9. InFlight'
  <2>1. IsFiniteSet(done')
    BY <1>2, FS_RemoveElement DEF DriverInv, InFlight
  <2> QED BY <1>1, <1>2, <1>5, <2>1 DEF DriverInv, InFlight
<1>10. Accounted'
    BY <1>2, <1>3, <1>6 DEF DriverInv, Accounted, TypeOK
<1>11. NewestWins' /\ TokenIsTask'
    BY <1>2, <1>4 DEF DriverInv, NewestWins, TokenIsTask, Siblings
<1>12. CompletionIsComing'
    BY <1>1, <1>2, LocalAssumption DEF DriverInv, CompletionIsComing
<1>13. ReceiptsAreSound'
    BY <1>2 DEF ReceiptsAreSound
<1> QED BY <1>7, <1>8, <1>9, <1>10, <1>11, <1>12, <1>13 DEF DriverInv

-----------------------------------------------------------------------------
\* The driver's invariant holds in every reachable state.
THEOREM DriverInvariant == Spec => []DriverInv
<1>1. Init => DriverInv
  <2> SUFFICES ASSUME Init PROVE DriverInv
    OBVIOUS
  <2>1. \A a \in Attempts : ~Seen(a)
    BY DEF Init, Seen
  <2>2. TypeOK
    BY DEF Init, TypeOK, Lifecycles, Faults
  <2>3. Bindings /\ Accounted /\ NewestWins /\ TokenIsTask
    BY <2>1 DEF Init, Bindings, Accounted, NewestWins, TokenIsTask
  <2>4. InFlight
    BY FS_EmptySet DEF Init, InFlight
  <2>5. CompletionIsComing /\ ReceiptsAreSound
    BY DEF Init, CompletionIsComing, ReceiptsAreSound
  <2> QED BY <2>2, <2>3, <2>4, <2>5 DEF DriverInv
<1>2. DriverInv /\ [Next]_vars => DriverInv'
  <2> SUFFICES ASSUME DriverInv, [Next]_vars PROVE DriverInv'
    OBVIOUS
  <2>1. ASSUME NEW t \in Tokens, SubmitLocal(t) PROVE DriverInv'
    BY <2>1, SubmitLocalKeeps
  <2>2. ASSUME NEW t \in Tokens, NEW a \in Attempts, SubmitRemote(t, a) PROVE DriverInv'
    BY <2>2, SubmitRemoteKeeps
  <2>3. ASSUME NEW s \in Submissions, Complete(s) PROVE DriverInv'
    BY <2>3, CompleteKeeps
  <2>4. ASSUME NEW s \in Submissions, Receive(s) PROVE DriverInv'
    BY <2>4, ReceiveRemoteKeeps, ReceiveLocalKeeps DEF Receive
  <2>5. CASE UNCHANGED vars
    BY <2>5 DEF vars, DriverInv, TypeOK, Bindings, InFlight, Accounted, NewestWins,
                TokenIsTask, CompletionIsComing, ReceiptsAreSound, Siblings, Seen
  <2> QED BY <2>1, <2>2, <2>3, <2>4, <2>5 DEF Next
<1> QED BY <1>1, <1>2, PTL DEF Spec

\* The coordinator is handed at most one completion of a token, whatever the order in which
\* workers finish.
THEOREM OneCompletion == Spec => []DeliveredOnce
<1>1. DriverInv => DeliveredOnce
    BY DEF DriverInv, Accounted, DeliveredOnce
<1> QED BY <1>1, DriverInvariant, PTL

\* The completion that is delivered for a task is that of its newest generation: a fenced
\* generation never becomes current again, however late its worker answers.
THEOREM NewestCompletes == Spec => []NewestWins
<1>1. DriverInv => NewestWins
    BY DEF DriverInv
<1> QED BY <1>1, DriverInvariant, PTL

\* Gate 19 never reports a corrupt driver, a current attempt always has its completion on the
\* way, and recv_event() gives up only when nothing is awaited.
THEOREM NeverStranded == Spec => [](CompletionIsComing /\ ReceiptsAreSound)
<1>1. DriverInv => CompletionIsComing /\ ReceiptsAreSound
    BY DEF DriverInv
<1> QED BY <1>1, DriverInvariant, PTL
=============================================================================
