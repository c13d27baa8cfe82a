------------------------ MODULE RemoteAttemptDriver ------------------------
(***************************************************************************)
(* The driver through which the graph coordinator runs remote attempts     *)
(* (RemotePureAttemptDriver in hosted_remote/fabric/coordinator.rs) over a *)
(* bounded pool of workers (executor/pool.rs).  Workers finish in any      *)
(* order; a newer generation of a logical task fences the older one, whose *)
(* completion may still arrive.                                            *)
(***************************************************************************)
EXTENDS Integers, FiniteSets

CONSTANTS
    Tokens,         \* coordinator task tokens
    Tasks,          \* logical tasks of the execution
    MaxGeneration,  \* attempt generations considered
    Capacity,       \* capacity of the worker pool
    NoToken,        \* no token
    Local           \* the attempt coordinate of a submission that is not remote

ASSUME DriverAssumption ==
    /\ NoToken \notin Tokens
    /\ MaxGeneration \in Nat /\ Capacity \in Nat \ {0}

Attempts == [task : Tasks, generation : 1 .. MaxGeneration]

ASSUME LocalAssumption == Local \notin Attempts

Lifecycles == {"Unseen", "Active", "Fenced", "Delivered"}

Submissions == [token : Tokens, attempt : Attempts \cup {Local}]

Faults == {"none", "gate19", "exhausted"}

VARIABLES
    token,        \* remote_attempts: the token each attempt is bound to
    lifecycle,    \* remote_attempts: what became of each attempt
    activeLocal,  \* active_local
    seenLocal,    \* seen_local
    running,      \* submissions in the pool, queued or executing
    done,         \* completions in the pool's event channel
    delivered,    \* completions handed to the coordinator (history)
    fault         \* the error the last call of recv_event() or try_recv_event() returned

vars == <<token, lifecycle, activeLocal, seenLocal, running, done, delivered, fault>>

\* WorkerPool.outstanding: a completion counts until it is received.
Outstanding == Cardinality(running) + Cardinality(done)

Seen(a) == lifecycle[a] # "Unseen"

Siblings(a) == {b \in Attempts : Seen(b) /\ b.task = a.task}

Bound(t) == {a \in Attempts : Seen(a) /\ token[a] = t}

\* Mutant: a delivered task may be attempted again.
PlannedRetry(t, a) ==
    /\ t \notin seenLocal
    /\ \A b \in Bound(t) : b.task = a.task
    /\ \A b \in Siblings(a) : token[b] = t /\ b.generation < a.generation

\* plan_remote_submission()
Planned(t, a) ==
    /\ t \notin seenLocal
    /\ \A b \in Bound(t) : b.task = a.task
    /\ \A b \in Siblings(a) :
          token[b] = t /\ b.generation < a.generation /\ lifecycle[b] # "Delivered"

\* WorkerPool.submit(): the pool refuses work beyond its capacity.
PoolSubmit(s) ==
    /\ Outstanding < Capacity
    /\ running' = running \cup {s}
    /\ fault' = "none" /\ UNCHANGED <<done, delivered>>

\* Mutant: the active predecessor is left active.
SubmitUnfenced(t, a) ==
    /\ Planned(t, a) /\ PoolSubmit([token |-> t, attempt |-> a])
    /\ token' = [token EXCEPT ![a] = t]
    /\ lifecycle' = [lifecycle EXCEPT ![a] = "Active"]
    /\ UNCHANGED <<activeLocal, seenLocal>>

\* Mutant: every earlier attempt in flight is fenced, whatever task it belongs to.
SubmitFencingAll(t, a) ==
    /\ Planned(t, a) /\ PoolSubmit([token |-> t, attempt |-> a])
    /\ token' = [token EXCEPT ![a] = t]
    /\ lifecycle' = [b \in Attempts |->
          IF b = a THEN "Active" ELSE IF lifecycle[b] = "Active" THEN "Fenced" ELSE lifecycle[b]]
    /\ UNCHANGED <<activeLocal, seenLocal>>

\* submit() of a remote attempt.  A refused or failed submission changes nothing.
SubmitRemote(t, a) ==
    /\ Planned(t, a) /\ PoolSubmit([token |-> t, attempt |-> a])
    /\ token' = [token EXCEPT ![a] = t]
    /\ lifecycle' = [b \in Attempts |->
          IF b = a THEN "Active"
          ELSE IF b.task = a.task /\ lifecycle[b] = "Active" THEN "Fenced" ELSE lifecycle[b]]
    /\ UNCHANGED <<activeLocal, seenLocal>>

\* submit() of a task that carries no remote coordinate
SubmitLocal(t) ==
    /\ t \notin seenLocal /\ Bound(t) = {}
    /\ PoolSubmit([token |-> t, attempt |-> Local])
    /\ activeLocal' = activeLocal \cup {t} /\ seenLocal' = seenLocal \cup {t}
    /\ UNCHANGED <<token, lifecycle>>

\* worker_loop(): a worker finishes, with a result, an error or a caught panic.
Complete(s) ==
    /\ s \in running
    /\ running' = running \ {s} /\ done' = done \cup {s}
    /\ UNCHANGED <<token, lifecycle, activeLocal, seenLocal, delivered, fault>>

Deliver(s) == delivered' = [delivered EXCEPT ![s.token] = @ + 1] /\ fault' = "none"

\* A superseded completion is dropped.  try_recv_event() goes on to the next event;
\* recv_event() would wait for one, and gives up when nothing is outstanding.
Discard ==
    /\ fault' \in {"none"} \cup (IF Outstanding = 1 THEN {"exhausted"} ELSE {})
    /\ UNCHANGED <<lifecycle, delivered>>

\* Mutant: a completion is current when no older generation is bound.
AcceptOldest(s) ==
    IF token[s.attempt] # s.token
    THEN fault' = "gate19" /\ UNCHANGED <<lifecycle, delivered>>
    ELSE \/ /\ \E b \in Siblings(s.attempt) : b.generation < s.attempt.generation
            /\ Discard
         \/ /\ \A b \in Siblings(s.attempt) : b.generation >= s.attempt.generation
            /\ lifecycle' = [lifecycle EXCEPT ![s.attempt] = "Delivered"] /\ Deliver(s)

\* accept_event() for a completion with a remote coordinate, gate 19
AcceptRemote(s) ==
    IF token[s.attempt] # s.token
    THEN fault' = "gate19" /\ UNCHANGED <<lifecycle, delivered>>
    ELSE \/ /\ lifecycle[s.attempt] # "Active" /\ Discard
         \/ /\ lifecycle[s.attempt] = "Active"
            /\ lifecycle' = [lifecycle EXCEPT ![s.attempt] = "Delivered"] /\ Deliver(s)

\* recv_event() and try_recv_event(): the pool frees the slot first.
ReceiveRemote(s) ==
    /\ s \in done /\ s.attempt # Local
    /\ done' = done \ {s}
    /\ AcceptRemote(s)
    /\ UNCHANGED <<token, activeLocal, seenLocal, running>>

ReceiveLocal(s) ==
    /\ s \in done /\ s.attempt = Local
    /\ done' = done \ {s}
    /\ activeLocal' = activeLocal \ {s.token}
    /\ IF s.token \in activeLocal THEN Deliver(s)
       ELSE fault' = "gate19" /\ UNCHANGED delivered
    /\ UNCHANGED <<token, lifecycle, seenLocal, running>>

Receive(s) == ReceiveRemote(s) \/ ReceiveLocal(s)

Init ==
    /\ token = [a \in Attempts |-> NoToken]
    /\ lifecycle = [a \in Attempts |-> "Unseen"]
    /\ activeLocal = {} /\ seenLocal = {}
    /\ running = {} /\ done = {}
    /\ delivered = [t \in Tokens |-> 0] /\ fault = "none"

Next ==
    \/ \E t \in Tokens : SubmitLocal(t)
    \/ \E t \in Tokens, a \in Attempts : SubmitRemote(t, a)
    \/ \E s \in Submissions : Complete(s)
    \/ \E s \in Submissions : Receive(s)

\* Tasks return, and the coordinator keeps receiving while work is outstanding.
Fairness == \A s \in Submissions : WF_vars(Complete(s)) /\ WF_vars(Receive(s))

Spec == Init /\ [][Next]_vars

FairSpec == Spec /\ Fairness

-----------------------------------------------------------------------------
(***************************************************************************)
(* Properties.                                                             *)
(***************************************************************************)

\* The driver's maps keep their types.
TypeOK ==
    /\ token \in [Attempts -> Tokens \cup {NoToken}]
    /\ lifecycle \in [Attempts -> Lifecycles]
    /\ activeLocal \subseteq seenLocal /\ seenLocal \subseteq Tokens
    /\ running \subseteq Submissions /\ done \subseteq Submissions
    /\ delivered \in [Tokens -> Nat] /\ fault \in Faults

\* The coordinator sees at most one completion of a token, whatever generations were
\* submitted for it and in whatever order their workers finish.
DeliveredOnce == \A t \in Tokens : delivered[t] <= 1

\* The completion that is delivered for a task is that of its newest generation; fenced
\* generations never become current again.
NewestWins ==
    \A a \in Attempts : lifecycle[a] \in {"Active", "Delivered"} =>
        \A b \in Siblings(a) : b.generation <= a.generation

\* A logical task and a token are bound to each other for good: completions of one task
\* never settle the operation of another.
TokenIsTask ==
    \A a, b \in Attempts : Seen(a) /\ Seen(b) => (a.task = b.task <=> token[a] = token[b])

\* An attempt that is still current, and a local task, always have a completion on its way:
\* the coordinator never waits for one that cannot come.
CompletionIsComing ==
    /\ \A a \in Attempts : lifecycle[a] = "Active" =>
          [token |-> token[a], attempt |-> a] \in running \cup done
    /\ \A t \in activeLocal : [token |-> t, attempt |-> Local] \in running \cup done

\* Receiving never meets an unknown or wrongly bound completion, and recv_event() gives up
\* only when no submitted token still waits for its completion.
ReceiptsAreSound ==
    /\ fault # "gate19"
    /\ fault = "exhausted" =>
          activeLocal = {} /\ \A a \in Attempts : lifecycle[a] # "Active"

\* The coordinator gets a completion for every token it submitted work for.
EveryTokenCompletes ==
    \A t \in Tokens : (t \in seenLocal \/ Bound(t) # {}) ~> delivered[t] = 1
=============================================================================
