-------------------------- MODULE GraphCoordinator --------------------------
(***************************************************************************)
(* The graph coordinator (executor/coordinator.rs): one thread that drives *)
(* the operations of an admitted plan, sends worker-lane operations to a   *)
(* bounded pool (executor/pool.rs), buffers completions that arrive in any *)
(* order, and settles them in plan order.                                  *)
(*                                                                         *)
(* Operations are numbered by their ordinal, the serial executor's         *)
(* topological rank.  What an operation computes is fixed in advance       *)
(* (fate), so that a concurrent run can be compared with the serial one.   *)
(***************************************************************************)
EXTENDS Integers, Sequences, FiniteSets

CONSTANTS
    NumOps,   \* operations in the plan
    Plans,    \* plans: what admission recorded about each operation
    Slots,    \* capacity of the worker pool
    CanFail   \* whether workers, preparation, the pool and the request may fail

Ops == 1 .. NumOps

(***************************************************************************)
(* adapter: the admitted dispatch adapter; it fixes the lane and, with the *)
(*   checks of admission, the failure class.                               *)
(* group: the autonomous group the operation is a member of, or 0.         *)
(* batch: whether it is a direct member of a batch(...) group.             *)
(* deps: the operations that produce its inputs.                           *)
(***************************************************************************)
Adapters == {"coordinator", "load", "native", "renderer", "shim"}

ASSUME PlanAssumption ==
    /\ NumOps \in Nat /\ Slots \in Nat \ {0} /\ CanFail \in BOOLEAN
    /\ Plans \subseteq [Ops -> [adapter : Adapters, group : Nat, batch : BOOLEAN,
                              deps : SUBSET Ops]]
    /\ \A p \in Plans, o \in Ops :
          /\ \A d \in p[o].deps : d < o
          /\ p[o].adapter = "shim" => p[o].group # 0

VARIABLES
    plan,          \* the admitted plan of the run (constant)
    fate,          \* what each operation computes (constant)
    state,         \* OpRunState of each operation
    worker,        \* what the pool does for each operation
    result,        \* the outcome in the event channel or in worker_results
    materialized,  \* operations whose outputs are visible
    provisional,   \* the group that alone may see them, or 0
    trace,         \* terminal trace events
    phase,         \* where the drive loop is
    error,         \* the error the run returns
    cancelled      \* request cancellation or deadline

vars == <<plan, fate, state, worker, result, materialized, provisional, trace, phase, error,
          cancelled>>

runVars == <<plan, fate>>

opVars == <<state, result, materialized, provisional, trace>>

NoError == [kind |-> "none", op |-> 0]

Fault(kind, o) == [kind |-> kind, op |-> o]

WorkerLane(o) == plan[o].adapter # "coordinator"

\* FailureClassV1::Infallible and ::MayFailNoExternalEffects of worker operations.
Infallible(o) == plan[o].adapter = "renderer"

MayFail(o) == plan[o].adapter \in {"load", "native"}

\* autonomous_worker_group(): shims and scope loads of an autonomous group.
WorkerGroup(o) == IF plan[o].adapter \in {"shim", "load"} THEN plan[o].group ELSE 0

\* "err" is a member error a batch absorbs, "fatal" one it does not; an "unsafe" operation
\* fails its preparation contract when its inputs are known.
Fates(o) ==
    {"ok", "err"} \cup (IF plan[o].batch THEN {"fatal"} ELSE {})
                  \cup (IF WorkerLane(o) THEN {"unsafe"} ELSE {})

-----------------------------------------------------------------------------
Outstanding == {o \in Ops : worker[o] # "none"}

Events == {o \in Ops : worker[o] \in {"asking", "abandoned", "done"}}

Unsettled == {o \in Ops : state[o] # "Settled"}

\* lowest_unsettled()
AtFrontier(o) == o \in Unsettled /\ \A p \in Unsettled : o <= p

\* ready_ops(): provisional outputs are visible to workers of their own group only.
Ready(o) ==
    /\ state[o] = "Pending"
    /\ \A d \in plan[o].deps :
          /\ d \in materialized
          /\ provisional[d] # 0 => WorkerLane(o) /\ plan[o].group = provisional[d]

IsWorkerSafe(o) == WorkerLane(o) /\ fate[o] # "unsafe"

Runnable(o) == Ready(o) /\ IsWorkerSafe(o)

\* take(slots)
Lowest(S, n) == {o \in S : Cardinality({p \in S : p < o}) < n}

\* Mutant: a group starts as soon as one of its operations is ready.
NoBoundary(first, group) == TRUE

\* Nothing outside the group is unfinished before `first', a ready operation of the group.
BoundaryClear(first, group) ==
    \A o \in Ops : o < first /\ state[o] # "Settled" =>
        /\ WorkerLane(o) /\ plan[o].group = group
        /\ WorkerGroup(o) = group \/ Infallible(o)

\* The ready operations of a group, if the lowest of all ready group operations is in it and
\* its boundary is clear.
GroupCandidates ==
    LET ready == {o \in Ops : Runnable(o) /\ WorkerGroup(o) # 0}
        open == {o \in ready : /\ \A p \in ready : o <= p
                               /\ BoundaryClear(o, WorkerGroup(o))}
    IN  {o \in ready : \E first \in open : WorkerGroup(o) = WorkerGroup(first)}

\* Fallible operations with nothing before them but other fallible worker operations.
PrefixCandidates ==
    {o \in Ops : Runnable(o) /\ MayFail(o) /\
        \A p \in Unsettled : p < o => MayFail(p) /\ (state[p] \in {"InFlight", "Buffered"} \/ Runnable(p))}

\* worker_dispatch_candidates()
Candidates ==
    LET slots == Slots - Cardinality(Outstanding)
        prefix == Lowest(PrefixCandidates, slots)
        infallible == {o \in Ops : Runnable(o) /\ Infallible(o)}
    IN  CASE \E o \in Ops : AtFrontier(o) /\ ~WorkerLane(o) /\ Ready(o) -> {}
          [] OTHER -> IF GroupCandidates # {} THEN Lowest(GroupCandidates, slots)
                      ELSE prefix \cup Lowest(infallible, slots - Cardinality(prefix))

\* The order in which candidates are submitted.
Before(p, o) == IF Infallible(p) = Infallible(o) THEN p < o ELSE Infallible(o)

-----------------------------------------------------------------------------
(***************************************************************************)
(* The pool: workers run, may ask the coordinator to evaluate a source     *)
(* (O.eval), and complete.  A panic or a lost backend is an "infra"        *)
(* outcome.                                                                *)
(***************************************************************************)
WorkerCompletes(o) ==
    /\ worker[o] \in {"running", "answered", "gone"}
    /\ worker' = [worker EXCEPT ![o] = "done"]
    /\ \E r \in (IF worker[o] = "gone" THEN {} ELSE {fate[o]})
                \cup (IF CanFail THEN {"infra"} ELSE {}) :
          result' = [result EXCEPT ![o] = r]
    /\ UNCHANGED <<runVars, state, materialized, provisional, trace, phase, error, cancelled>>

WorkerAsks(o) ==
    /\ worker[o] = "running" /\ plan[o].adapter = "shim"
    /\ worker' = [worker EXCEPT ![o] = "asking"]
    /\ UNCHANGED <<opVars, runVars, phase, error, cancelled>>

\* The worker's callback timeout passes: its request is still queued, and the reply to it
\* will find nobody.
WorkerGivesUp(o) ==
    /\ CanFail /\ worker[o] = "asking"
    /\ worker' = [worker EXCEPT ![o] = "abandoned"]
    /\ UNCHANGED <<opVars, runVars, phase, error, cancelled>>

\* The request is cancelled or passes its deadline.
Cancel ==
    /\ CanFail /\ ~cancelled /\ phase # "ended"
    /\ cancelled' = TRUE
    /\ UNCHANGED <<opVars, runVars, worker, phase, error>>

-----------------------------------------------------------------------------
(***************************************************************************)
(* Completions.                                                            *)
(***************************************************************************)
\* Mutant: a result derived from provisional results is published to everyone.
OwnGroupOnly(o) == WorkerGroup(o)

\* The group of an early publication: its own, or the one of a provisional input.
PublicationGroup(o) ==
    LET inherited == {provisional[d] : d \in plan[o].deps} \ {0}
    IN  IF WorkerGroup(o) # 0 \/ inherited = {} THEN WorkerGroup(o)
        ELSE CHOOSE g \in inherited : TRUE

PublishesEarly(o) == result[o] = "ok" /\ (Infallible(o) \/ WorkerGroup(o) # 0)

\* buffer_worker_completion(): the completion frees its slot.
Buffer(o) ==
    /\ worker' = [worker EXCEPT ![o] = "none"]
    /\ IF PublishesEarly(o)
       THEN /\ state' = [state EXCEPT ![o] = "Published"]
            /\ result' = [result EXCEPT ![o] = "none"]
            /\ materialized' = materialized \cup {o}
            /\ provisional' = [provisional EXCEPT ![o] = PublicationGroup(o)]
       ELSE /\ state' = [state EXCEPT ![o] = "Buffered"]
            /\ UNCHANGED <<result, materialized, provisional>>
    /\ UNCHANGED trace

\* WorkerCompletionDisposition::AbortInfrastructure
Aborts(o) == result[o] = "infra" \/ (Infallible(o) /\ result[o] # "ok")

\* A callback is answered: by the evaluator, or by a refusal while draining.
Respond(o) == worker' = [worker EXCEPT ![o] = "answered"] /\ UNCHANGED opVars

\* "local worker abandoned an O.eval callback reply"
RespondTooLate(o) == worker' = [worker EXCEPT ![o] = "gone"] /\ UNCHANGED opVars

Goto(label) == phase' = label /\ UNCHANGED error

Stop(label, err) == phase' = label /\ error' = err

\* abort_after_worker_error() drains, settles what it can and prefers a failure found there.
Abort == Stop("abort", Fault("scheduler", 0))

\* accept_worker_event_or_abort(), then `next'.
AcceptEvent(next) ==
    \E o \in Events :
        \/ worker[o] = "done" /\ Buffer(o) /\ IF Aborts(o) THEN Abort ELSE Goto(next)
        \/ worker[o] = "asking" /\ Respond(o) /\ Goto(next)
        \/ worker[o] = "abandoned" /\ RespondTooLate(o) /\ Abort

-----------------------------------------------------------------------------
(***************************************************************************)
(* The drive loop.                                                         *)
(***************************************************************************)
CheckControl ==
    /\ phase = "top"
    /\ IF cancelled THEN Stop("discard", Fault("cancelled", 0)) ELSE Goto("events")
    /\ UNCHANGED <<opVars, runVars, worker, cancelled>>

DrainEvents ==
    /\ phase = "events"
    /\ AcceptEvent("events")
    /\ UNCHANGED <<runVars, cancelled>>

EventsDrained ==
    /\ phase = "events" /\ Events = {}
    /\ Goto("settle")
    /\ UNCHANGED <<opVars, runVars, worker, cancelled>>

\* A terminal trace event; materialize_success() and materialize_member_error().
Finish(o, kind) ==
    /\ state' = [state EXCEPT ![o] = "Settled"]
    /\ result' = [result EXCEPT ![o] = "none"]
    /\ materialized' = materialized \cup {o}
    /\ provisional' = [provisional EXCEPT ![o] = 0]
    /\ trace' = Append(trace, [op |-> o, kind |-> kind])

\* record_failure()
Fail(o) ==
    /\ state' = [state EXCEPT ![o] = "Settled"]
    /\ result' = [result EXCEPT ![o] = "none"]
    /\ materialized' = materialized \ {o}
    /\ provisional' = [provisional EXCEPT ![o] = 0]
    /\ trace' = Append(trace, [op |-> o, kind |-> "failed"])

Settling == phase \in {"settle", "abortsettle"}

\* Mutant: any buffered or published result settles, not only the lowest.
AnySettleable(o) == state[o] \in {"Buffered", "Published"}

Settleable(o) == AtFrontier(o) /\ state[o] \in {"Buffered", "Published"}

SettleSuccess(o) ==
    /\ Settling /\ Settleable(o)
    /\ state[o] = "Published" \/ result[o] = "ok"
    /\ Finish(o, "finished")
    /\ UNCHANGED <<runVars, worker, phase, error, cancelled>>

SettleMemberError(o) ==
    /\ Settling /\ Settleable(o) /\ state[o] = "Buffered"
    /\ result[o] = "err" /\ ~Infallible(o) /\ plan[o].batch
    /\ Finish(o, "member")
    /\ UNCHANGED <<runVars, worker, phase, error, cancelled>>

\* The first failure in plan order ends the run; later results are discarded.
SettleFailure(o) ==
    /\ Settling /\ Settleable(o) /\ state[o] = "Buffered"
    /\ \/ /\ ~Infallible(o)
          /\ result[o] = "fatal" \/ (result[o] = "err" /\ ~plan[o].batch)
          /\ Fail(o) /\ Stop("discard", Fault("semantic", o))
       \/ /\ Aborts(o)
          /\ UNCHANGED opVars /\ Stop("discard", Fault("infrastructure", o))
    /\ UNCHANGED <<runVars, worker, cancelled>>

SettleStops ==
    /\ Settling /\ ~ \E o \in Ops : Settleable(o)
    /\ Goto(IF phase = "settle" THEN "plan" ELSE "discard")
    /\ UNCHANGED <<opVars, runVars, worker, cancelled>>

AllSettled ==
    /\ phase = "plan" /\ Unsettled = {}
    /\ Goto("ended")
    /\ UNCHANGED <<opVars, runVars, worker, cancelled>>

\* The frontier operation cannot be prepared for a worker.
ContractMismatch ==
    \E o \in Ops : AtFrontier(o) /\ Ready(o) /\ WorkerLane(o) /\ ~IsWorkerSafe(o)

FrontierUnsafe ==
    /\ phase = "plan" /\ ContractMismatch
    /\ Abort
    /\ UNCHANGED <<opVars, runVars, worker, cancelled>>

\* dispatch_workers(): preparation of all candidates may fail before the first submission,
\* and each submission may fail after the ones before it.
Dispatch ==
    /\ phase = "plan" /\ ~ContractMismatch /\ Candidates # {}
    /\ \E sent \in SUBSET Candidates :
          /\ \A o \in sent, p \in Candidates : Before(p, o) => p \in sent
          /\ sent = Candidates \/ CanFail
          /\ state' = [o \in Ops |-> IF o \in sent THEN "InFlight" ELSE state[o]]
          /\ worker' = [o \in Ops |-> IF o \in sent THEN "running" ELSE worker[o]]
          /\ IF sent = Candidates THEN Goto("top") ELSE Abort
    /\ UNCHANGED <<runVars, result, materialized, provisional, trace, cancelled>>

\* coordinator_at_settlement_frontier(), when no worker is outstanding.
CoordinatorTurn(o) ==
    /\ phase = "plan" /\ Outstanding = {}
    /\ AtFrontier(o) /\ ~WorkerLane(o) /\ Ready(o)

\* Mutant: a failing coordinator operation does not stop the run when it is a batch member,
\* whatever the error.
AbsorbEverything(o) ==
    /\ CoordinatorTurn(o)
    /\ \/ fate[o] = "ok" /\ Finish(o, "finished") /\ Goto("top")
       \/ fate[o] # "ok" /\ plan[o].batch /\ Finish(o, "member") /\ Goto("top")
       \/ fate[o] # "ok" /\ ~plan[o].batch /\ Fail(o) /\ Stop("discard", Fault("semantic", o))
       \/ CanFail /\ UNCHANGED opVars /\ Stop("discard", Fault("context", o))
    /\ UNCHANGED <<runVars, worker, cancelled>>

\* run_coordinator_op(): the operation runs here, under strict fail-stop.
RunCoordinatorOp(o) ==
    /\ CoordinatorTurn(o)
    /\ \/ fate[o] = "ok" /\ Finish(o, "finished") /\ Goto("top")
       \/ fate[o] = "err" /\ plan[o].batch /\ Finish(o, "member") /\ Goto("top")
       \/ /\ fate[o] = "fatal" \/ (fate[o] = "err" /\ ~plan[o].batch)
          /\ Fail(o) /\ Stop("discard", Fault("semantic", o))
       \/ CanFail /\ UNCHANGED opVars /\ Stop("discard", Fault("context", o))
    /\ UNCHANGED <<runVars, worker, cancelled>>

NothingToStart ==
    /\ phase = "plan" /\ Unsettled # {} /\ ~ContractMismatch /\ Candidates = {}
    /\ ~ \E o \in Ops : CoordinatorTurn(o)

\* The loop polls for an event, a cancelled request, or another round.  With nothing
\* outstanding there is nothing to wait for: "graph executor stalled".
Wait ==
    /\ NothingToStart
    /\ IF Outstanding = {} \/ Events = {}
       THEN /\ CASE Outstanding = {} -> Stop("discard", Fault("stalled", 0))
                 [] Outstanding # {} /\ cancelled -> Stop("abort", Fault("cancelled", 0))
                 [] OTHER -> Goto("top")
            /\ UNCHANGED <<opVars, worker>>
       ELSE AcceptEvent("top")
    /\ UNCHANGED <<runVars, cancelled>>

-----------------------------------------------------------------------------
(***************************************************************************)
(* Ending a run.                                                           *)
(***************************************************************************)
Draining == phase \in {"abort", "discard"}

\* Mutant: callbacks are not answered while draining.
DrainIgnoringCallbacks ==
    /\ Draining
    /\ \E o \in Events : \/ worker[o] = "done" /\ Buffer(o)
                         \/ worker[o] # "done" /\ UNCHANGED <<worker, opVars>>
    /\ UNCHANGED <<runVars, phase, error, cancelled>>

\* Started work is awaited; its callbacks are refused.  A refusal that cannot be delivered
\* is the error an abort reports, unless it finds a better one.
Drain ==
    /\ Draining
    /\ \E o \in Events :
          \/ worker[o] = "done" /\ Buffer(o) /\ UNCHANGED error
          \/ worker[o] = "asking" /\ Respond(o) /\ UNCHANGED error
          \/ /\ worker[o] = "abandoned" /\ RespondTooLate(o)
             /\ error' = IF phase = "abort" THEN Fault("scheduler", 0) ELSE error
    /\ UNCHANGED <<runVars, phase, cancelled>>

\* Mutant: the drained results are discarded without looking at them.
AbortWithoutSettling ==
    /\ phase = "abort" /\ Outstanding = {}
    /\ Goto("discard")
    /\ UNCHANGED <<opVars, runVars, worker, cancelled>>

AbortDrained ==
    /\ phase = "abort" /\ Outstanding = {}
    /\ Goto("abortsettle")
    /\ UNCHANGED <<opVars, runVars, worker, cancelled>>

\* discard_started_workers(): what was started and not settled is revoked, in plan order.
Started == {o \in Ops : state[o] \in {"InFlight", "Buffered", "Published"}}

Ascending(S) ==
    [i \in 1 .. Cardinality(S) |-> CHOOSE o \in S : Cardinality({p \in S : p < o}) = i - 1]

\* Mutant: results that were published early stay visible.
DiscardKeepingPublished ==
    /\ phase = "discard" /\ Outstanding = {}
    /\ state' = [o \in Ops |-> IF o \in Started THEN "Settled" ELSE state[o]]
    /\ result' = [o \in Ops |-> "none"]
    /\ provisional' = [o \in Ops |-> IF o \in Started THEN 0 ELSE provisional[o]]
    /\ trace' = trace \o [i \in 1 .. Cardinality(Started) |->
                            [op |-> Ascending(Started)[i], kind |-> "discarded"]]
    /\ Goto("ended")
    /\ UNCHANGED <<runVars, worker, materialized, cancelled>>

DiscardStarted ==
    /\ phase = "discard" /\ Outstanding = {}
    /\ state' = [o \in Ops |-> IF o \in Started THEN "Settled" ELSE state[o]]
    /\ result' = [o \in Ops |-> "none"]
    /\ materialized' = materialized \ Started
    /\ provisional' = [o \in Ops |-> IF o \in Started THEN 0 ELSE provisional[o]]
    /\ trace' = trace \o [i \in 1 .. Cardinality(Started) |->
                            [op |-> Ascending(Started)[i], kind |-> "discarded"]]
    /\ Goto("ended")
    /\ UNCHANGED <<runVars, worker, cancelled>>

-----------------------------------------------------------------------------
Init ==
    /\ plan \in Plans
    /\ fate \in {f \in [Ops -> {"ok", "err", "fatal", "unsafe"}] : \A o \in Ops : f[o] \in Fates(o)}
    /\ state = [o \in Ops |-> "Pending"]
    /\ worker = [o \in Ops |-> "none"]
    /\ result = [o \in Ops |-> "none"]
    /\ materialized = {} /\ provisional = [o \in Ops |-> 0]
    /\ trace = <<>> /\ phase = "top" /\ error = NoError
    /\ cancelled = FALSE

Coordinator ==
    \/ CheckControl \/ DrainEvents \/ EventsDrained
    \/ \E o \in Ops : SettleSuccess(o) \/ SettleMemberError(o) \/ SettleFailure(o)
    \/ SettleStops \/ AllSettled \/ FrontierUnsafe \/ Dispatch
    \/ \E o \in Ops : RunCoordinatorOp(o)
    \/ Wait \/ Drain \/ AbortDrained \/ DiscardStarted

\* The run is over.
Ended == phase = "ended" /\ UNCHANGED vars

Next ==
    \/ Coordinator
    \/ \E o \in Ops : WorkerCompletes(o) \/ WorkerAsks(o) \/ WorkerGivesUp(o)
    \/ Cancel
    \/ Ended

\* The coordinator thread runs, and a task that was started returns.
Fairness ==
    /\ WF_vars(Coordinator)
    /\ \A o \in Ops : WF_vars(WorkerCompletes(o))

Spec == Init /\ [][Next]_vars

FairSpec == Spec /\ Fairness

-----------------------------------------------------------------------------
(***************************************************************************)
(* Properties.                                                             *)
(***************************************************************************)
Phases == {"top", "events", "settle", "plan", "abort", "abortsettle", "discard", "ended"}

\* The coordinator's fields keep their types.
TypeOK ==
    /\ fate \in [Ops -> {"ok", "err", "fatal", "unsafe"}]
    /\ state \in [Ops -> {"Pending", "InFlight", "Buffered", "Published", "Settled"}]
    /\ worker \in [Ops -> {"none", "running", "asking", "abandoned", "answered", "gone", "done"}]
    /\ result \in [Ops -> {"none", "ok", "err", "fatal", "infra"}]
    /\ materialized \subseteq Ops /\ provisional \in [Ops -> Nat]
    /\ trace \in Seq([op : Ops, kind : {"finished", "member", "failed", "discarded"}])
    /\ phase \in Phases
    /\ error \in [kind : {"none", "semantic", "infrastructure", "scheduler", "context",
                          "cancelled", "stalled"}, op : Ops \cup {0}]
    /\ cancelled \in BOOLEAN

\* An operation on which the serial executor would stop.
Stops(o) == fate[o] \in {"fatal", "unsafe"} \/ (fate[o] = "err" /\ (Infallible(o) \/ ~plan[o].batch))

Succeeded(o) == \E i \in 1 .. Len(trace) : trace[i].op = o /\ trace[i].kind \in {"finished", "member"}

\* Whatever order completions arrive in, a run succeeds only if every operation does, and a
\* failure it blames on an operation is the one the serial executor stops at.
FirstFailureWins ==
    phase = "ended" =>
        /\ error.kind = "none" => \A o \in Ops : ~Stops(o) /\ Succeeded(o)
        /\ error.kind = "semantic" => Stops(error.op) /\ \A o \in Ops : Stops(o) => error.op <= o

\* "A later preparation or pool fault must not preempt an earlier semantic worker failure":
\* if the run reports a scheduler fault, the lowest operation that did not succeed was not
\* a started one that failed.
NoPreemption ==
    phase = "ended" /\ error.kind = "scheduler" =>
        \A o \in Ops :
            ~Succeeded(o) /\ (\A p \in Ops : p < o => Succeeded(p)) => state[o] = "Pending"

\* The trace settles operations in plan order whatever order they completed in, and the
\* discarded ones follow, each operation at most once.
TraceInOrder ==
    /\ \A i \in 1 .. Len(trace) : trace[i].kind # "discarded" => trace[i].op = i
    /\ \A i, j \in 1 .. Len(trace) : i < j => trace[i].op < trace[j].op
    /\ \A i \in 1 .. Len(trace) - 1 :
          trace[i].kind \in {"failed", "discarded"} => trace[i + 1].kind = "discarded"

\* When a run ends, every operation that was started has its terminal event, and the visible
\* outputs are exactly those of operations that succeeded: nothing speculative survives.
NothingSurvives ==
    phase = "ended" =>
        /\ \A o \in Ops : state[o] # "Pending" <=> \E i \in 1 .. Len(trace) : trace[i].op = o
        /\ materialized = {o \in Ops : Succeeded(o)}
        /\ \A o \in Ops : provisional[o] = 0

\* Hosted effects do not leak backward: a shim starts only when everything before its
\* group has succeeded, and an effect on the coordinator only when everything before it has.
EffectsInOrder ==
    \A o \in Ops : state[o] # "Pending" /\ plan[o].adapter \in {"shim", "coordinator"} =>
        \A p \in Ops : p < o /\ (WorkerGroup(o) # 0 =>
                                   \A q \in Ops : plan[q].group = plan[o].group => p < q) =>
            Succeeded(p)

\* The operations whose results an operation is computed from, directly or not.
Ancestors[o \in Ops] == plan[o].deps \cup UNION {Ancestors[d] : d \in plan[o].deps}

\* An autonomous result that may yet be revoked is used by its own group only: an operation
\* outside starts after every group result it is computed from has settled.
ProvisionalIsPrivate ==
    \A o \in Ops : state[o] # "Pending" =>
        \A d \in Ancestors[o] : d \in Started /\ WorkerGroup(d) # 0 => plan[o].group = WorkerGroup(d)

\* Every run comes to an end, also when workers wait for callbacks while it is aborted.
RunEnds == <>(phase = "ended")
=============================================================================
