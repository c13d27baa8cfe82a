--------------------------- MODULE HostedSession ---------------------------
(***************************************************************************)
(* A checkpoint-restore session of a hosted V2 node                        *)
(* (hosted_remote/v2/runtime.rs).  Every handler appends signed events to  *)
(* the session's journal and assigns the live record by hand; a restart    *)
(* throws the live record away and recomputes it from the journal with     *)
(* reconstruct_session, a second, independent statement of what every      *)
(* event means.  The two are modelled separately: `live' is assigned by    *)
(* the handlers, `disk' is what reconstruct_session makes of the journal   *)
(* as it stands, extended event by event.                                  *)
(*                                                                         *)
(* A state of the evaluator is [lin, v]: the actor that bore it (session   *)
(* and generation) and the number of operations that touched it since.     *)
(* Leases, warrants, sequences and quotas are choices: a request that any  *)
(* of them refuses gives its reservation back.  One session per node.      *)
(*                                                                         *)
(* A restart that cannot append a repair isolates the session: it is not   *)
(* up, what memory holds of it is Isolated(disk[s]), no event says so, and *)
(* only a reset, a close or a recovery reaches it.                         *)
(***************************************************************************)
EXTENDS Naturals, Sequences, SequencesExt

CONSTANTS Sessions,  \* the sessions
          MaxHead,   \* bound: no client request starts at this journal length
          Panics     \* whether an evaluator thread may die by a panic

VARIABLES live,      \* SessionRecordV2 in memory
          disk,      \* SessionRecordV2 as reconstruct_session returns it now
          up,        \* whether the session is in service
          prep,      \* session.preparation: the request that reserved the session
          worker,    \* the entry of RuntimeStateV2.workers
          stage,     \* how far the accepted operation has got
          retired,   \* history: the highest generation of a worker now gone
          isolated   \* "no", "isolated", or how a recovery of an isolated session ended

vars == <<live, disk, up, prep, worker, stage, retired, isolated>>

ASSUME SessionAssumption == MaxHead \in Nat \ {0} /\ Panics \in BOOLEAN

None == [kind |-> "none"]
NoCkpt == [gen |-> 0]
NoMig == [phase |-> "none"]
NoWorker == [is |-> "none"]
DeadWorker == [is |-> "dead"]
Blank == [lin |-> <<>>, v |-> 0]
Unreadable == [status |-> "Unreadable"]

Alive(w) == w.is = "alive"
Bearing(c, g) == [is |-> "alive", c |-> c, gen |-> g]

\* A replacement that has not acknowledged its snapshot yet; it is in no map.
Restoring(c, g) == [is |-> "restoring", c |-> c, gen |-> g]
Physical(w) == w.is \in {"alive", "restoring"}

\* The record open_session installs with SessionOpened.
Opened == [status |-> "Ready", gen |-> 0, next |-> 1, actor |-> FALSE, has |-> FALSE,
           ckpt |-> NoCkpt, op |-> "none", amb |-> 0, rec |-> None, mig |-> NoMig,
           head |-> 1]

\* What touching the evaluator of session s, generation g, makes of its state.
Touched(c, s, g) == IF c = Blank THEN [lin |-> <<s, g>>, v |-> 1]
                                 ELSE [c EXCEPT !.v = @ + 1]

-----------------------------------------------------------------------------
(* Migration transitions, which the live runtime and the replay share.      *)

BlocksExecution(phase) ==
  phase \in {"Prepared", "Installing", "Installed", "Fenced", "Activating", "ActivationFailed"}

Unfinished(m) == m.phase \in {"Installing", "Activating"}

\* The client sequence of an unfinished restore is taken by another request.
Overtaken(m) == IF Unfinished(m) THEN [m EXCEPT !.phase = "Overtaken"] ELSE m

AtSource(phase) == phase \in {"Prepared", "Fenced", "Aborted"}

\* validate_migration_transition, for transition m of session s with record d.
MigrationValid(s, d, m) ==
  LET same == d.mig # NoMig /\ d.mig.plan = m.plan
      from(phases) == same /\ d.mig.phase \in phases /\ d.mig.gen = m.gen
  IN /\ s = IF AtSource(m.phase) THEN m.plan.src ELSE m.plan.dst
     /\ CASE m.phase = "Prepared" ->
               /\ d.status = "Ready" /\ d.gen = m.plan.sgen /\ d.head = m.plan.shead
               /\ m.gen = m.plan.sgen
          [] m.phase = "Installing" ->
               /\ d.status = "Ready" /\ d.gen = m.plan.dgen /\ d.head = m.plan.dhead
               /\ m.gen = m.plan.dgen + 1
               /\ d.ckpt = m.prev
          [] m.phase \in {"Installed", "InstallFailed"} -> from({"Installing"})
          [] m.phase \in {"Fenced", "Aborted"} -> from({"Prepared"})
          [] m.phase = "Cancelled" -> from({"Installed", "ActivationFailed"})
          [] m.phase = "Activating" ->
               same /\ d.mig.phase \in {"Installed", "ActivationFailed"} /\ m.gen = d.gen + 1
          [] m.phase = "Activated" -> from({"Installed", "Activating"})
          [] m.phase = "ActivationFailed" -> from({"Activating"})
          [] OTHER -> FALSE
     /\ d.mig.phase # "Overtaken"
     /\ m.phase \in {"Installed", "Activated"} => m.actor
     /\ ~AtSource(m.phase) =>
          /\ m.prev # NoCkpt /\ m.prev.gen = m.plan.dgen
          /\ m.phase # "Installing" => d.mig.prev = m.prev

\* Mutant: a cancelled standby keeps the installed copy.
ApplyMigrationKeepingCopy(d, m) ==
  [d EXCEPT
     !.gen = m.gen,
     !.actor = m.actor,
     !.has = \/ m.phase \in {"Prepared", "Installed", "Activated"}
             \/ m.phase = "Aborted" /\ m.actor,
     !.next = IF \/ m.phase \in {"Installing", "Activating", "InstallFailed",
                                 "ActivationFailed", "Fenced", "Cancelled"}
                 \/ m.phase = "Aborted" /\ ~m.actor
              THEN m.gen + 1 ELSE m.gen,
     !.status = CASE m.phase \in {"Prepared", "Installing", "Installed",
                                  "Activating", "ActivationFailed"} -> "Migrating"
                  [] m.phase = "Fenced" -> "Migrated"
                  [] m.phase = "Activated" \/ (m.phase = "Aborted" /\ m.actor) -> "Ready"
                  [] OTHER -> "RecoveryRequired",
     !.ckpt = CASE m.phase \in {"Prepared", "Installed", "Activated"} ->
                     [gen |-> m.gen, c |-> m.plan.c]
                [] OTHER -> @,
     !.mig = m]

\* apply_migration_transition: transition m changes record d.
ApplyMigration(d, m) ==
  [d EXCEPT
     !.gen = m.gen,
     !.actor = m.actor,
     !.has = \/ m.phase \in {"Prepared", "Installed", "Activated"}
             \/ m.phase = "Aborted" /\ m.actor,
     !.next = IF \/ m.phase \in {"Installing", "Activating", "InstallFailed",
                                 "ActivationFailed", "Fenced", "Cancelled"}
                 \/ m.phase = "Aborted" /\ ~m.actor
              THEN m.gen + 1 ELSE m.gen,
     !.status = CASE m.phase \in {"Prepared", "Installing", "Installed",
                                  "Activating", "ActivationFailed"} -> "Migrating"
                  [] m.phase = "Fenced" -> "Migrated"
                  [] m.phase = "Activated" \/ (m.phase = "Aborted" /\ m.actor) -> "Ready"
                  [] OTHER -> "RecoveryRequired",
     !.ckpt = CASE m.phase \in {"Prepared", "Installed", "Activated"} ->
                     [gen |-> m.gen, c |-> m.plan.c]
                [] m.phase = "Cancelled" -> m.prev
                [] OTHER -> @,
     !.mig = m]

-----------------------------------------------------------------------------
(* reconstruct_session: when it accepts an event, and what it makes of it.  *)

\* validate_recovery_trigger.
TriggerValid(d, trigger) ==
  \/ trigger = "ambiguous" /\ d.amb > 0
  \/ /\ trigger = "lost" /\ d.status = "RecoveryRequired"
     /\ d.ckpt # NoCkpt /\ ~d.actor /\ ~d.has
     /\ d.gen # 0 /\ d.next = d.gen + 1 /\ d.ckpt.gen <= d.gen

ReplayAccepts(s, d, e) ==
  CASE e.kind = "Accepted" -> IF d.gen = 0 THEN e.gen = d.next
                              ELSE e.gen = d.gen /\ d.actor /\ ~e.fresh
    [] e.kind = "Started" -> e.gen = d.gen /\ d.op # "none"
    [] e.kind = "Checkpointed" -> e.gen = d.gen
    [] e.kind = "CheckpointFailed" -> e.gen = d.gen /\ d.op = "running"
    [] e.kind = "Terminal" -> d.status = "Executing" /\ d.op = "running"
    [] e.kind = "Interrupted" -> d.op # "none"
    [] e.kind = "StateLost" -> e.prev # 0 /\ e.prev = d.gen /\ e.next = e.prev + 1
    [] e.kind = "Retired" -> e.prev # 0 /\ e.prev = d.gen /\ ~d.has /\ e.next = e.prev + 1
    [] e.kind = "Reset" -> d.op = "none" /\ e.prev = d.gen
    [] e.kind = "AttemptStarted" ->
         /\ d.rec = None /\ d.status = "RecoveryRequired" /\ ~d.actor /\ ~d.has
         /\ e.prev # 0 /\ e.prev = d.gen /\ e.gen = e.prev + 1 /\ e.gen = d.next
         /\ TriggerValid(d, e.trigger)
         /\ d.ckpt # NoCkpt /\ d.ckpt.c = e.c /\ d.ckpt.gen <= e.prev
    [] e.kind = "Committed" ->
         /\ d.rec # None /\ d.rec.gen = e.gen /\ d.rec.trigger = e.trigger /\ d.gen = e.gen
         /\ d.rec.at = d.head
         /\ IF e.trigger = "ambiguous" THEN d.amb > 0
            ELSE d.ckpt # NoCkpt /\ d.ckpt.gen < e.gen /\ ~d.actor /\ ~d.has
         /\ d.ckpt # NoCkpt /\ d.ckpt.c = e.c
    [] e.kind = "Refused" -> IF e.gen = 0 THEN d.rec = None
                             ELSE d.rec # None /\ d.rec.gen = e.gen /\ d.rec.at = d.head
    [] e.kind = "Closed" -> d.op = "none"
    [] e.kind = "Migration" -> MigrationValid(s, d, e.m)

ReplayEffect(d, e) ==
  CASE e.kind = "Accepted" ->
         [d EXCEPT !.actor = TRUE, !.gen = e.gen, !.op = "accepted", !.status = "Executing"]
    [] e.kind = "Started" -> [d EXCEPT !.op = "running", !.status = "Executing"]
    [] e.kind = "Checkpointed" ->
         [d EXCEPT !.ckpt = [gen |-> e.gen, c |-> e.c], !.has = TRUE]
    [] e.kind = "CheckpointFailed" -> [d EXCEPT !.status = "Executing", !.has = TRUE]
    [] e.kind = "Terminal" ->
         [d EXCEPT !.op = "none", !.has = @ \/ e.touched,
                   !.status = IF e.durable THEN "Ready" ELSE "RecoveryRequired"]
    [] e.kind = "Interrupted" ->
         [d EXCEPT !.op = "none", !.amb = @ + (IF e.ambiguous THEN 1 ELSE 0),
                   !.status = IF e.ambiguous THEN "RecoveryRequired" ELSE "Ready"]
    [] e.kind = "StateLost" ->
         [d EXCEPT !.actor = FALSE, !.next = e.next, !.has = FALSE,
                   !.status = "RecoveryRequired"]
    [] e.kind = "Retired" ->
         [d EXCEPT !.actor = FALSE, !.gen = 0, !.next = e.next, !.has = FALSE,
                   !.status = "Ready"]
    [] e.kind = "Reset" ->
         [d EXCEPT !.actor = FALSE, !.gen = 0, !.next = e.next, !.has = FALSE,
                   !.ckpt = NoCkpt, !.status = "Ready", !.mig = Overtaken(@)]
    [] e.kind = "AttemptStarted" ->
         [d EXCEPT !.rec = [kind |-> "attempt", gen |-> e.gen, trigger |-> e.trigger,
                            at |-> d.head + 1],
                   !.gen = e.gen, !.next = e.gen + 1, !.actor = FALSE, !.has = FALSE]
    [] e.kind = "Committed" ->
         [d EXCEPT !.ckpt.gen = e.gen, !.amb = @ - (IF e.trigger = "ambiguous" THEN 1 ELSE 0),
                   !.actor = TRUE, !.next = e.gen, !.has = TRUE, !.status = "Ready",
                   !.rec = None]
    [] e.kind = "Refused" -> [d EXCEPT !.rec = None, !.status = "RecoveryRequired"]
    [] e.kind = "Closed" -> [d EXCEPT !.status = "Closed", !.rec = None, !.mig = Overtaken(@)]
    [] e.kind = "Migration" -> ApplyMigration(d, e.m)

\* One turn of reconstruct_session's loop: a refused event makes the session
\* unreadable for good.
Replay(s, d, e) ==
  IF d = Unreadable \/ d.status = "Closed" THEN Unreadable
  ELSE IF ReplayAccepts(s, d, e) THEN [ReplayEffect(d, e) EXCEPT !.head = @ + 1]
  ELSE Unreadable

ReplayAll(s, d, es) == FoldLeft(LAMBDA a, e : Replay(s, a, e), d, es)

-----------------------------------------------------------------------------
(* The live assignments, one operator per handler.                          *)

\* submit_operation, after its append.
LiveAccepted(r, g) ==
  [r EXCEPT !.status = "Executing", !.op = "accepted",
            !.actor = (@ \/ r.gen = 0), !.gen = IF @ = 0 THEN g ELSE @]

\* operation_started.
LiveStarted(r) == [r EXCEPT !.op = "running"]

\* persist_actor_checkpoint, which leaves actor_has_state to the terminal.
LiveCheckpointed(r, c) == [r EXCEPT !.ckpt = [gen |-> r.gen, c |-> c]]

\* record_checkpoint_failure.
LiveCheckpointFailed(r) == [r EXCEPT !.status = "Executing", !.has = TRUE]

\* operation_finished.
LiveFinished(r, durable, touched) ==
  [r EXCEPT !.status = IF durable THEN "Ready" ELSE "RecoveryRequired",
            !.has = @ \/ touched, !.op = "none"]

\* Mutant: a retired actor keeps its generation in memory.
LiveFencedKeepingGeneration(r) ==
  [r EXCEPT !.actor = FALSE, !.has = FALSE, !.next = r.gen + 1,
            !.status = IF r.has THEN "RecoveryRequired" ELSE "Ready"]

\* The actor fence of fence_missing_worker_locked, interrupt_before_start and
\* classify_restart_interruptions: with state it is lost, without it retired.
LiveFenced(r) ==
  [r EXCEPT !.actor = FALSE, !.has = FALSE, !.next = r.gen + 1,
            !.gen = IF r.has THEN @ ELSE 0,
            !.status = IF r.has THEN "RecoveryRequired" ELSE "Ready"]

\* record_ambiguous_actor_loss, after both appends.
LiveLost(r) ==
  [r EXCEPT !.actor = FALSE, !.next = r.gen + 1, !.has = FALSE,
            !.status = "RecoveryRequired", !.op = "none", !.amb = @ + 1]

\* reset_session.
LiveReset(r) ==
  [r EXCEPT !.actor = FALSE, !.gen = 0, !.next = IF r.gen # 0 THEN r.gen + 1 ELSE @,
            !.has = FALSE, !.ckpt = NoCkpt, !.status = "Ready", !.mig = Overtaken(@)]

\* recover_session, after RecoveryAttemptStarted.
LiveAttempted(r, trigger) ==
  [r EXCEPT !.actor = FALSE, !.gen = r.gen + 1, !.next = r.gen + 2, !.has = FALSE,
            !.rec = [kind |-> "attempt", gen |-> r.gen + 1, trigger |-> trigger,
                     at |-> r.head + 1]]

\* recover_session, after RecoveryCommitted.
LiveRecovered(r) ==
  [r EXCEPT !.rec = None, !.actor = TRUE, !.next = r.gen, !.ckpt.gen = r.gen, !.has = TRUE,
            !.status = "Ready",
            !.amb = @ - (IF r.rec.trigger = "ambiguous" THEN 1 ELSE 0)]

\* Mutant: the generation of a refused attempt is given back.
LiveRefusedReleasing(r) ==
  [r EXCEPT !.status = "RecoveryRequired", !.rec = None,
            !.gen = IF r.rec # None THEN @ - 1 ELSE @, !.next = IF r.rec # None THEN r.gen ELSE @]

\* commit_recovery_refusal_locked.
LiveRefused(r) == [r EXCEPT !.status = "RecoveryRequired", !.rec = None]

LiveClosed(r) == [r EXCEPT !.status = "Closed"]

-----------------------------------------------------------------------------
(* Handlers: what they append, then what they assign.                       *)

\* The fence event for record r, which has an actor generation.
FenceEvent(r) ==
  [kind |-> IF r.has THEN "StateLost" ELSE "Retired", prev |-> r.gen, next |-> r.gen + 1]

InterruptedEvent(ambiguous) == [kind |-> "Interrupted", ambiguous |-> ambiguous]

\* The handler of session s appends events es and assigns record r.
Commit(s, es, r) ==
  /\ disk' = [disk EXCEPT ![s] = ReplayAll(s, @, es)]
  /\ live' = [live EXCEPT ![s] = [r EXCEPT !.head = live[s].head + Len(es)]]

\* The worker of s leaves the map, or its thread is gone.
Discard(s, w) ==
  /\ worker' = [worker EXCEPT ![s] = w]
  /\ retired' = [retired EXCEPT ![s] = IF Physical(worker[s]) /\ worker[s].gen > @
                                       THEN worker[s].gen ELSE @]

\* The node of s stops: only its journal is left.
Stop(s, d) ==
  /\ up' = [up EXCEPT ![s] = FALSE]
  /\ disk' = [disk EXCEPT ![s] = d]
  /\ live' = [live EXCEPT ![s] = d]
  /\ prep' = [prep EXCEPT ![s] = None]
  /\ Discard(s, NoWorker)
  /\ stage' = [stage EXCEPT ![s] = "idle"]
  /\ isolated' = [isolated EXCEPT ![s] = "no"]

\* A call that authenticate_locked and require_next_sequence let through.
Called(s) == up[s] /\ live[s].head < MaxHead

\* The call takes the session's reservation for `what' on the current head.
Reserve(s, k, what) ==
  prep' = [prep EXCEPT ![s] = [kind |-> k, head |-> live[s].head, what |-> what]]

Release(s) == prep' = [prep EXCEPT ![s] = None]

\* The reservation of kind k still stands on the head it was made on.
Unchanged(s, k, status) ==
  /\ up[s] /\ prep[s].kind = k /\ prep[s].head = live[s].head
  /\ live[s].status = status

\* submit_operation, first critical section: spawn an evaluator if the session
\* has none and never had one, and reserve the session.
SubmitReserve(s) ==
  /\ Called(s) /\ live[s].status = "Ready" /\ prep[s] = None
  /\ worker[s] = NoWorker => live[s].gen = 0
  /\ worker' = [worker EXCEPT ![s] = IF @ = NoWorker THEN Bearing(Blank, 0) ELSE @]
  /\ Reserve(s, "submit", None)
  /\ UNCHANGED <<live, disk, up, stage, retired, isolated>>

\* The same section when the worker of an established actor is gone:
\* fence_missing_worker_locked, which insists on a checkpoint if there is state.
SubmitFence(s) ==
  /\ Called(s) /\ live[s].status = "Ready" /\ prep[s] = None
  /\ worker[s] = NoWorker /\ live[s].gen # 0
  /\ live[s].has => live[s].ckpt # NoCkpt
  /\ Commit(s, <<FenceEvent(live[s])>>, LiveFenced(live[s]))
  /\ UNCHANGED <<up, prep, worker, retired, stage, isolated>>

\* Preparation, deadline or lease fails; a worker that does not take the
\* Prepare command is forgotten.
SubmitRefused(s) ==
  /\ Unchanged(s, "submit", "Ready")
  /\ \/ UNCHANGED <<worker, retired>>
     \/ worker[s] = DeadWorker /\ Discard(s, NoWorker)
  /\ Release(s)
  /\ UNCHANGED <<live, disk, up, stage, isolated>>

\* submit_operation, last critical section: OperationAccepted.
SubmitCommit(s) ==
  /\ Unchanged(s, "submit", "Ready")
  /\ LET g == IF live[s].gen # 0 THEN live[s].gen ELSE live[s].next
     IN Commit(s, <<[kind |-> "Accepted", gen |-> g, fresh |-> ~live[s].actor]>>,
               LiveAccepted(live[s], g))
  /\ Release(s)
  /\ stage' = [stage EXCEPT ![s] = "sending"]
  /\ UNCHANGED <<up, worker, retired, isolated>>

\* The accepted operation is handed to a worker that takes it.
Send(s) ==
  /\ up[s] /\ stage[s] = "sending" /\ Alive(worker[s])
  /\ stage' = [stage EXCEPT ![s] = "queued"]
  /\ UNCHANGED <<live, disk, up, prep, worker, retired, isolated>>

\* The worker's channel is closed: interrupt_before_start appends the
\* interruption and then the actor fence, and the node may stop in between.
InterruptBeforeStart(s) ==
  /\ up[s] /\ stage[s] = "sending" /\ ~Alive(worker[s])
  /\ \/ /\ Commit(s, <<InterruptedEvent(FALSE), FenceEvent(live[s])>>,
                  [LiveFenced(live[s]) EXCEPT !.op = "none"])
        /\ Discard(s, NoWorker)
        /\ stage' = [stage EXCEPT ![s] = "idle"]
        /\ UNCHANGED <<up, prep, isolated>>
     \/ Stop(s, Replay(s, disk[s], InterruptedEvent(FALSE)))

\* actor_loop takes the Execute command: operation_started.
Start(s) ==
  /\ up[s] /\ stage[s] = "queued" /\ Alive(worker[s])
  /\ Commit(s, <<[kind |-> "Started", gen |-> live[s].gen]>>, LiveStarted(live[s]))
  /\ worker' = [worker EXCEPT ![s].gen = live[s].gen]
  /\ stage' = [stage EXCEPT ![s] = "running"]
  /\ UNCHANGED <<up, prep, retired, isolated>>

\* The evaluator was never entered (ExecutionDispositionV2::Untouched).
FinishUntouched(s) ==
  /\ up[s] /\ stage[s] = "running" /\ Alive(worker[s])
  /\ Commit(s, <<[kind |-> "Terminal", durable |-> TRUE, touched |-> FALSE]>>,
            LiveFinished(live[s], TRUE, FALSE))
  /\ stage' = [stage EXCEPT ![s] = "idle"]
  /\ UNCHANGED <<up, prep, worker, retired, isolated>>

\* The backend was lost in flight: record_ambiguous_actor_loss appends the loss
\* and then the interruption, and the node may stop in between.
LoseActor(s) ==
  /\ up[s] /\ stage[s] = "running" /\ Alive(worker[s])
  /\ LET lost == [kind |-> "StateLost", prev |-> live[s].gen, next |-> live[s].gen + 1]
     IN \/ /\ Commit(s, <<lost, InterruptedEvent(TRUE)>>, LiveLost(live[s]))
           /\ Discard(s, NoWorker)
           /\ stage' = [stage EXCEPT ![s] = "idle"]
           /\ UNCHANGED <<up, prep, isolated>>
        \/ Stop(s, Replay(s, disk[s], lost))

\* The evaluator ran the operation, whatever came of it.
Settle(s) ==
  /\ up[s] /\ stage[s] = "running" /\ Alive(worker[s])
  /\ worker' = [worker EXCEPT ![s].c = Touched(@, s, live[s].gen)]
  /\ stage' = [stage EXCEPT ![s] = "ran"]
  /\ UNCHANGED <<live, disk, up, prep, retired, isolated>>

\* checkpoint_actor and persist_actor_checkpoint.
SaveCheckpoint(s) ==
  /\ up[s] /\ stage[s] = "ran" /\ Alive(worker[s])
  /\ Commit(s, <<[kind |-> "Checkpointed", gen |-> live[s].gen, c |-> worker[s].c]>>,
            LiveCheckpointed(live[s], worker[s].c))
  /\ stage' = [stage EXCEPT ![s] = "saved"]
  /\ UNCHANGED <<up, prep, worker, retired, isolated>>

\* The checkpoint fails (codec, reservation, quota): record_checkpoint_failure.
FailCheckpoint(s) ==
  /\ up[s] /\ stage[s] = "ran" /\ Alive(worker[s])
  /\ Commit(s, <<[kind |-> "CheckpointFailed", gen |-> live[s].gen]>>,
            LiveCheckpointFailed(live[s]))
  /\ stage' = [stage EXCEPT ![s] = "unsaved"]
  /\ UNCHANGED <<up, prep, worker, retired, isolated>>

\* Mutant: an operation whose checkpoint failed gets no terminal record.
FinishSavedOnly(s) ==
  /\ up[s] /\ stage[s] = "saved" /\ Alive(worker[s])
  /\ Commit(s, <<[kind |-> "Terminal", durable |-> stage[s] = "saved", touched |-> TRUE]>>,
            LiveFinished(live[s], stage[s] = "saved", TRUE))
  /\ stage' = [stage EXCEPT ![s] = "idle"]
  /\ UNCHANGED <<up, prep, worker, retired, isolated>>

\* operation_finished for a settled operation.
Finish(s) ==
  /\ up[s] /\ stage[s] \in {"saved", "unsaved"} /\ Alive(worker[s])
  /\ Commit(s, <<[kind |-> "Terminal", durable |-> stage[s] = "saved", touched |-> TRUE]>>,
            LiveFinished(live[s], stage[s] = "saved", TRUE))
  /\ stage' = [stage EXCEPT ![s] = "idle"]
  /\ UNCHANGED <<up, prep, worker, retired, isolated>>

\* Mutant: a reset leaves the old evaluator in the map.
ResetSessionKeepingWorker(s) ==
  /\ Called(s) /\ live[s].status \in {"Ready", "RecoveryRequired"}
  /\ prep[s] = None /\ live[s].op = "none" /\ live[s].amb = 0
  /\ Commit(s, <<[kind |-> "Reset", prev |-> live[s].gen, next |-> LiveReset(live[s]).next]>>,
            LiveReset(live[s]))
  /\ UNCHANGED <<up, prep, stage, worker, retired, isolated>>

ResetSession(s) ==
  /\ Called(s) /\ live[s].status \in {"Ready", "RecoveryRequired"}
  /\ prep[s] = None /\ live[s].op = "none" /\ live[s].amb = 0
  /\ Commit(s, <<[kind |-> "Reset", prev |-> live[s].gen, next |-> LiveReset(live[s]).next]>>,
            LiveReset(live[s]))
  /\ Discard(s, NoWorker)
  /\ UNCHANGED <<up, prep, stage, isolated>>

CloseSession(s) ==
  /\ Called(s) /\ live[s].status \notin {"Migrating", "Executing", "Closed"}
  /\ prep[s] = None /\ live[s].op = "none"
  /\ Commit(s, <<[kind |-> "Closed"]>>, LiveClosed(live[s]))
  /\ Discard(s, NoWorker)
  /\ UNCHANGED <<up, prep, stage, isolated>>

\* recover_session, first critical section.
RecoverReserve(s, trigger) ==
  /\ Called(s) /\ live[s].status = "RecoveryRequired"
  /\ prep[s] = None /\ live[s].rec = None /\ TriggerValid(live[s], trigger)
  /\ Reserve(s, "recover", trigger)
  /\ UNCHANGED <<live, disk, up, worker, retired, stage, isolated>>

RecoverDropped(s) ==
  /\ Unchanged(s, "recover", "RecoveryRequired")
  /\ Release(s)
  /\ UNCHANGED <<live, disk, up, worker, retired, stage, isolated>>

\* The refusals before an attempt is allocated (commit_recovery_refusal_locked).
RecoverRefused(s) ==
  /\ Unchanged(s, "recover", "RecoveryRequired")
  /\ live[s].ckpt = NoCkpt \/ live[s].gen = 0 \/ live[s].next # live[s].gen + 1
  /\ Commit(s, <<[kind |-> "Refused", gen |-> 0]>>, LiveRefused(live[s]))
  /\ Release(s)
  /\ UNCHANGED <<up, worker, retired, stage, isolated>>

\* RecoveryAttemptStarted fences the generation before the replacement is
\* spawned; a spawn that fails is a restore that fails.
RecoverAttempt(s) ==
  /\ Unchanged(s, "recover", "RecoveryRequired")
  /\ TriggerValid(live[s], prep[s].what)
  /\ live[s].ckpt # NoCkpt /\ live[s].gen # 0 /\ live[s].next = live[s].gen + 1
  /\ Commit(s, <<[kind |-> "AttemptStarted", trigger |-> prep[s].what,
                  prev |-> live[s].gen, gen |-> live[s].gen + 1, c |-> live[s].ckpt.c]>>,
            LiveAttempted(live[s], prep[s].what))
  /\ prep' = [prep EXCEPT ![s].kind = "restore"]
  /\ Discard(s, Restoring(live[s].ckpt.c, live[s].gen + 1))
  /\ UNCHANGED <<up, stage, isolated>>

\* The reservation outlived the attempt's own entry
\* (recovery_attempt_coordinates_unchanged).
Attempting(s) ==
  /\ up[s] /\ prep[s].kind = "restore" /\ live[s].status = "RecoveryRequired"
  /\ live[s].rec # None /\ live[s].head = live[s].rec.at
  /\ live[s].gen = live[s].rec.gen /\ ~live[s].actor /\ ~live[s].has

\* The backend acknowledged the restored snapshot: RecoveryCommitted.
RecoverCommit(s) ==
  /\ Attempting(s) /\ worker[s].is = "restoring"
  /\ Commit(s, <<[kind |-> "Committed", trigger |-> live[s].rec.trigger,
                  gen |-> live[s].gen, c |-> live[s].ckpt.c]>>, LiveRecovered(live[s]))
  /\ worker' = [worker EXCEPT ![s] = Bearing(@.c, @.gen)]
  /\ Release(s)
  /\ UNCHANGED <<up, stage, retired, isolated>>

\* It did not, or the lease expired: RecoveryRefused, naming the generation,
\* and the replacement is closed.
RecoverFail(s) ==
  /\ Attempting(s)
  /\ Commit(s, <<[kind |-> "Refused", gen |-> live[s].gen]>>, LiveRefused(live[s]))
  /\ Discard(s, NoWorker)
  /\ Release(s)
  /\ UNCHANGED <<up, stage, isolated>>

-----------------------------------------------------------------------------
(* Faults and restart.                                                      *)

\* An evaluator thread panics; its entry stays in the map.
Panic(s) ==
  /\ Panics /\ up[s] /\ Alive(worker[s])
  /\ Discard(s, DeadWorker)
  /\ UNCHANGED <<live, disk, up, prep, stage, isolated>>

Crash(s) == (up[s] \/ isolated[s] = "isolated") /\ Stop(s, disk[s])

\* Mutant: every unfinished restore is refused as an install.
RepairedMigrationAsInstall(m) ==
  [m EXCEPT !.phase = "InstallFailed",
            !.actor = FALSE]

\* repair_migration_restart_locked: the refusal of an unfinished restore.
RepairedMigration(m) ==
  [m EXCEPT !.phase = IF @ = "Installing" THEN "InstallFailed" ELSE "ActivationFailed",
            !.actor = FALSE]

\* classify_restart_interruptions in stages, each a pair of what it has
\* appended so far and the record it has made.
Repaired(p, e, r) == [es |-> Append(p.es, e), r |-> [r EXCEPT !.head = @ + 1]]

RefuseAttempt(p) ==
  IF p.r.rec = None THEN p
  ELSE Repaired(p, [kind |-> "Refused", gen |-> p.r.rec.gen],
                [LiveRefused(p.r) EXCEPT !.actor = FALSE, !.has = FALSE])

InterruptPending(p) ==
  IF p.r.status = "Closed" \/ p.r.op = "none" THEN p
  ELSE LET ambiguous == p.r.op = "running"
       IN Repaired(p, InterruptedEvent(ambiguous),
                   [p.r EXCEPT !.op = "none",
                               !.amb = @ + (IF ambiguous THEN 1 ELSE 0),
                               !.status = IF ambiguous THEN "RecoveryRequired" ELSE "Ready"])

FenceLostActor(p) ==
  IF /\ p.r.actor /\ p.r.gen # 0
     /\ p.r.status = "Ready" \/ (p.r.status = "RecoveryRequired" /\ p.r.has)
  THEN Repaired(p, FenceEvent(p.r), LiveFenced(p.r))
  ELSE p

Classified(d) ==
  LET p == [es |-> <<>>, r |-> d]
  IN IF d.mig.phase = "Overtaken" THEN p
     ELSE IF BlocksExecution(d.mig.phase)
     THEN LET q == IF Unfinished(d.mig)
                   THEN LET m == RepairedMigration(d.mig)
                        IN Repaired(p, [kind |-> "Migration", m |-> m], ApplyMigration(d, m))
                   ELSE p
          IN [q EXCEPT !.r.actor = FALSE, !.r.has = FALSE]
     ELSE FenceLostActor(InterruptPending(RefuseAttempt(p)))

\* Session s of the running node is isolated, its journal at record d.
SetAside(s, d) ==
  /\ disk' = [disk EXCEPT ![s] = d]
  /\ live' = [live EXCEPT ![s] = d]
  /\ isolated' = [isolated EXCEPT ![s] = "isolated"]
  /\ UNCHANGED <<up, prep, worker, retired, stage>>

\* The node of s is down, or starting, and its journal can be read.
Starting(s) == ~up[s] /\ isolated[s] = "no" /\ disk[s] # Unreadable

\* load_durable_sessions and classify_restart_interruptions; the node may stop
\* again after any of the records they append.  No refusal fits a restore whose
\* sequence is overtaken: every restart isolates its session.
Restart(s) ==
  /\ Starting(s)
  /\ LET p == Classified(disk[s])
     IN \/ /\ disk[s].mig.phase # "Overtaken"
           /\ disk' = [disk EXCEPT ![s] = ReplayAll(s, @, p.es)]
           /\ live' = [live EXCEPT ![s] = p.r]
           /\ up' = [up EXCEPT ![s] = TRUE]
           /\ UNCHANGED <<prep, worker, retired, stage, isolated>>
        \/ \E n \in 1..(Len(p.es) - 1) :
             Stop(s, ReplayAll(s, disk[s], SubSeq(p.es, 1, n)))
        \/ disk[s].mig.phase = "Overtaken" /\ SetAside(s, disk[s])

\* One of those records is refused for its size or fails to be appended, and
\* the node goes on: isolate_session_recovery_failure.
Isolate(s) ==
  /\ Starting(s)
  /\ LET es == Classified(disk[s]).es
     IN \E n \in 0..(Len(es) - 1) : SetAside(s, ReplayAll(s, disk[s], SubSeq(es, 1, n)))

\* The record it leaves in memory, which no event states.
Isolated(d) ==
  IF d.status = "Closed" THEN d
  ELSE IF d.rec # None THEN [d EXCEPT !.actor = FALSE, !.has = FALSE, !.status = "Quarantined"]
  ELSE [d EXCEPT !.actor = FALSE, !.next = IF d.gen # 0 THEN d.gen + 1 ELSE @,
                 !.status = "RecoveryRequired"]

\* A call that finds session s isolated.
CalledAside(s) == isolated[s] = "isolated" /\ disk[s].head < MaxHead

\* reset_session brings an isolated session back into service.
ResetIsolated(s) ==
  LET r == Isolated(disk[s])
  IN /\ CalledAside(s) /\ r.status = "RecoveryRequired" /\ r.op = "none" /\ r.amb = 0
     /\ Commit(s, <<[kind |-> "Reset", prev |-> r.gen, next |-> LiveReset(r).next]>>, LiveReset(r))
     /\ up' = [up EXCEPT ![s] = TRUE]
     /\ isolated' = [isolated EXCEPT ![s] = "no"]
     /\ UNCHANGED <<prep, worker, retired, stage>>

\* close_session takes a quarantined one as well.
CloseIsolated(s) ==
  LET r == Isolated(disk[s])
  IN /\ CalledAside(s) /\ r.status # "Closed" /\ r.op = "none"
     /\ SetAside(s, Replay(s, disk[s], [kind |-> "Closed"]))

\* recover_session refuses before it allocates an attempt.
RefuseIsolated(s, trigger) ==
  LET r == Isolated(disk[s])
  IN /\ CalledAside(s) /\ r.status = "RecoveryRequired" /\ TriggerValid(r, trigger)
     /\ r.ckpt = NoCkpt \/ r.gen = 0
     /\ SetAside(s, Replay(s, disk[s], [kind |-> "Refused", gen |-> 0]))

\* recover_session allocates an attempt by the record in memory.  Replay refuses
\* it if the journal still has the actor; if it lacks the end of an operation
\* only, the operation stays unsettled.  The session is not followed further.
RecoverIsolated(s, trigger) ==
  LET r == Isolated(disk[s])
      e == [kind |-> "AttemptStarted", trigger |-> trigger, prev |-> r.gen, gen |-> r.gen + 1,
            c |-> r.ckpt.c]
  IN /\ CalledAside(s) /\ r.status = "RecoveryRequired" /\ TriggerValid(r, trigger)
     /\ r.ckpt # NoCkpt /\ r.gen # 0
     /\ isolated' = [isolated EXCEPT ![s] = IF Replay(s, disk[s], e) = Unreadable
                                             THEN "unreadable" ELSE "unsettled"]
     /\ UNCHANGED <<live, disk, up, prep, worker, retired, stage>>

-----------------------------------------------------------------------------
Init ==
  /\ live = [s \in Sessions |-> Opened]
  /\ disk = [s \in Sessions |-> Opened]
  /\ up = [s \in Sessions |-> TRUE]
  /\ prep = [s \in Sessions |-> None]
  /\ worker = [s \in Sessions |-> NoWorker]
  /\ stage = [s \in Sessions |-> "idle"]
  /\ retired = [s \in Sessions |-> 0]
  /\ isolated = [s \in Sessions |-> "no"]

\* The steps the runtime takes by itself once it may.
RuntimeStep(s) ==
  \/ SubmitRefused(s) \/ SubmitCommit(s)
  \/ Send(s) \/ InterruptBeforeStart(s) \/ Start(s)
  \/ FinishUntouched(s) \/ LoseActor(s) \/ Settle(s)
  \/ SaveCheckpoint(s) \/ FailCheckpoint(s) \/ Finish(s)
  \/ RecoverDropped(s) \/ RecoverRefused(s) \/ RecoverAttempt(s)
  \/ RecoverCommit(s) \/ RecoverFail(s)

ClientStep(s) ==
  \/ SubmitReserve(s) \/ SubmitFence(s) \/ ResetSession(s) \/ CloseSession(s)
  \/ ResetIsolated(s) \/ CloseIsolated(s)
  \/ \E trigger \in {"ambiguous", "lost"} :
       RecoverReserve(s, trigger) \/ RefuseIsolated(s, trigger) \/ RecoverIsolated(s, trigger)

FaultStep(s) == Panic(s) \/ Crash(s) \/ Isolate(s)

SessionStep(s) == RuntimeStep(s) \/ ClientStep(s) \/ FaultStep(s) \/ Restart(s)

Next == \E s \in Sessions : SessionStep(s)

Spec == Init /\ [][Next]_vars

-----------------------------------------------------------------------------
(* Properties.                                                              *)

Phases == {"Prepared", "Installing", "Installed", "Fenced", "Activating", "Activated",
           "InstallFailed", "ActivationFailed", "Aborted", "Cancelled", "Overtaken"}

\* Every live record is well formed, and so is what surrounds it.
TypeOK ==
  \A s \in Sessions :
    /\ live[s].status \in {"Ready", "Executing", "RecoveryRequired", "Migrating",
                           "Migrated", "Closed"}
    /\ live[s].gen \in Nat /\ live[s].next \in Nat \ {0} /\ live[s].amb \in Nat
    /\ live[s].op \in {"none", "accepted", "running"}
    /\ live[s].mig.phase \in {"none"} \cup Phases
    /\ prep[s].kind \in {"none", "submit", "recover", "restore", "migrate", "install"}
    /\ worker[s].is \in {"none", "dead", "alive", "restoring"}
    /\ isolated[s] \in {"no", "isolated", "unreadable", "unsettled"}
    /\ stage[s] \in {"idle", "sending", "queued", "running", "ran", "saved", "unsaved"}

\* What a restart would read out of the journal is what the runtime believes of
\* a session in service: reconstruct_session refuses no journal its handlers can
\* write, those of an isolated session that is reset included, and agrees with
\* the live record on everything a handler decides by.  (Whether there is state
\* is settled by the terminal record, so it is compared between operations; a
\* restarted migration endpoint has no actor, which is no event.)  The
\* exception is a recovery of an isolated session (RecoverIsolated), which is
\* in service no more.
ReplayIsLive ==
  \A s \in Sessions :
    /\ disk[s] # Unreadable
    /\ up[s] =>
         /\ isolated[s] = "no"
         /\ \A f \in {"status", "gen", "next", "ckpt", "op", "amb", "rec", "mig", "head"} :
              live[s][f] = disk[s][f]
         /\ live[s].status \in {"Ready", "RecoveryRequired"} =>
              live[s].actor = disk[s].actor /\ live[s].has = disk[s].has

\* A session that accepts operations runs them on exactly the state its journal
\* holds: with state it has a checkpoint, and its evaluator is at that
\* checkpoint; without, its evaluator is blank.
ActorIsCheckpoint ==
  \A s \in Sessions :
    up[s] /\ live[s].status = "Ready" =>
      /\ live[s].has <=> live[s].ckpt # NoCkpt
      /\ Alive(worker[s]) =>
           worker[s].c = IF live[s].has THEN live[s].ckpt.c ELSE Blank

\* Two physical actors of a session never share a generation, the replacements
\* of refused and interrupted recoveries among them, across resets, panics,
\* isolations and restarts, so nothing signed for one fits another.
OneActorPerGeneration ==
  \A s \in Sessions :
    Physical(worker[s]) /\ worker[s].gen # 0 =>
      worker[s].gen = live[s].gen /\ worker[s].gen > retired[s]

\* Handlers and evaluator threads are scheduled, and a node that stopped starts.
Fairness == \A s \in Sessions : WF_vars(RuntimeStep(s))
                             /\ WF_vars(Restart(s))

FairSpec == Spec /\ Fairness

\* An accepted operation is settled and every reservation is given back, however
\* often the node stops; only an evaluator thread that panicked, or a restart
\* that isolated its session, leaves it Executing until the node is restarted.
Settles ==
  \A s \in Sessions :
    /\ live[s].status = "Executing" ~> \/ live[s].status # "Executing"
                                     \/ worker[s].is = "dead" \/ isolated[s] # "no"
    /\ prep[s] # None ~> prep[s] = None
=============================================================================
