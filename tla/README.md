# Specifications of the OSTADIX execution core

TLA+ models, TLC runs and TLAPS proofs for the parts of OSTADIX that run work
concurrently, on several nodes, or over files that must outlive the process: the
graph coordinator and its drivers, the Fabric client, provider and attempt
ledger, the live-system supervisor, the hosted V2 sessions with their store and
migration, and the store of intent runs. Paths below are relative to
`crates/ostadix-api/src/`.

## 1. The system

An `.O` program is parsed, lowered to OIR and admitted as a plan: operations
with data dependencies, each with a lane (coordinator or worker), a dispatch
adapter and a failure class. The **graph coordinator** is one thread that drives
the plan. It submits worker-lane operations to an `AttemptDriver`: the local
**worker pool**, or the **remote attempt driver**, whose workers exchange
messages with a **Fabric provider** on another node. The provider serves each
authenticated stream on a thread of its own, and all of them share one
**attempt ledger**, a snapshot file that outlives the process.

    plan -> graph coordinator -> worker pool -> local task
                  |                   ^
                  +-> remote attempt driver -> execute_remote() ~~ TLS ~~ provider
                                                                            |
                                                                   attempt ledger (disk)

Beside it, on the same node, and sharing no state with it:

    supervisor, supervisor ... -> active-set file      (live_system/)
    hosted V2 server -> runtime -> session journals    (hosted_remote/v2/)
         |
         +-> migration: signed receipts carried between two nodes by the authority
    CLI, MCP ... -> intent run store: leases, indices, objects   (intent/store.rs)

### Inventory

| Component | State | Operations | What is hard | What makes it correct |
|---|---|---|---|---|
| Attempt ledger (`hosted_remote/fabric/ledger.rs`) | body in memory, snapshot file, poison flag, root lock | open, record received / validated / rejected / terminal, consume and accept, mark running, query | rename and directory sync are two steps; failed publication; crash; restart | one grant of execution per binding, replay fence, durable answers, final verdicts |
| Provider (`hosted_remote/fabric/provider.rs`) | ledger handle, one stack per stream | submission, query | every two ledger calls of a handler interleave with other handlers; a lease that expires between checks | work runs once, alone; every attempt concludes |
| Fabric client (`fabric/client.rs`, `execute_remote` in `fabric/coordinator.rs`) | deadline, open stream | submit, poll, accept a candidate | lost, late and misdirected replies; the deadline | only a recorded value of this very submission is accepted; every attempt returns |
| Remote attempt driver (`fabric/coordinator.rs`) | bindings of attempts to tokens, their lifecycle, local tokens | submit, receive | a superseded generation completes late | one completion per token, from the newest generation; no endless wait |
| Graph coordinator (`executor/coordinator.rs`) | state of each operation, buffered results, early publications, trace | drain events, settle, dispatch, run a coordinator operation, wait, abort, discard | completions in any order, callbacks, cancellation, partial dispatch | same outcome as the serial executor; nothing speculative survives; no deadlock |
| Worker pool and tasks (`executor/pool.rs`, `task.rs`) | outstanding count, two channels | submit, receive, complete, call back | panics, callback timeouts, capacity | each task completes once |
| Live-system supervisor (`live_system/supervisor.rs`) | active-set file, records and rollback roots in memory, workers, bearers | start, reconstruct, activate, roll back, restart, invoke | two supervisors on one file; crash between rename and barrier; long staging without the lock | the file is a compare-and-exchange register; a bearer dies with its generation |
| Hosted V2 store (`hosted_remote/v2/store.rs`) | session journals, authority journal, archive | open and repair, append, install, collect | torn appends; crash between any two of renames, removals and barriers | nothing acknowledged is lost; it always opens again |
| Hosted V2 runtime (`hosted_remote/v2/runtime.rs`) | session records, workers, reservations | submit, execute, checkpoint, reset, recover, close, restart | two statements of every event (handler and replay); lost workers; work without the lock | replay agrees with memory; an actor is its checkpoint |
| Migration (`hosted_remote/v2/runtime/migration_runtime.rs`) | migration record of each session, signed receipts | prepare, install, fence, activate, abort, cancel | two nodes, stale receipts, rival plans, restarts | one home for one actor; a fenced actor runs again |
| Intent run store (`intent/store.rs`) | attempt indices, objects, sequence, leases | open, begin, finalize, release, reconcile, retain | leases outside the global lock; retention at its limits; crash between writes | an index never dangles; live runs are left alone; reported results stay |
| Variance scheduler (`scheduler.rs`), placement (`placement/`), package store (`live_system/store.rs`) | wave budgets and two caches; placement records; published packages | | | not modelled yet (section 7) |

`PROJECT.json` lists these and the parts that are left out (section 8), and under
"hazards" each place in the code where a test would hardly reach, with the
properties that cover it.

## 2. Modules

| Module | Models |
|---|---|
| `FabricLedger` | the ledger: operations on a body, and the publication protocol with crashes |
| `FabricAttempt` | the abstract promise of a provider to its clients; no code of its own |
| `FabricProvider` | extends `FabricLedger` with the handlers; implements `FabricAttempt` |
| `FabricClient` | extends `FabricAttempt` with the coordinator's side and the network |
| `RemoteAttemptDriver` | the remote driver over the pool |
| `GraphCoordinator` | the drive loop with the pool and the callbacks of workers |
| `LiveSystem` | supervisors over one active-set file |
| `ActiveSetRegister` | what that file promises: a compare-and-exchange register; no code of its own |
| `HostedStore` | the journals of a hosted V2 node |
| `HostedSession` | the life of a session: handlers, journal, replay |
| `ActorMigration` | extends `HostedSession` with the hand-over between sessions |
| `ActorHandoff` | what the hand-over promises: atomic transfer of a state; no code of its own |
| `RunStore` | the intent run store with several writers |
| `FabricProviderProofs`, `FabricClientProofs`, `RemoteAttemptDriverProofs`, `GraphCoordinatorProofs`, `LiveSystemProofs`, `RunStoreProofs`, `HostedStoreProofs`, `ActorMigrationProofs` | theorems and their proofs, each about the module it is named after; the first is also about `FabricLedger`, the last also about `HostedSession` |
| `MC...` | instances for TLC |

Compositions: `FabricProvider` is ledger and handlers together and implements
`FabricAttempt`; `FabricClient` uses `FabricAttempt` in place of them. So a client
meets the provider only through what the provider was shown to promise.
`ActorMigration` runs whole sessions, not stubs of them, at both ends.

Operators whose comment begins with "Mutant:" are deliberately wrong variants of
the operator after them. They are not part of a specification: each stands for a
plausible mistake that one of the properties must detect.

**Files and faults.** Wherever a module distinguishes what a reader finds (`file`,
`page`, `view`, `names`) from what survives a power loss (`disk`, `synced`), a
rename or an append changes the first and a barrier copies it to the second. A
crash keeps the first. A power loss leaves, of the steps that were not
synchronized, any result the file system may have written back: the old or the new
name, and a prefix of unsynchronized bytes; a rename never leaves neither name.

### FabricLedger

Pure operators (`RecordReceived` ... `Query`) say what each public operation does
to a body. `Mutate` is `with_mutation`: under the mutex, an unchanged body is
answered at once, a changed one is validated and staged. `Rename`, `Sync` and
`Publish` are the steps of `persist_snapshot` and the adoption in memory; the
staging record `staged` stands for the held mutex. Three copies of the body are
distinguished: `disk`, `file` and `mem`. `PublicationFails` fails before or after
the rename and poisons the ledger; `VerifyFails` stands for every way in which the
check of the paths and the cached snapshot can fail. `granted` is a history
variable: how often `may_execute` was answered.

A binding is the record of issuer, attempt, nonce, TLS principal and incarnation.
Bindings that differ only in the digest of their contents are different elements
with equal keys: this relies on collision-free digests. The per-entry
`transition_sequence` and its overflow are left out, and so are the encoding and
the byte bound of the snapshot, whose failure is one of `PublicationFails`. A terminal
candidate that does not encode or does not fit its binding fails before it reaches the
body (`ledger.rs:946-947`); the candidate the handler builds does neither, and this
early error is left out.

### FabricProvider

A handler's `pc` names the ledger call it is about to make or whose answer it
waits for, so that other handlers may run between any two calls and between a
call and the use of its answer. The lease is valid or expired at each of its
three checks independently, because the wall clock may move either way.
`ClockReadable = FALSE` admits that `unix_millis_now()` fails, which closes the
stream without a reply. `StartRealizer` and `Realized` bracket the work itself.
`realized` and `told` are history variables.

Two facts of the code that the model shows and the properties are worded around:
a duplicate stream may be sent a `Rejected` reply that is not recorded, while
another stream executes the attempt and completes it (only recorded verdicts are
compared); and a handler that fails between `mark_running` and the recording of a
verdict, for instance because the clock cannot be read, leaves its attempt
`Running` until the next restart.

### FabricClient

`step` is the place in `execute_remote()`; a deadline that passes is a step of its
own (`Expire`), so it may come before, between and after any other. `inflight` and
`wire` are the request and the response of the stream that is open now: both may
be lost (`TransportFails`), a response may be unrecorded progress or a refusal
(`ReplyUnrecorded`) or belong to another submission (`Misreply`), in particular to
one with the same attempt coordinate and another nonce. `Accepts` are the gates on
a returned candidate, reduced to whom the candidate is for and what it says. The
provider's own steps are those of `FabricAttempt`.

### GraphCoordinator

Operations are numbered in the serial executor's order. `plan` is one of the
constant `Plans`; `fate` fixes in advance what each operation computes: `ok`, `err`
(a batch absorbs it), `fatal`, or `unsafe` (the preparation contract of a worker
operation fails once its inputs are known). Thus a concurrent run can be compared
with the serial one. On top of that workers may fail with an infrastructure error
at any time, dispatch may stop half way, and the request may be cancelled
(`CanFail`). `phase` is the place in `drive()`: top, events, settle, plan, then
abort, abortsettle and discard for `abort_after_worker_error` and
`discard_started_workers`. A worker that called back is `asking`; it may give up
(`abandoned`) while its request is queued, and the coordinator's late reply is then
an error.

Two details worth knowing when reading the code beside the model: a cancellation
noticed at the top of the loop discards everything without settling, one noticed
while waiting goes through `abort_after_worker_error` and may report an earlier
semantic failure instead; and an infrastructure failure found in an event runs
`abort_after_worker_error` twice, the second time with nothing outstanding and
nothing left to settle, which is a single abort in the model.

### RemoteAttemptDriver

`lifecycle` and `token` are `remote_attempts`; `running` and `done` are the two
ends of the pool. A submission that is refused changes nothing and is not a
step. `Discard` covers both receivers: `try_recv_event` goes on, `recv_event`
fails when nothing is outstanding. The coordinator never submits a second
generation of a task today; the driver is written for it, and the model admits
it.

### LiveSystem

A supervisor is used through `&mut self`, so it performs one operation (`op`) at a
time. An operation reads its own records, stages (verifies the package, starts and
health-checks workers: `ActivateStage`, `RollbackStage`, `RestartStage`), renames
the active-set file if its revision is still the one that was observed
(`PublishRename`), and commits in memory after the directory barrier
(`SyncDirectory`). `SyncFails` is the failed barrier: the file has changed, the
command fails, and the supervisor keeps its old revision, so that every later
publication conflicts until it reconstructs. `ReconstructRead` reads the file
without its lock and `Reconstructed` adopts what was read, however old it is by
then; only the revision that came with it protects the file. A generation is one
more than the largest in any active record or rollback root; a bearer carries the
generation of the service it was composed for, and the table is private to a
supervisor. `acked` is a history variable.

### HostedStore

A journal is a sequence of entries of which a prefix is synchronized; a partly
written frame at its end is `Torn`. Opening scans the authority journal and then
every session, cuts torn tails and records each cut in the authority journal
(`RecordRepair`), which draws on the same reserve (`debit`) as garbage collection.
`AppendWrite` / `AppendSync` are the two halves of `append_journal_file_locked`,
either of which may fail and leave the store requiring a reopen. `Install...` is a
new session; `Gc...` are authorization, move to the archive, the barriers, removal
and completion in the order of the code. As in the code, `OpenDone` synchronizes nothing
of what the open found intact. Three history variables keep track of what that means:
`found` and `held` are the frames and the names that are synchronized or that the last
open found, and `betrayed` is true once a power loss has left a journal or a name
that does not contain them. They decide nothing; the properties are stated with them
(section 4, "Reopening without a barrier").

### HostedSession and ActorMigration

Every handler of the runtime appends journal events and assigns the record in
memory by hand; `reconstruct_session` computes the record from the journal by other
code. Both are modelled: `live` is assigned by the handlers (`Live...` operators),
`disk` is the record the journal replays to, extended event by event
(`ReplayAccepts`, `ReplayEffect`), and `Unreadable` once an event is refused. A
state of the evaluator is its lineage (session and generation that bore it) and the
number of operations since. `prep` is the reservation a request holds while it
works without the lock; `stage` is how far the worker thread has got with an
accepted operation. `Restart` is the classification of what the previous process
left. Leases, warrants and quotas are choices: a request that one of them refuses
returns its reservation. A recovery spawns its replacement before its outcome is
known: the evaluator is `Restoring`, under the generation of the attempt, from
`RecoverAttempt` until it is acknowledged, refused or stopped with the node.

A repair that `Restart` appends may be refused for its size, or fail without stopping
the node. `Isolate` is that error path (`isolate_session_recovery_failure`): of the
records to be appended any proper prefix is in the journal, the session is not in
service (`up` is false) and memory holds `Isolated(disk[s])`, which no event states:
`RecoveryRequired` without an actor, or `Quarantined` if a recovery was under way. What
the code lets a client do with such a session is modelled: `ResetIsolated` brings it
back into service, `CloseIsolated` closes it, `RefuseIsolated` records a refusal, and
`RecoverIsolated` allocates an attempt by the record in memory. The last is where model
and program part: the session is marked by what the next replay makes of the attempt's
entry, `unreadable` or `unsettled`, its journal is left as it was before, and it is not
followed further.

`ActorMigration` adds the plans the authority signs, the receipts that exist (once
issued, a receipt may be presented at any time, late or again) and the six requests.
A restart in the middle of `Installing` or `Activating` is the repair in
`RepairedMigration`. `SpawnRestore` is the replacement of a restore, like that of a
recovery. If the repair cannot be appended and the isolated session is then reset or
closed, the request takes the client sequence that the restore's refusal needs: the
restore is `Overtaken`, and every later restart isolates the session again.

### RunStore

`view` and `disk` each hold the attempt indices, the objects and the sequence
number. A writer that holds `store.lock` runs one transaction (`proc`): prune,
publish objects, write the index, synchronize, clean up; a failure at any point
releases the lock and keeps what was done. A lease is locked by its executor from
begin to release, outside `store.lock`, and is freed when its process dies;
`Reconcile` interrupts runs whose lease is free. `SweepFails` is the race of its sweep
with an executor that unlinks its own released lease. A transaction that meets an index
without its objects fails (`Readable`). `gap` is a history variable: `left` once a
writer has died or failed between a directory change and its synchronization, `lost`
when power fails after that.

## 3. Runs

| Run | Instance | Shows |
|---|---|---|
| `provider` | 2 handlers, 3 competing bindings, one of them addressed to the second incarnation; 2 entries | grants, replay fence, durability and finality of the ledger; exclusive execution; refinement of `FabricAttempt` |
| `provider_live` | 2 handlers, 2 competing bindings of 2 principals, 1 incarnation | every recorded attempt concludes |
| `client` | an attempt and the same attempt signed again, both in flight | only recorded values are accepted; every attempt returns |
| `remote_driver` | 3 tokens, 2 tasks, 3 generations, 3 slots | one completion per token, of the newest generation; no wait for what cannot come |
| `coordinator` | 2 plans of 6 operations (strict; with a group of shims), 2 slots, all fates | the serial executor's outcome, in its order; speculation stays private and is revoked; runs end |
| `live` | 2 supervisors, 2 packages, 3 digests with a contested service, 3 revisions and generations | the file is a register; bearers, generations and views |
| `hosted_store` | 1 session, 2 entries of it, 4 of the authority, a reserve of 3 frames | acknowledged entries, repairs and collection over crashes, reopening and power losses |
| `hosted_session` | 1 session, no request after 20 journal entries | replay agrees with memory; actors, replacements and checkpoints; everything is settled |
| `migration` | 2 sessions, 2 plans, 2 faults, no request after 8 entries | one home per actor; refinement of `ActorHandoff` |
| `migration_live` | 2 sessions, 1 plan, 2 faults | a fenced actor is activated, unless its destination is isolated |
| `run_store` | 2 runs of one plan, 2 writers, 2 attempts, 3 bytes, 2 faults of any kind | indices, leases and retention |
| `run_store_superseded` | 2 runs, one without a plan, 1 crash, no power loss | a **violation**: see Findings |

**Bounds.** *Fabric*: two handlers suffice to interfere on an attempt, because a
handler's effect on another is through one ledger entry. The number of entries (2) is
below the number of bindings, so the limit of the table is reached; at the last
incarnation `open` fails, as it does at `u64::MAX`. The ledger has no run of its own:
the handlers make every call it offers, and its properties are proved for any callers
(section 5). *Coordinator*: two slots make candidates compete and results wait behind
each other; the plans have, between them, each adapter, a batch member on either lane, a
result used across lanes, and a derived result inside and outside a group. *Live
system*: two supervisors are one that publishes and one that is stale; three revisions
are an activation, its replacement and a rollback, and then the revision space is
exhausted, which the code also handles. *Hosted store*: two entries are opening and
closing, or opening and work; a collection needs an authorization and a completion in
the authority journal, which leaves room for two repairs beside it, and three frames of
reserve let it run out. Crashes and power losses are not bounded. *Sessions*: 20 entries
are several operations, recoveries and restarts after one another. In migration a
journal starts with five entries, those of a session with a checkpoint, and requests end
at eight, which leaves the steps of a hand-over, or an operation that makes a signed
plan stale. An operation at the destination after its activation is beyond this run and
covered by the theorems (`OwnerIsExclusive`, `MigrationHandsOver`), which have no bound.
Two plans are rivals over the same actor or there and back again; two faults are a crash
of each node, or one during the repair of the other, or a crash and an isolation. *Run
store*: three bytes hold less than two finished runs, so that finalization can be
refused and retention must evict; two faults are a writer that leaves a change without
its synchronization, and the power loss after it.

Symmetry is used for handlers, supervisors, sessions and writers in runs without
liveness only.

**Deadlock** is checked in the provider, coordinator, live-system and hosted-store
runs. It is off where a system may really stop: a client whose attempts
have returned, a driver whose tokens are used, a migration or a run store
whose clients ask for nothing more (their bounds on plans, faults and runs end them),
and a session that is not followed further (`RecoverIsolated`).

**Fairness.** `provider_live`: each handler thread is scheduled, and the file
system calls of a publication return. Nothing is assumed about arrivals, clock
or restarts. That the clock can be read is a constant of the run (`ClockReadable`).
Realization has no forced end in the code other than its return, so
`AttemptsConclude` assumes that the trusted inline renderer returns. `coordinator`:
the coordinator thread runs and a started task returns once its callbacks are
answered; nothing is assumed of cancellation or callback timeouts. `remote_driver`:
tasks return, and the coordinator keeps receiving while work is outstanding, which it
does in `drive()` and in both drains. `client`: the coordinator's thread runs and the
monotonic clock reaches the deadline; nothing of the network or the provider.
`hosted_session`: handlers and evaluator threads are scheduled, and a node that
stopped is started again. `migration_live`: in addition the authority that fenced a
source goes on asking the destination to activate (strong fairness, because a
request may meet a reserved session), and only finitely many restores fail
(`MaxFaults`). `run_store`: writers get on, and later writers come; strong, because
they compete for the lock.

## 4. Properties

Ledger and provider: `AtMostOneGrant`, `GrantFence` (two bindings that share a
replay key are never both granted), `AnswersAreDurable`, `TerminalIsFinal`,
`ExecutionIsExclusive` (an executing handler's attempt is durably Running, and no
one else executes it), `ImplementsAttempt`, `AttemptsConclude`. In the refinement a
verdict is decided when its entry is on the disk, and work starts when the realizer
is called. `GrantIsDurable`, `NoStaleWork` and `IncarnationIsDurable` are parts of
the proofs.

Client: `AcceptedIsRecorded` (a value is accepted only if the provider recorded it
for this submission and ran the work once), `AttemptsReturn`.

Remote driver: `DeliveredOnce`, `NewestWins`, `ReceiptsAreSound`,
`EveryTokenCompletes`.

Coordinator: `FirstFailureWins`, `NoPreemption` (the comment on
`abort_after_worker_error`), `TraceInOrder`, `NothingSurvives`, `EffectsInOrder`
(the comment in `worker_dispatch_candidates`), `ProvisionalIsPrivate`, `RunEnds`.

Live system: `ViewIsTheFile` (a supervisor at the file's revision has the file's
records, so that a compare of revisions is a compare of contents),
`BearersAreCurrent`, `AckedIsDurable`, `GenerationsRotate`, `IsARegister`
(refinement of `ActiveSetRegister`).

Hosted store: `AckedIsKept`, `AlwaysReopens`, `RetiredIsGone`. The first two except, and
only them, behaviours in which a power loss took what an earlier open had found
(`betrayed`); the third holds there too.

Sessions and migration: `ReplayIsLive`, `ActorIsCheckpoint`,
`OneActorPerGeneration`, `Settles`, `ExclusiveOwner`, `IsAHandoff` (refinement of
`ActorHandoff`), `FencedActivates`. `ReplayIsLive` is about sessions in service, one that
was reset after an isolation included; the exception is a session recovered while it was
isolated. `OneActorPerGeneration` counts the replacements of refused and interrupted
recoveries and restores. `Settles` is worded around two facts of the code: an
evaluator thread that panics while it executes, and a restart that isolates the session,
leave it `Executing` until the node restarts. `FencedActivates` excepts a destination
that is isolated, or was and has been reset since.

Run store: `NoDangling`, `ActiveIsProtected`, `ReportedIsKept`, `OrphansSettle`.
`NoDangling` says when an index may dangle: only if power fails after a writer died or
gave up between a directory change and its synchronization (`gap = "lost"`).
`OrphansSettle` has the same exception, since nobody can then reconcile, and one for the
byte quota: if the runs in progress leave no room for the record that would interrupt an
orphan (`Crowded`), reconciliation fails.

### Findings

`run_store_superseded` (`intent/store.rs:1376`): the comment in
`cleanup_unreferenced_objects_locked` says that "a superseded snapshot stays durable
until the terminal index is committed". A finalizer that dies between the rename and
the synchronization of its terminal index leaves an index a reader finds and the disk
may not have. The next open deletes the snapshot that only the older, durable index
names. `DurableIsWhole` is violated; a power loss at that point would leave an index
without its object.

### Observations

Met while modelling, none of them the subject of a run of its own; each is a sequence the model
allows or the source shows.

- *Repeated activation* (`live_system/supervisor.rs:590-598`). After a failed
  directory barrier the file has changed. A supervisor that then reconstructs and is
  given the same command finds the digest active and reports success, with no
  barrier since (`ActivateAgain` changes nothing); a power loss can take that back.
  The comment at 1806-1809 asks for both barriers before a success. `AckedIsDurable`
  is about publishing commands. `publish` of the package store
  (`live_system/store.rs:184`) returns early in the same way.
- *Run store: power loss after an abandoned change.* A crash or a failed
  synchronization and then a power loss leave an index that dangles: by the sequence
  above, or because `publish_staged_object` returns early on an object whose name the
  failed writer never synchronized. Every later transaction of the store then fails. The
  run has both faults; the exception of `NoDangling` is exactly this case.
- *Reopening without a barrier* (`hosted_remote/v2/store.rs:669-692`, `759-791`). An open
  does not synchronize a journal or a directory it finds intact. So what a crash left
  unsynchronized is taken for durable: an installation is renamed, the process dies, the
  next one opens the session and acknowledges an append, which synchronizes the journal
  and the session's directory and not the parent that names it (1147-1148), and a power loss
  takes the session. Or a collection goes on from an authorization whose frame was
  found and not synchronized; a power loss takes the frame and leaves the archive,
  and the store refuses to open. `docs/HOSTED_PLACEMENT_V6.md:662-663` says that "file plus
  parent-directory updates are synchronized", and 642-644 that the journal relocated by a
  collection is "already-durable". `AckedIsKept` and `AlwaysReopens` except exactly
  these behaviours (`betrayed`).
- *Isolation without an event* (`hosted_remote/v2/runtime.rs:3948-4000`). The node
  crashes with an operation running. On restart `OperationInterrupted` is appended, the
  append of `ActorStateLost` fails, and the session is isolated: `RecoveryRequired` in
  memory, an actor in the journal. A recovery with the ambiguous trigger appends
  `RecoveryAttemptStarted`, and the next replay refuses it (5888-5897): the session is
  unreadable. `RecoverIsolated` reaches this (`unreadable`); if only the end of an
  operation is missing from the journal, the attempt is readable and the operation stays
  unsettled. `docs/HOSTED_PLACEMENT_V6.md:709-710` says that startup "durably records the
  old physical generation as lost, and exposes `RecoveryRequired`".
- *Isolation of an unfinished restore* (`migration_runtime.rs:951-961`). Once an isolated
  endpoint has been reset or closed, the refusal of its interrupted restore no longer fits
  its client sequence, so that every restart fails to append it and isolates the session.
- *A terminal append that fails* (`migration_runtime.rs:411-493`, and `recover_session`).
  When the outcome of a restore cannot be appended and the node goes on, the restore is
  unfinished with no reservation until the next restart. This is not modelled: an
  outcome is appended, or the node stops.
- *Repairs draw on the collection's reserve* (`hosted_remote/v2/store.rs:854-889`).
  `docs/HOSTED_PLACEMENT_V6.md:647-649` says the reserve keeps authorization and
  completion of collections reachable; repeated repairs can use it up.
- *A lost actor after an ambiguous operation* (`hosted_remote/v2/runtime.rs:6281`).
  Recovery with the actor-lost trigger makes the session Ready and leaves the ambiguous
  operation as it is; `docs/HOSTED_PLACEMENT_V6.md:780-783` has it block ordinary
  mutation until a recovery resolves it.
- *One way out.* A session whose first operation became ambiguous has no checkpoint to
  recover from and can only be closed; one whose checkpoint failed beside a live actor
  can only be reset; a source that has been migrated stays `Migrated`.

## 5. Proofs

The first part of `FabricProviderProofs` is about the ledger. It proves, for every set
of bindings, callers, reasons and payloads and every bound, that `LedgerSpec` keeps its
types (`LedgerTypes`), grants safely (`GrantsAreSafe`, `ReplayFence`), serves durably
(`ServingIsDurable`) and never changes a verdict (`TerminalEntriesAreFinal`). The
assumptions are those of `FabricLedger`: incarnations of bindings are positive, the
opener is not a caller, the bounds are naturals.

None of the properties is inductive: that a grant is never repeated depends on the
body that will be read after a power loss. The invariant `LedgerInv` therefore
relates the copies: `Ordered` (the disk's body evolves into the file's, and all
three are equal at rest), `Publication` (what is staged at each step),
`Bodies` (every copy is fenced, unfinished entries are current) and `Grants` (a
granted binding is consumed on the disk, and one whose grant is staged was not
granted before). `Evolves(x, y)` is the heart: nothing is forgotten, consumed stays
consumed, terminal entries do not change. One lemma per operation shows that its
mutation is `Sound`, and the steps of the publication only move sound bodies.

Its second part builds on that. Every step of a handler is a step the ledger's
specification allows its callers (`ProviderUsesLedger`), so the ledger's theorems hold
under the real handlers (`ProviderKeepsLedger`). `ExclusiveExecution` needs an owner:
a handler owns its attempt from the answer that granted it until it stores a verdict,
and `HandlerInv` says that meanwhile every copy of the ledger's body has the attempt
in the state the owner left it in, so that neither another handler's publication in
flight nor a crash can move it. `Exclusive` (no two owners) then follows from the
ledger's single grant. `ProviderImplements` shows the refinement of `FabricAttempt`
step by step: a verdict is decided by the barrier that makes its entry durable, and
`Histories` says that only such verdicts were told. It needs that there is a binding
to ask for (`RequestsAssumption`).

`FabricClientProofs` is about the client over `FabricAttempt`. `ClientInv` says of
every response on a stream what `AcceptedIsRecorded` says of a returned value: it is
recorded for the attempt it names, which need not be the attempt of that stream. The
checks of `execute_remote` close the gap. `CompletedAssumption` says a value is the
verdict of work that ran. With `ClientUsesAttempt` and `ProviderImplements` client,
provider and ledger meet through one proved interface.

`RemoteAttemptDriverProofs` proves `OneCompletion`, `NewestCompletes` and
`NeverStranded` for any tokens, tasks, generations and capacity. The invariant adds to
the properties that what is in the pool is bound as submitted (`InFlight`), that a
token is never both local and remote (`Bindings`), and that a delivered token has an
ended task (`Accounted`); the last is what makes a second delivery impossible.
That `recv_event` gives up soundly needs that the pool's sets are finite: with one
event outstanding nothing else is in flight.

`GraphCoordinatorProofs` proves the coordinator's six safety properties for every
plan, number of operations and slots. The invariant is that, until the run ends, the
settled operations are the first `Len(trace)`, each with its event, and only the last
may have failed (`PrefixInv`): hence the frontier, which settlement, dispatch and
effects all depend on, is the next operation. `OpInv` says what the pool does for an
operation and what of it is visible; `ErrorInv` what each phase of an abort has
established, from which `EndInv` gives the first failure and the fault that does not
preempt it. `ProvisionalIsPrivate` speaks of ancestors at any distance; `PrivateInv`
replaces them by one step: a started operation has its inputs from its own group or
settled, and a result published early carries the group of every revocable one it is
computed from. That `Ancestors` is a function at all is by well-founded recursion on
plan order (`PlanAssumption`: dependencies come first).

`LiveSystemProofs` proves the three invariants, the action property and the refinement
of `ActiveSetRegister` for any supervisors, packages and services (packages and
services finite, so that the highest generation exists). A supervisor's memory may be
stale, so `Known` relates it to the revision it was read at: if that is the file's
revision, memory is that file. Every set, in memory, in the file, on disk
or in a reconstruction, is `Coherent`, and a staged operation fits the set it was staged
for (`OperationFits`) with a generation above it; the compare under the lock then
makes that the file's set.

`RunStoreProofs` proves for any writers and faults that live runs are left alone
(`LiveRunsAreSafe`) and reported ones kept (`ReportsAreKept`). `Disjoint` and
`WriterInv` say that a run belongs to one writer from the transaction that begins it
to the release of its lease, and that only the lock's holder is inside a transaction; a
writer's step, as the others see it, touches its own run, runs without a lease and
attempts that are not running (`Frame`). The runs are finite and `Nobody` is neither a
run nor a writer. `NoIndexDangles` has no hypothesis: any crashes, failed synchronizations
and power losses. `WholeInv` (of a transaction that publishes, what is done is visible) is
inductive as long as power does not fail; a power loss turns to the disk, so `DiskInv` says
what the disk has while no change has been abandoned: the view, or the view before the
change the lock's holder has under way, each of them whole.

`HostedStoreProofs` proves, for any sessions and bounds and any sequence of failures,
crashes and power losses, that what an append acknowledged survives (`AckedSurvives`)
and that the store opens again (`StoreReopens`), both until a power loss takes what an
open had found, and that a collected session stays collected (`CollectedStaysGone`).
Nothing is assumed of the disk. Whether a store opens is decided after a power loss, so
the invariant `StoreInv` speaks of every state one can leave beside what opens have
found (`found`, `held`): `JournalInv` of each prefix of a journal from its found part on
(only the last frame is torn, entries are numbered, acknowledged ones in the found
part), `Debits` of the control debit after each entry, and `NamesInv` of the pairs of
visible and durable names a session can have before and during its collection.
`AuthorityInv` says that a collection is authorized once, for a journal that is closed
and synchronized; `TaskInv` which barriers a collection in progress has passed. A power
loss either leaves such a state, and the invariant with it, or it takes what an open had
found, which is `betrayed`: so `betrayed \/ StoreInv` is inductive
(`HostedStoreInvariant`). `CollectedStaysGone` does not rest on it. Its own invariant
`RetiredInv` holds through every power loss, because a completion is recorded only after
the collection's own barriers.

`ActorMigrationProofs` is about sessions first. It proves, for any number of sessions,
any bound on the journal's length and any interleaving of handlers, panics and restarts,
that replay and memory agree for a session in service (`ReplayAgrees`), that a session
runs on its checkpoint (`RunsOnCheckpoint`) and that generations are not reused
(`GenerationsAreSingle`), those of replacements that were refused or interrupted
included (`Restores`: a replacement has the generation of its attempt, above every one
retired). The code states every event twice, in a handler and in the replay. A handler
appends one or two events, and a panic between them leaves a record no handler intends,
so `RecordInv` describes every record that a journal can replay to, also there;
`Consistent` ties it to memory, reservation, evaluator and stage, and `Fresh` keeps the
next generation above every one retired. `AsideInv` says of an isolated session that it
is out of service and that what could not be repaired was no settled step of a
migration, so that its reset, close or refusal writes an entry replay accepts. That a
recovery does not is why the model follows it no further. The fold of the replay is
unfolded for no, one and two events, which is all a step appends; one lemma per event
says field by field what replay makes of a record, and one lemma per handler shows the
invariant is kept. It assumes that a journal has room for its first record (`MaxHead` is
positive).

Then it lets the sessions migrate, with any plans, rivals and restarts. The sessions'
invariant already covers a record with a transition (`Travels`, `Homed`), so the three
properties hold there too (`MigrationReplayAgrees`, `MigrationRunsOnCheckpoint`).
`OwnerIsExclusive` is not inductive: whether the destination may run depends on a
receipt that may be presented long after it was issued. `ProtocolInv` says what of a
receipt can never change (`ReceiptInv`: a fenced source stays fenced, its plan was
installed and never aborted; an installed destination waits until its plan is fenced or
aborted), what a transition may rely on (`MigInv`), and that a request under way has
presented the receipts its action needs (`RequestInv`). `Distinct` is exclusiveness
itself, for the state a session answers for (`Owned`). That a new actor's lineage is not
already somewhere else needs `Lineages` and `PlanInv`: every lineage that a checkpoint
or a plan names was born, that is, its generation is below those its session can still
give out. Every step then either alters the state of one session alone (`Alters`: keep,
drop, carry on by one operation, begin anew; an isolated endpoint that is reset or
closed drops it, `Overtakes`) or is the fence, which moves a state as it is
(`HandsOver`). The refinement of `ActorHandoff` (`MigrationHandsOver`) follows with
`Owned` as the mapping.

## 6. Model-checked only

- Liveness (`AttemptsConclude`, `AttemptsReturn`, `RunEnds`, `EveryTokenCompletes`,
  `Settles`, `FencedActivates`, `OrphansSettle`) is out of the prover's reach.
- What a recovery of an isolated session leads to is only shown, as a state
  (`unreadable`, `unsettled`), and described in section 4.

## 7. Plan

Every safety property of the passing runs is proved, with the exceptions its statement
names and no others. What is left is to model the rest of the
concurrent code: `scheduler.rs` (waves over two caches), the publication of packages in
`live_system/store.rs`, the placement state machine.

## 8. Not modelled

- In modelled files: literals and the commit of root values (sequential), remote
  selection, the loss of the worker pool (worker threads leave only after the
  submission channel is closed, and panics are caught), encodings, file modes and path
  identity, manifests and policy of the live system, operation and checkpoint blobs,
  byte quotas of the hosted store, quarantine of a session whose journal is corrupt, a
  recovery of an isolated session beyond its first entry, terminal appends that fail while
  the node goes on, replies to duplicate requests, readers
  and record contents of the run store, the sweeping of temporary files.
- Parser, IR, graph solving and evidence analysis: sequential transformations whose
  result is an element of the constant `Plans`.
- Evaluators, foreign processes, backends: the outcome of one operation (`fate`).
- O-core compiler and native verifier, projects, kernels, boot, C port, applications,
  command line, MCP: batch programs, other programs, or adapters without concurrent or
  persistent state of their own. They are the larger part of the repository's text by
  far, so the modelled lines are a small share of the whole and most of the code that
  synchronizes, publishes or recovers.
- Mesh, pairing, TLS, keys: authentication is a precondition of a request.
