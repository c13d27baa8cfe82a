----------------------------- MODULE LiveSystem -----------------------------
(***************************************************************************)
(* The hosted live system: supervisors (HostedSupervisor) that run the     *)
(* services of packages as worker processes and share one active-set file. *)
(* Every supervisor keeps its own copy of the set it last reconstructed    *)
(* and changes the file by compare-and-exchange on its revision.           *)
(*                                                                         *)
(* A supervisor is used through &mut self, so one operation of it runs at  *)
(* a time; operations of different supervisors interleave wherever they    *)
(* touch the file.  The steps of an operation are therefore: stage (verify *)
(* the package, start its workers, health-check them), rename (the file    *)
(* changes, under the file's lock), and sync (the directory entry is       *)
(* durable, the in-memory commit follows).  Crashes come between any two.  *)
(***************************************************************************)
EXTENDS Integers, FiniteSets, FiniteSetsExt

CONSTANTS
  Supervisors,    \* processes that hold a HostedSupervisor
  Packages,       \* package names
  Digests,        \* package identities
  NoDigest,       \* marks an absent record
  Manifest,       \* digest -> [name, services]
  Services,       \* service names, as numbers in the order of their names
  Bearers,        \* bearer identities; as many as MAX_LIVE_BEARERS
  MaxRevision,    \* the revision space
  MaxGeneration,  \* the generation space
  MaxPackages,    \* MAX_ACTIVE_PACKAGES
  MaxServices,    \* MAX_ACTIVE_SERVICES
  Nobody          \* marks a free lock

ASSUME LiveAssumption ==
  /\ Services \in SUBSET (Nat \ {0})
  /\ IsFiniteSet(Services) /\ IsFiniteSet(Packages)
  /\ NoDigest \notin Digests /\ Nobody \notin Supervisors
  /\ Manifest \in [Digests -> [name : Packages, services : SUBSET Services]]
  /\ MaxRevision \in Nat /\ MaxGeneration \in Nat /\ MaxServices \in Nat /\ MaxPackages \in Nat

VARIABLES
  page,      \* the active set a reader of the file finds
  disk,      \* the active set that survives a power loss
  lock,      \* who holds the active-set lock after its rename
  up,        \* does the supervisor's process run
  observed,  \* revision the supervisor reconstructed or committed
  active,    \* its active records
  rollback,  \* its rollback roots
  kept,      \* packages whose rollback root still has its healthy workers
  exited,    \* active services whose worker has exited
  bearers,   \* its private bearer table
  op,        \* the operation it is in the middle of
  acked      \* last revision a publishing command reported as committed

memory == <<active, rollback, kept, exited, bearers>>
vars == <<page, disk, lock, up, observed, memory, op, acked>>

(***************************************************************************)
(* Records.  A generation is never 0, so 0 marks a service the record does *)
(* not declare.                                                            *)
(***************************************************************************)
Absent == [digest |-> NoDigest, generation |-> [x \in Services |-> 0]]

Record == [digest     : Digests \cup {NoDigest},
           generation : [Services -> 0..MaxGeneration]]

PersistedActiveSet == [revision : 0..MaxRevision,
                       active   : [Packages -> Record],
                       rollback : [Packages -> Record]]

EmptySet == [revision |-> 0,
             active   |-> [p \in Packages |-> Absent],
             rollback |-> [p \in Packages |-> Absent]]

Present(r) == r.digest # NoDigest

Declared(r) == {x \in Services : r.generation[x] > 0}

Generations(records) == {r.generation[x] : r \in records, x \in Services}

RecordsOf(map, ps) == {map[p] : p \in ps}

\* Mutant: the active records are left out of the maximum.
MaxGenerationOfRoots(s, roots) == Max({0} \cup Generations(RecordsOf(rollback[s], roots)))

\* max_generation; a rollback has taken its own root out of the map.
MaxGenerationOf(s, roots) ==
  Max({0} \cup Generations(RecordsOf(active[s], Packages) \cup RecordsOf(rollback[s], roots)))

\* checked_next_generation for each declared service, in the manifest's order.
FreshRecord(d, base) ==
  [digest |-> d,
   generation |-> [x \in Services |->
      IF x \in Manifest[d].services
      THEN base + Cardinality({y \in Manifest[d].services : y <= x})
      ELSE 0]]

GenerationsFit(d, base) == base + Cardinality(Manifest[d].services) <= MaxGeneration

\* A service belongs to at most one active package (service_owners).
OwnedElsewhere(s, p, services) ==
  \E q \in Packages \ {p} : Declared(active[s][q]) \cap services # {}

ServiceCount(s, p, services) ==
  Cardinality(services) +
    Cardinality(UNION {Declared(active[s][q]) : q \in Packages \ {p}})

ActiveServices(s) == UNION {Declared(active[s][p]) : p \in Packages}

OwnerOf(s, x) == CHOOSE p \in Packages : x \in Declared(active[s][p])

Idle == [kind |-> "idle"]

Staged(kind, p, r, x, rest) ==
  [kind |-> kind, package |-> p, record |-> r, service |-> x, rest |-> rest]

IsStaged(s) == op[s].kind \in {"activate", "rollback", "restart"} /\ lock # s

Ready(s) == up[s] /\ op[s] = Idle /\ observed[s] >= 0

TypeOK ==
  /\ page \in PersistedActiveSet /\ disk \in PersistedActiveSet
  /\ lock \in Supervisors \cup {Nobody}
  /\ up \in [Supervisors -> BOOLEAN]
  /\ observed \in [Supervisors -> -1..MaxRevision]
  /\ active \in [Supervisors -> [Packages -> Record]]
  /\ rollback \in [Supervisors -> [Packages -> Record]]
  /\ kept \in [Supervisors -> SUBSET Packages]
  /\ exited \in [Supervisors -> SUBSET Services]
  /\ \A s \in Supervisors :
       bearers[s] \subseteq [id : Bearers, service : Services,
                             generation : 1..MaxGeneration, digest : Digests]
  /\ \A s \in Supervisors :
       op[s].kind \in {"idle", "reconstruct", "activate", "rollback", "restart", "restarting"}
  /\ acked \in 0..MaxRevision

Init ==
  /\ page = EmptySet /\ disk = EmptySet /\ lock = Nobody
  /\ up = [s \in Supervisors |-> FALSE]
  /\ observed = [s \in Supervisors |-> -1]
  /\ active = [s \in Supervisors |-> EmptySet.active]
  /\ rollback = [s \in Supervisors |-> EmptySet.rollback]
  /\ kept = [s \in Supervisors |-> {}]
  /\ exited = [s \in Supervisors |-> {}]
  /\ bearers = [s \in Supervisors |-> {}]
  /\ op = [s \in Supervisors |-> Idle]
  /\ acked = 0

(***************************************************************************)
(* HostedSupervisor::new and reconstruct.  The file is read without its    *)
(* lock; staging the workers takes time; a failure leaves the supervisor   *)
(* as it was.                                                              *)
(***************************************************************************)
Start(s) ==
  /\ ~up[s]
  /\ up' = [up EXCEPT ![s] = TRUE]
  /\ UNCHANGED <<page, disk, lock, observed, memory, op, acked>>

ReconstructRead(s) ==
  /\ up[s] /\ op[s] = Idle
  /\ op' = [op EXCEPT ![s] = [kind |-> "reconstruct", set |-> page]]
  /\ UNCHANGED <<page, disk, lock, up, observed, memory, acked>>

\* Mutant: the revision is read again once the workers are staged.
ReconstructedLate(s) ==
  /\ op[s].kind = "reconstruct"
  /\ active' = [active EXCEPT ![s] = op[s].set.active]
  /\ rollback' = [rollback EXCEPT ![s] = op[s].set.rollback]
  /\ kept' = [kept EXCEPT ![s] = {}]
  /\ exited' = [exited EXCEPT ![s] = {}]
  /\ bearers' = [bearers EXCEPT ![s] = {}]
  /\ observed' = [observed EXCEPT ![s] = page.revision]
  /\ op' = [op EXCEPT ![s] = Idle]
  /\ UNCHANGED <<page, disk, lock, up, acked>>

Reconstructed(s) ==
  /\ op[s].kind = "reconstruct"
  /\ active' = [active EXCEPT ![s] = op[s].set.active]
  /\ rollback' = [rollback EXCEPT ![s] = op[s].set.rollback]
  /\ kept' = [kept EXCEPT ![s] = {}]
  /\ exited' = [exited EXCEPT ![s] = {}]
  /\ bearers' = [bearers EXCEPT ![s] = {}]
  /\ observed' = [observed EXCEPT ![s] = op[s].set.revision]
  /\ op' = [op EXCEPT ![s] = Idle]
  /\ UNCHANGED <<page, disk, lock, up, acked>>

ReconstructFails(s) ==
  /\ op[s].kind = "reconstruct"
  /\ op' = [op EXCEPT ![s] = Idle]
  /\ UNCHANGED <<page, disk, lock, up, observed, memory, acked>>

(***************************************************************************)
(* Staging.  A package that fails to verify, to be authorized or to answer *)
(* its health check leaves nothing behind, so only success is a step; the  *)
(* exception is a rollback, which has by then given up its kept workers.   *)
(***************************************************************************)
ActivateStage(s, d) ==
  LET p == Manifest[d].name
      base == MaxGenerationOf(s, Packages) IN
  /\ Ready(s)
  /\ active[s][p].digest # d
  /\ Present(active[s][p]) \/ Cardinality({q \in Packages : Present(active[s][q])}) < MaxPackages
  /\ ServiceCount(s, p, Manifest[d].services) <= MaxServices
  /\ ~OwnedElsewhere(s, p, Manifest[d].services)
  /\ GenerationsFit(d, base)
  /\ op' = [op EXCEPT ![s] = Staged("activate", p, FreshRecord(d, base), 0, {})]
  /\ UNCHANGED <<page, disk, lock, up, observed, memory, acked>>

\* The digest is active already: only the file's revision is compared, and
\* nothing is written or synchronized.
ActivateAgain(s, d) ==
  /\ Ready(s) /\ lock = Nobody
  /\ active[s][Manifest[d].name].digest = d
  /\ page.revision = observed[s]
  /\ UNCHANGED vars

MayRollback(s, p) ==
  /\ Ready(s)
  /\ Present(rollback[s][p])
  /\ ServiceCount(s, p, Declared(rollback[s][p])) <= MaxServices
  /\ ~OwnedElsewhere(s, p, Declared(rollback[s][p]))

\* prepare_rollback: healthy kept workers are relabelled, else fresh ones start.
RollbackStage(s, p) ==
  LET d == rollback[s][p].digest
      base == MaxGenerationOf(s, Packages \ {p}) IN
  /\ MayRollback(s, p)
  /\ GenerationsFit(d, base)
  /\ op' = [op EXCEPT ![s] = Staged("rollback", p, FreshRecord(d, base), 0, {})]
  /\ UNCHANGED <<page, disk, lock, up, observed, memory, acked>>

\* The kept workers fail their health check and fresh ones cannot be staged.
RollbackStageFails(s, p) ==
  /\ MayRollback(s, p)
  /\ p \in kept[s]
  /\ kept' = [kept EXCEPT ![s] = @ \ {p}]
  /\ UNCHANGED <<page, disk, lock, up, observed, active, rollback, exited, bearers,
                 op, acked>>

RestartStage(s, x, rest) ==
  LET p == OwnerOf(s, x)
      base == MaxGenerationOf(s, Packages) IN
  /\ x \in ActiveServices(s)
  /\ base + 1 <= MaxGeneration
  /\ op' = [op EXCEPT ![s] =
       Staged("restart", p, [active[s][p] EXCEPT !.generation[x] = base + 1], x, rest)]
  /\ UNCHANGED <<page, disk, lock, up, observed, memory, acked>>

RestartService(s) == Ready(s) /\ \E x \in Services : RestartStage(s, x, {})

\* restart_crashed collects the exited workers, then restarts one by one and
\* gives up at the first that fails.
RestartCrashed(s) ==
  /\ Ready(s) /\ exited[s] # {}
  /\ op' = [op EXCEPT ![s] = [kind |-> "restarting", rest |-> exited[s]]]
  /\ UNCHANGED <<page, disk, lock, up, observed, memory, acked>>

RestartNext(s) ==
  /\ op[s].kind = "restarting"
  /\ \E x \in op[s].rest : RestartStage(s, x, op[s].rest \ {x})

RestartGivesUp(s) ==
  /\ op[s].kind = "restarting"
  /\ op' = [op EXCEPT ![s] = Idle]
  /\ UNCHANGED <<page, disk, lock, up, observed, memory, acked>>

(***************************************************************************)
(* compare_exchange_active_set: under the file's lock the revision is      *)
(* compared, the next set is written to a temporary file and renamed into  *)
(* place, and the directory is synchronized.                               *)
(***************************************************************************)
NextSet(s) ==
  LET p == op[s].package IN
  [revision |-> observed[s] + 1,
   active   |-> [active[s] EXCEPT ![p] = op[s].record],
   rollback |-> IF op[s].kind # "restart" /\ Present(active[s][p])
                THEN [rollback[s] EXCEPT ![p] = active[s][p]]
                ELSE rollback[s]]

\* The operation fails: a rollback keeps the workers it prepared, and their
\* record with its new generations, as its root.
Abort(s) ==
  LET p == op[s].package
      back == op[s].kind = "rollback" IN
  /\ op' = [op EXCEPT ![s] = Idle]
  /\ rollback' = [rollback EXCEPT ![s][p] = IF back THEN op[s].record ELSE @]
  /\ kept' = [kept EXCEPT ![s] = IF back THEN @ \cup {p} ELSE @]
  /\ UNCHANGED <<up, observed, active, exited, bearers, acked>>

\* A revision conflict, an exhausted revision space, or an I/O error.
PublishFails(s) ==
  /\ IsStaged(s) /\ lock = Nobody
  /\ Abort(s)
  /\ UNCHANGED <<page, disk, lock>>

\* Mutant: the set is written without comparing revisions.
PublishBlindly(s) ==
  /\ IsStaged(s) /\ lock = Nobody
  /\ observed[s] < MaxRevision
  /\ page' = NextSet(s)
  /\ lock' = s
  /\ UNCHANGED <<disk, up, observed, memory, op, acked>>

PublishRename(s) ==
  /\ IsStaged(s) /\ lock = Nobody
  /\ page.revision = observed[s]
  /\ observed[s] < MaxRevision
  /\ page' = NextSet(s)
  /\ lock' = s
  /\ UNCHANGED <<disk, up, observed, memory, op, acked>>

\* Mutant: only the services of the new version are revoked.
AffectedNew(s) == IF op[s].kind = "restart" THEN {op[s].service} ELSE Declared(op[s].record)

\* The services whose bearers a commit revokes.
Affected(s) ==
  IF op[s].kind = "restart" THEN {op[s].service}
  ELSE Declared(op[s].record) \cup Declared(NextSet(s).rollback[op[s].package])

\* The in-memory commit; the replaced workers stay with the rollback root.
Commit(s) ==
  LET p == op[s].package
      prior == active[s][p]
      swap == op[s].kind # "restart"
      gone == IF swap THEN Declared(prior) \cup Declared(op[s].record) ELSE {op[s].service} IN
  /\ active' = [active EXCEPT ![s] = NextSet(s).active]
  /\ rollback' = [rollback EXCEPT ![s] = NextSet(s).rollback]
  /\ kept' = [kept EXCEPT ![s] =
       IF swap /\ Present(prior)
       THEN IF Declared(prior) \cap exited[s] = {} THEN @ \cup {p} ELSE @ \ {p}
       ELSE @]
  /\ exited' = [exited EXCEPT ![s] = @ \ gone]
  /\ bearers' = [bearers EXCEPT ![s] = {b \in @ : b.service \notin Affected(s)}]
  /\ observed' = [observed EXCEPT ![s] = @ + 1]
  /\ op' = [op EXCEPT ![s] = IF op[s].rest = {} THEN Idle
                             ELSE [kind |-> "restarting", rest |-> op[s].rest]]

\* Mutant: success is reported without the directory barrier.
SyncOmitted(s) ==
  /\ lock = s
  /\ lock' = Nobody
  /\ Commit(s)
  /\ acked' = observed[s] + 1
  /\ UNCHANGED <<page, disk, up>>

SyncDirectory(s) ==
  /\ lock = s
  /\ disk' = page
  /\ lock' = Nobody
  /\ Commit(s)
  /\ acked' = observed[s] + 1
  /\ UNCHANGED <<page, up>>

\* The rename is visible and nothing is reported as committed.
SyncFails(s) ==
  /\ lock = s
  /\ lock' = Nobody
  /\ Abort(s)
  /\ UNCHANGED <<page, disk>>

(***************************************************************************)
(* Capabilities, invocations and workers.  reconstruct draws a new session *)
(* in the step that empties the table, so an entry's session is always the *)
(* supervisor's.                                                           *)
(***************************************************************************)
ServiceCapability(s, x, id) ==
  LET r == active[s][OwnerOf(s, x)] IN
  /\ up[s] /\ op[s] = Idle
  /\ x \in ActiveServices(s)
  /\ id \notin {b.id : b \in bearers[s]}
  /\ bearers' = [bearers EXCEPT ![s] = @ \cup
       {[id |-> id, service |-> x, generation |-> r.generation[x], digest |-> r.digest]}]
  /\ UNCHANGED <<page, disk, lock, up, observed, active, rollback, kept, exited, op,
                 acked>>

\* An entry that names another generation is removed and the call refused.
Stale(s, b) ==
  b.service \notin ActiveServices(s)
    \/ active[s][OwnerOf(s, b.service)].generation[b.service] # b.generation

\* A call that fails in the worker (it exited, timed out or broke protocol)
\* terminates the worker and revokes every bearer of the service.
Invoke(s, b) ==
  /\ up[s] /\ op[s] = Idle
  /\ exited' = [exited EXCEPT ![s] = IF Stale(s, b) THEN @ ELSE @ \cup {b.service}]
  /\ bearers' = [bearers EXCEPT ![s] =
       IF Stale(s, b) THEN @ \ {b} ELSE {c \in @ : c.service # b.service}]
  /\ UNCHANGED <<page, disk, lock, up, observed, active, rollback, kept, op, acked>>

\* A composition mints its bearer and drops it within one step; its failure
\* reaches the other bearers of the service all the same.
ComposeFails(s, x) ==
  /\ up[s] /\ op[s] = Idle
  /\ x \in ActiveServices(s)
  /\ Cardinality(bearers[s]) < Cardinality(Bearers)
  /\ exited' = [exited EXCEPT ![s] = @ \cup {x}]
  /\ bearers' = [bearers EXCEPT ![s] = {b \in @ : b.service # x}]
  /\ UNCHANGED <<page, disk, lock, up, observed, active, rollback, kept, op, acked>>

WorkerExits(s, x) ==
  /\ up[s] /\ x \in ActiveServices(s) \ exited[s]
  /\ exited' = [exited EXCEPT ![s] = @ \cup {x}]
  /\ UNCHANGED <<page, disk, lock, up, observed, active, rollback, kept, bearers, op,
                 acked>>

(***************************************************************************)
(* Faults.  A process that dies loses its memory and its workers; the      *)
(* kernel releases its lock.  A power loss stops every process, and a      *)
(* rename whose directory was not synchronized may or may not have reached *)
(* the disk.                                                               *)
(***************************************************************************)
Forget(S) ==
  /\ up' = [s \in Supervisors |-> up[s] /\ s \notin S]
  /\ observed' = [s \in Supervisors |-> IF s \in S THEN -1 ELSE observed[s]]
  /\ active' = [s \in Supervisors |-> IF s \in S THEN EmptySet.active ELSE active[s]]
  /\ rollback' = [s \in Supervisors |-> IF s \in S THEN EmptySet.rollback ELSE rollback[s]]
  /\ kept' = [s \in Supervisors |-> IF s \in S THEN {} ELSE kept[s]]
  /\ exited' = [s \in Supervisors |-> IF s \in S THEN {} ELSE exited[s]]
  /\ bearers' = [s \in Supervisors |-> IF s \in S THEN {} ELSE bearers[s]]
  /\ op' = [s \in Supervisors |-> IF s \in S THEN Idle ELSE op[s]]
  /\ lock' = IF lock \in S THEN Nobody ELSE lock

Crash(s) == up[s] /\ Forget({s}) /\ UNCHANGED <<page, disk, acked>>

PowerLoss ==
  /\ Forget(Supervisors)
  /\ page' \in {page, disk}
  /\ disk' = page'
  /\ UNCHANGED <<acked>>

SupervisorStep(s) ==
  \/ Start(s) \/ ReconstructRead(s) \/ Reconstructed(s) \/ ReconstructFails(s)
  \/ \E d \in Digests : ActivateStage(s, d) \/ ActivateAgain(s, d)
  \/ \E p \in Packages : RollbackStage(s, p) \/ RollbackStageFails(s, p)
  \/ RestartService(s) \/ RestartCrashed(s) \/ RestartNext(s) \/ RestartGivesUp(s)
  \/ PublishFails(s) \/ PublishRename(s) \/ SyncDirectory(s) \/ SyncFails(s)
  \/ \E x \in Services, id \in Bearers : ServiceCapability(s, x, id)
  \/ \E x \in Services : ComposeFails(s, x) \/ WorkerExits(s, x)
  \/ \E b \in bearers[s] : Invoke(s, b)
  \/ Crash(s)

Next == (\E s \in Supervisors : SupervisorStep(s)) \/ PowerLoss

Spec == Init /\ [][Next]_vars

(***************************************************************************)
(* Properties.                                                             *)
(***************************************************************************)
\* A supervisor whose revision is the file's holds the file's active records
\* and rollback digests, even after operations of its own that failed; this is
\* what makes a compare on the revision alone enough in
\* compare_exchange_active_set.
ViewIsTheFile ==
  \A s \in Supervisors : up[s] /\ observed[s] = page.revision =>
    /\ active[s] = page.active
    /\ \A p \in Packages : rollback[s][p].digest = page.rollback[p].digest

\* An entry of the bearer table names the generation and the package that its
\* service has now: no activation, rollback, restart or failed call leaves an
\* entry a client could still use against another worker (revoke_services).
BearersAreCurrent ==
  \A s \in Supervisors : \A b \in bearers[s] :
    /\ b.service \in ActiveServices(s)
    /\ active[s][OwnerOf(s, b.service)].generation[b.service] = b.generation
    /\ active[s][OwnerOf(s, b.service)].digest = b.digest

\* What a publishing command reported as committed survives any crash
\* (the directory barrier of write_active_set_unlocked).
AckedIsDurable == acked <= disk.revision

\* A published change shows in the active records, and what it changes gets
\* generations above every one that was active in the file it replaces,
\* whichever supervisor wrote that one (max_generation over the reconstructed
\* records): no restart, activation or rollback reuses a generation.
GenerationsRotate ==
  [][page'.revision > page.revision =>
       /\ page'.active # page.active
       /\ \A p \in Packages, x \in Services :
            LET now == page'.active[p].generation[x] IN
            now \in {0, page.active[p].generation[x]} \cup
                    {g \in 1..MaxGeneration :
                       \A h \in Generations(RecordsOf(page.active, Packages)) : h < g}]_vars

\* The file is the register its readers expect: one package at a time, computed
\* from the value it replaces, and only an unsynchronized rename can be lost.
DigestsOf(map) == [p \in Packages |-> map[p].digest]

View(set) == [revision |-> set.revision, active |-> DigestsOf(set.active),
              prior |-> DigestsOf(set.rollback)]

Register == INSTANCE ActiveSetRegister WITH visible <- View(page), durable <- View(disk)

IsARegister == Register!Spec
=============================================================================
