--------------------------- MODULE ActorMigration ---------------------------
(***************************************************************************)
(* Journaled checkpoint handoff between two hosted sessions                *)
(* (hosted_remote/v2/runtime/migration_runtime.rs): Prepare, Install,      *)
(* Fence, Activate, Abort and Cancel, each a request that reserves its own *)
(* session, checks the signed receipt of the other, and appends a          *)
(* transition; the sessions go on serving operations, recoveries, resets,  *)
(* closes, panics and crashes all the while (HostedSession).               *)
(*                                                                         *)
(* Receipts are journal entries: once issued they exist for good, and a    *)
(* client may present any of them at any time, late or again.              *)
(***************************************************************************)
EXTENDS HostedSession, FiniteSets

CONSTANTS MaxPlans,  \* bound: plans the authority signs
          MaxFaults  \* bound: crashes, panics, isolations and failed restores

VARIABLES plans,     \* the MigrationPlanV2s signed so far
          receipts,  \* the terminal migration entries of all journals
          faults     \* faults so far

ASSUME MigrationAssumption == MaxPlans \in Nat /\ MaxFaults \in Nat

protocol == <<plans, receipts, faults>>
allVars == <<vars, protocol>>

\* A session that has run one operation: SessionOpened, Accepted, Started,
\* Checkpointed, Terminal.
Begun(s) ==
  [Opened EXCEPT !.gen = 1, !.actor = TRUE, !.has = TRUE, !.head = 5,
                 !.ckpt = [gen |-> 1, c |-> Touched(Blank, s, 1)]]

MigrationInit ==
  /\ live = [s \in Sessions |-> Begun(s)]
  /\ disk = [s \in Sessions |-> Begun(s)]
  /\ up = [s \in Sessions |-> TRUE]
  /\ prep = [s \in Sessions |-> None]
  /\ worker = [s \in Sessions |-> Bearing(Begun(s).ckpt.c, 1)]
  /\ stage = [s \in Sessions |-> "idle"]
  /\ retired = [s \in Sessions |-> 0]
  /\ isolated = [s \in Sessions |-> "no"]
  /\ plans = {} /\ receipts = {} /\ faults = 0

-----------------------------------------------------------------------------
\* The authority binds the heads, generations and settled checkpoint it was
\* shown; nothing keeps the sessions from moving on before the plan is used.
Sign(src, dst) ==
  /\ Cardinality(plans) < MaxPlans
  /\ src # dst
  /\ \A s \in {src, dst} : up[s] /\ live[s].status = "Ready" /\ live[s].ckpt # NoCkpt
  /\ plans' = plans \cup {[src |-> src, dst |-> dst, c |-> live[src].ckpt.c,
                           sgen |-> live[src].gen, shead |-> live[src].head,
                           dgen |-> live[dst].gen, dhead |-> live[dst].head]}
  /\ UNCHANGED <<vars, receipts, faults>>

Actions == {"Prepare", "Install", "Fence", "Activate", "Abort", "Cancel"}

\* local_endpoint.
Endpoint(p, a) == IF a \in {"Prepare", "Fence", "Abort"} THEN p.src ELSE p.dst

\* Receipt r is the entry transition m names as its peer.
Names(m, r) == m.peer = <<r.s, r.at>>

\* The peer proofs of validate_migration_request: r is presented with action a
\* of plan p to session s, whose record is d.
PeerProof(s, d, a, p, r) ==
  /\ r.m.plan = p
  /\ \/ /\ a = "Install" /\ r.s = p.src /\ r.m.phase = "Prepared"
        /\ r.m.gen = p.sgen /\ r.at = p.shead + 1
     \/ /\ a = "Fence" /\ r.s = p.dst /\ r.m.phase = "Installed"
        /\ r.m.gen = p.dgen + 1 /\ r.m.actor
        /\ \E q \in receipts : q.s = s /\ q.m = d.mig /\ Names(r.m, q)
     \/ /\ a = "Activate" /\ r.s = p.src /\ r.m.phase = "Fenced" /\ r.m.gen = p.sgen
        /\ \E q \in receipts : /\ q.s = s /\ q.m.plan = p /\ q.m.phase = "Installed"
                               /\ Names(r.m, q)
     \/ a = "Cancel" /\ r.s = p.src /\ r.m.phase = "Aborted" /\ r.m.gen = p.sgen

\* validate_migration_request, local half.  The warrant names the current head.
Admits(d, a, p) ==
  /\ d.op = "none" /\ d.amb = 0
  /\ CASE a = "Prepare" -> /\ d.status = "Ready" /\ d.gen = p.sgen /\ d.head = p.shead
                           /\ d.ckpt # NoCkpt /\ d.ckpt.c = p.c
       [] a = "Install" -> d.status = "Ready" /\ d.gen = p.dgen /\ d.head = p.dhead
       [] a \in {"Fence", "Abort"} ->
            /\ d.status = "Migrating" /\ d.mig # NoMig /\ d.mig.plan = p
            /\ d.mig.phase = "Prepared"
       [] a \in {"Activate", "Cancel"} ->
            /\ d.status = "Migrating" /\ d.mig # NoMig /\ d.mig.plan = p
            /\ d.mig.phase \in {"Installed", "ActivationFailed"}

\* The receipts that can go with action a: none, or one that proves the peer.
Proofs(s, d, a, p) ==
  IF a \in {"Prepare", "Abort"} THEN {None}
  ELSE {r \in receipts : PeerProof(s, d, a, p, r)}

\* validate_migration_request for the request of session s now reserved.
Requested(s, a) ==
  /\ up[s] /\ prep[s].kind = "migrate" /\ prep[s].head = live[s].head
  /\ prep[s].what.a = a
  /\ Admits(live[s], a, prep[s].what.p)

\* migrate_session, first critical section.
MigrateReserve(s, a, p, r) ==
  /\ up[s] /\ s = Endpoint(p, a)
  /\ a \in {"Prepare", "Install"} => live[s].head < MaxHead
  /\ Admits(live[s], a, p) /\ r \in Proofs(s, live[s], a, p)
  /\ prep[s] = None /\ live[s].rec = None
  /\ Reserve(s, "migrate", [a |-> a, p |-> p, peer |-> IF r = None THEN <<>> ELSE <<r.s, r.at>>])
  /\ UNCHANGED <<live, disk, up, worker, retired, stage, isolated, protocol>>

\* Lease, checkpoint or worker fails before anything is appended.
MigrateDropped(s) ==
  /\ up[s] /\ prep[s].kind = "migrate"
  /\ Release(s)
  /\ UNCHANGED <<live, disk, up, worker, retired, stage, isolated, protocol>>

\* migration_transition and the previous checkpoint append_migration_locked adds.
Transition(s, phase, g, actor) ==
  LET w == prep[s].what
  IN [plan |-> w.p, phase |-> phase, gen |-> g, actor |-> actor, peer |-> w.peer,
      prev |-> CASE phase = "Installing" -> live[s].ckpt
                 [] AtSource(phase) -> NoCkpt
                 [] OTHER -> live[s].mig.prev]

\* append_migration_locked and apply_migration_transition.
AppendMigration(s, m) ==
  /\ MigrationValid(s, live[s], m)
  /\ Commit(s, <<[kind |-> "Migration", m |-> m]>>, ApplyMigration(live[s], m))
  /\ receipts' = IF Unfinished(m) THEN receipts
                 ELSE receipts \cup {[s |-> s, at |-> live[s].head + 1, m |-> m]}

\* Prepare: the worker's fresh checkpoint is the one the plan binds.
Prepare(s) ==
  /\ Requested(s, "Prepare")
  /\ Alive(worker[s]) /\ worker[s].c = prep[s].what.p.c
  /\ AppendMigration(s, Transition(s, "Prepared", live[s].gen, TRUE))
  /\ Release(s)
  /\ UNCHANGED <<up, worker, retired, stage, isolated, plans, faults>>

\* The replacement for plan p is spawned under the generation just consumed and
\* restores the snapshot without the lock; a spawn that fails is a restore that
\* fails.
SpawnRestore(s, p, g) == Discard(s, Restoring(p.c, g))

\* Install: Installing consumes the successor generation, then the old
\* evaluator is closed.
Install(s) ==
  /\ Requested(s, "Install")
  /\ AppendMigration(s, Transition(s, "Installing", live[s].gen + 1, FALSE))
  /\ SpawnRestore(s, prep[s].what.p, live[s].gen + 1)
  /\ prep' = [prep EXCEPT ![s].kind = "install"]
  /\ UNCHANGED <<up, stage, isolated, plans, faults>>

\* Fence: the source is Migrated before its evaluator is torn down.
Fence(s) ==
  /\ Requested(s, "Fence")
  /\ AppendMigration(s, Transition(s, "Fenced", live[s].mig.gen, FALSE))
  /\ Discard(s, NoWorker)
  /\ Release(s)
  /\ UNCHANGED <<up, stage, isolated, plans, faults>>

\* Activate with the standby still in the map.
Activate(s) ==
  /\ Requested(s, "Activate")
  /\ worker[s] # NoWorker
  /\ AppendMigration(s, Transition(s, "Activated", live[s].mig.gen, live[s].mig.actor))
  /\ Release(s)
  /\ UNCHANGED <<up, worker, retired, stage, isolated, plans, faults>>

\* Mutant: only a failed activation is tried again, not a standby lost to a restart.
ReactivateFailedOnly(s) ==
  /\ Requested(s, "Activate")
  /\ worker[s] = NoWorker /\ live[s].mig.phase = "ActivationFailed"
  /\ AppendMigration(s, Transition(s, "Activating", live[s].mig.gen + 1, FALSE))
  /\ SpawnRestore(s, prep[s].what.p, live[s].mig.gen + 1)
  /\ prep' = [prep EXCEPT ![s].kind = "install"]
  /\ UNCHANGED <<up, stage, isolated, plans, faults>>

\* Activate after the standby was lost: a fresh generation and another restore.
Reactivate(s) ==
  /\ Requested(s, "Activate")
  /\ worker[s] = NoWorker
  /\ AppendMigration(s, Transition(s, "Activating", live[s].mig.gen + 1, FALSE))
  /\ SpawnRestore(s, prep[s].what.p, live[s].mig.gen + 1)
  /\ prep' = [prep EXCEPT ![s].kind = "install"]
  /\ UNCHANGED <<up, stage, isolated, plans, faults>>

\* Abort resumes the original evaluator if it is still there.
Abort(s) ==
  /\ Requested(s, "Abort")
  /\ AppendMigration(s, Transition(s, "Aborted", live[s].mig.gen,
                                   worker[s] # NoWorker /\ live[s].actor))
  /\ Release(s)
  /\ UNCHANGED <<up, worker, retired, stage, isolated, plans, faults>>

Cancel(s) ==
  /\ Requested(s, "Cancel")
  /\ AppendMigration(s, Transition(s, "Cancelled", live[s].mig.gen, FALSE))
  /\ Discard(s, NoWorker)
  /\ Release(s)
  /\ UNCHANGED <<up, stage, isolated, plans, faults>>

\* finish_migration_restore: the allocation is still the pending one.
RestorePending(s) ==
  /\ up[s] /\ prep[s].kind = "install" /\ Unfinished(live[s].mig)
  /\ live[s].mig.plan = prep[s].what.p

RestoreAcknowledged(s) ==
  /\ RestorePending(s) /\ worker[s].is = "restoring"
  /\ AppendMigration(s, Transition(s, IF live[s].mig.phase = "Installing" THEN "Installed"
                                      ELSE "Activated", live[s].mig.gen, TRUE))
  /\ worker' = [worker EXCEPT ![s] = Bearing(@.c, @.gen)]
  /\ Release(s)
  /\ UNCHANGED <<up, retired, stage, isolated, plans, faults>>

RestoreFailed(s) ==
  /\ RestorePending(s) /\ faults < MaxFaults
  /\ AppendMigration(s, Transition(s, IF live[s].mig.phase = "Installing" THEN "InstallFailed"
                                      ELSE "ActivationFailed", live[s].mig.gen, FALSE))
  /\ Discard(s, NoWorker)
  /\ faults' = faults + 1
  /\ Release(s)
  /\ UNCHANGED <<up, stage, isolated, plans>>

-----------------------------------------------------------------------------
\* The session's own steps, their failures counted.
Serve(s) ==
  \/ (RuntimeStep(s) \/ ClientStep(s) \/ Restart(s)) /\ UNCHANGED protocol
  \/ faults < MaxFaults /\ FaultStep(s) /\ faults' = faults + 1 /\ UNCHANGED <<plans, receipts>>

MigrateStep(s) ==
  \/ MigrateDropped(s) \/ Prepare(s) \/ Install(s) \/ Fence(s) \/ Activate(s)
  \/ Reactivate(s) \/ Abort(s) \/ Cancel(s) \/ RestoreAcknowledged(s) \/ RestoreFailed(s)

MigrateRequest(s, a) ==
  \E p \in plans : \E r \in Proofs(s, live[s], a, p) : MigrateReserve(s, a, p, r)

MigrationNext ==
  \/ \E s, t \in Sessions : Sign(s, t)
  \/ \E s \in Sessions : Serve(s) \/ MigrateStep(s) \/ \E a \in Actions : MigrateRequest(s, a)

MigrationSpec == MigrationInit /\ [][MigrationNext]_allVars

-----------------------------------------------------------------------------
(* Properties.                                                              *)

\* Session s waits with a copy of an actor that is not its own yet.
Standby(d) ==
  d.status = "Migrating" /\ d.mig.phase \in {"Installed", "Activating", "ActivationFailed"}

Issued(phase, p) == \E r \in receipts : r.m.phase = phase /\ r.m.plan = p

\* The state session s answers for by its journal: a standby answers for the
\* checkpoint it had before, until the source is fenced for its plan.
Held(s) ==
  IF disk[s].status \in {"Closed", "Migrated"} THEN NoCkpt
  ELSE IF Standby(disk[s]) /\ ~Issued("Fenced", disk[s].mig.plan) THEN disk[s].mig.prev
  ELSE disk[s].ckpt

\* The handoff never forks an actor: no two journals answer for one lineage,
\* and an evaluator that may be given operations carries the lineage its
\* session answers for, whatever crashed, was retried, arrived late or again.
ExclusiveOwner ==
  /\ \A s, t \in Sessions :
       s # t /\ Held(s) # NoCkpt /\ Held(t) # NoCkpt => Held(s).c.lin # Held(t).c.lin
  /\ \A s \in Sessions :
       /\ up[s] /\ live[s].status \in {"Ready", "Executing"}
       /\ Alive(worker[s]) /\ worker[s].c # Blank /\ live[s].ckpt # NoCkpt
       => Held(s) # NoCkpt /\ worker[s].c.lin = Held(s).c.lin

Handoff == INSTANCE ActorHandoff WITH
  Generations <- 1..MaxHead,
  Nothing <- NoCkpt,
  held <- [s \in Sessions |-> IF Held(s) = NoCkpt THEN NoCkpt ELSE Held(s).c]

\* Sessions, journals, receipts and restarts implement the handoff of
\* ActorHandoff: a state moves only as it is and only changes at its home.
IsAHandoff == Handoff!Spec

\* The authority that fenced a source goes on asking the destination to
\* activate, nodes restart, and only finitely many restores fail.
MigrationFairness ==
  \A s \in Sessions :
    /\ WF_allVars(Restart(s) /\ UNCHANGED protocol)
    /\ SF_allVars(MigrateRequest(s, "Activate"))
    /\ SF_allVars(Activate(s) \/ Reactivate(s))
    /\ WF_allVars(RestoreAcknowledged(s))
    /\ WF_allVars(MigrateDropped(s))

FairMigrationSpec == MigrationSpec /\ MigrationFairness

\* A fenced actor does not stay fenced: it runs again at its destination, unless
\* the journal there could not take the refusal of an interrupted restore and
\* the destination is isolated, or reset since.
FencedActivates ==
  \A s, t \in Sessions :
    (\E p \in plans : p.src = s /\ p.dst = t /\ Issued("Fenced", p) /\ ~Issued("Activated", p))
    ~> \/ \A p \in plans : p.src = s /\ p.dst = t /\ Issued("Fenced", p) => Issued("Activated", p)
       \/ isolated[t] # "no" \/ disk[t].mig.phase = "Overtaken"
=============================================================================
