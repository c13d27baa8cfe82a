------------------------------ MODULE RunStore ------------------------------
(***************************************************************************)
(* The private store of run records (intent/store.rs).  Writers share a    *)
(* directory tree: one index file per attempt, content-addressed objects,  *)
(* a sequence file, one lease file per run.  A global file lock serializes *)
(* allocation, publication, reconciliation and retention; a run's lease is *)
(* locked by its executor from begin to finalize, outside the global lock. *)
(*                                                                         *)
(* A directory entry is visible (view) once its file is renamed or         *)
(* unlinked and survives a power loss (disk) once the directory is synced. *)
(* Bytes are synced before every rename, so a name never shows a torn file.*)
(* Every writer that holds the global lock runs one transaction at a time: *)
(* prune, publish objects, write an index, sync, clean up.                 *)
(***************************************************************************)
EXTENDS Naturals, FiniteSets, FiniteSetsExt

CONSTANTS Runs,         \* random run ids
          Writers,      \* processes
          Plans,        \* contents of original planner snapshots
          NoPlan,       \* a run without a planner snapshot
          Plan,         \* the snapshot of each run
          MaxAttempts,  \* MAX_RUN_ATTEMPTS_V1
          MaxBytes,     \* MAX_RUN_OBJECT_BYTES_V1
          Loses,        \* whether power may fail
          MaxFaults     \* bound: crashes, power losses and failed syncs

ASSUME RunStoreAssumption ==
  /\ Plan \in [Runs -> Plans \cup {NoPlan}] /\ IsFiniteSet(Runs)
  /\ MaxAttempts \in Nat /\ MaxBytes \in Nat /\ MaxFaults \in Nat /\ Loses \in BOOLEAN

VARIABLES view,    \* attempts, objects and sequence as a process sees them
          disk,    \* the same as a power loss leaves them
          lease,   \* each lease file: "none", "held" (locked) or "free"
          lock,    \* who holds store.lock
          tmp,     \* the runs with staged objects under tmp/
          proc,    \* what each writer is doing
          begun,   \* the run ids ever drawn
          acked,   \* history: the entries finalize reported, until evicted
          gap,     \* history: "left" by a writer between a change and its sync, and "lost"
          faults   \* faults so far

vars == <<view, disk, lease, lock, tmp, proc, begun, acked, gap, faults>>

None == [state |-> "none"]
Nobody == "nobody"

ASSUME NobodyAssumption == Nobody \notin Runs \cup Writers

Idle == [at |-> "off"]

\* Record and trace objects name their run and the time they were made.
Object(r, kind) == <<r, kind>>
Snapshot(r) == IF Plan[r] = NoPlan THEN {} ELSE {Object(Plan[r], "plan")}

\* Encoded sizes: a record carries a copy of the original planner snapshot.
Size(o) == IF o[2] \in {"plan", "trace"} THEN 1
           ELSE IF Plan[o[1]] = NoPlan THEN 1 ELSE 2

Bytes(objs) == FoldSet(LAMBDA o, n : n + Size(o), 0, objs)

Running(r, n) == [state |-> "running", seq |-> n, objs |-> Snapshot(r)]
Terminal(n, objs) == [state |-> "terminal", seq |-> n, objs |-> objs]

Indexed(v) == {r \in Runs : v.attempts[r] # None}
Active(v) == {r \in Indexed(v) : v.attempts[r].state = "running"}

\* referenced_object_inventory, without the attempts of `replaced'.
Referenced(v, replaced) == UNION {v.attempts[r].objs : r \in Indexed(v) \ replaced}

\* Every index has its objects.
Whole(v) == Referenced(v, {}) \subseteq v.objects

Oldest(v, S) == CHOOSE r \in S : \A t \in S : v.attempts[r].seq <= v.attempts[t].seq

\* Records and snapshots are in one directory, traces in another.
Beside(S, o) == {x \in S : (x[2] = "trace") = (o[2] = "trace")}

\* Mutant: a running attempt's snapshot does not count.
CleanedTerminal(v) ==
  [v EXCEPT !.objects = @ \cap Referenced(v, Active(v))]

\* cleanup_unreferenced_objects_locked: unlink, and sync what has changed.
Cleaned(v) == [v EXCEPT !.objects = @ \cap Referenced(v, {})]

CleanedDisk(v) ==
  LET gone == v.objects \ Cleaned(v).objects
      Changed(o) == Beside(gone, o) # {}
  IN {o \in disk.objects : ~Changed(o)} \cup {o \in Cleaned(v).objects : Changed(o)}

-----------------------------------------------------------------------------
At(p, place) == proc[p].at = place
Holds(p, place) == lock = p /\ At(p, place)

\* Writer p takes store.lock and starts transaction t.
Enter(p, t) == lock = Nobody /\ lock' = p /\ proc' = [proc EXCEPT ![p] = t]

Goto(p, place) == proc' = [proc EXCEPT ![p].at = place]

Leave(p, t) == lock' = Nobody /\ proc' = [proc EXCEPT ![p] = t]

\* A transaction: what it is for, the run whose index it writes, the objects the
\* index refers to, the ones still to publish, the one published last, the
\* transaction it interrupts and the last sequence its reconciliation looked at.
Txn(job, place, r, n, objs, after) ==
  [job |-> job, at |-> place, run |-> r, seq |-> n, objs |-> objs, todo |-> objs,
   last |-> None, after |-> after, past |-> 0]

Ready == [at |-> "ready"]
Executing(r, n) == [at |-> "executing", run |-> r, seq |-> n]

\* open_at: cleanup_stale_temporary_files_locked and repair_sequence_floor_locked.
OpenStore(p) ==
  /\ At(p, "off")
  /\ Enter(p, Txn("open", "reconcile", Nobody, 0, {}, None))
  /\ tmp' = {r \in tmp : lease[r] = "held"}
  /\ LET n == Max({view.seq} \cup {view.attempts[r].seq : r \in Indexed(view)})
     IN view' = [view EXCEPT !.seq = n] /\ disk' = [disk EXCEPT !.seq = n]
  /\ UNCHANGED <<lease, begun, acked, gap, faults>>

\* begin: the run id is random and new.
Begin(p, r) ==
  /\ At(p, "ready")
  /\ r \notin begun /\ begun' = begun \cup {r}
  /\ Enter(p, Txn("begin", "reconcile", r, view.seq + 1, Snapshot(r), None))
  /\ UNCHANGED <<view, disk, lease, tmp, acked, gap, faults>>

\* Mutants: a locked lease is taken for an orphan's; a lost lease file is not.
OrphansLocked(n) == {r \in Active(view) : view.attempts[r].seq > n}
OrphansWithLease(n) == {r \in Active(view) : lease[r] = "free" /\ view.attempts[r].seq > n}

\* The running attempts after sequence n whose lease nobody holds.
Orphans(n) == {r \in Active(view) : lease[r] # "held" /\ view.attempts[r].seq > n}

\* reconcile_orphans_locked: sweep the released leases of runs that are not
\* running, then interrupt the orphans one by one in the order of their sequence.
Reconcile(p) ==
  /\ Holds(p, "reconcile")
  /\ lease' = [r \in Runs |-> IF lease[r] = "free" /\ r \notin Active(view) /\ proc[p].past = 0
                              THEN "none" ELSE lease[r]]
  /\ proc' = [proc EXCEPT ![p] =
       IF Orphans(@.past) = {} THEN [@ EXCEPT !.at = "prune"]
       ELSE LET r == Oldest(view, Orphans(@.past))
            IN Txn("interrupt", "prune", r, view.attempts[r].seq,
                    {Object(r, "interrupted")}, [@ EXCEPT !.past = view.attempts[r].seq])]
  /\ UNCHANGED <<view, disk, lock, tmp, begun, acked, gap, faults>>

\* prune_locked's sums, for the transaction of p.
Replaced(p) == IF proc[p].job \in {"open", "begin"} THEN {} ELSE {proc[p].run}

Reserve(p) == IF proc[p].job = "begin" THEN 1 ELSE 0

Fits(p) ==
  /\ Cardinality(Indexed(view)) + Reserve(p) <= MaxAttempts
  /\ Bytes(Referenced(view, Replaced(p)) \cup proc[p].objs) <= MaxBytes

Evictable(p) == (Indexed(view) \ Active(view)) \ Replaced(p)

\* referenced_object_inventory looks at every object; an orphan's own snapshot is
\* read for its record.
Readable(p) ==
  Referenced(view, IF proc[p].job = "interrupt" THEN {} ELSE Replaced(p)) \subseteq view.objects

Admissible(p) ==
  /\ Readable(p)
  /\ Bytes(proc[p].objs) <= MaxBytes
  /\ Cardinality(Active(view)) + Reserve(p) <= MaxAttempts

PruneDone(p) ==
  /\ Holds(p, "prune") /\ Admissible(p) /\ Fits(p)
  /\ Goto(p, CASE proc[p].job = "open" -> "clean"
               [] proc[p].job = "begin" -> "lease"
               [] OTHER -> "publish")
  /\ UNCHANGED <<view, disk, lease, lock, tmp, begun, acked, gap, faults>>

\* The oldest terminal attempt goes; its index is synced away before its objects.
Evict(p) ==
  /\ Holds(p, "prune") /\ Admissible(p) /\ ~Fits(p) /\ Evictable(p) # {}
  /\ LET r == Oldest(view, Evictable(p))
     IN /\ view' = [view EXCEPT !.attempts[r] = None]
        /\ acked' = [acked EXCEPT ![r] = None]
  /\ Goto(p, "evicted")
  /\ UNCHANGED <<disk, lease, lock, tmp, begun, gap, faults>>

EvictSync(p) ==
  /\ Holds(p, "evicted")
  /\ disk' = [disk EXCEPT !.attempts = view.attempts, !.objects = CleanedDisk(view)]
  /\ view' = Cleaned(view)
  /\ Goto(p, "prune")
  /\ UNCHANGED <<lease, lock, tmp, begun, acked, gap, faults>>

\* A transaction of p returns an error.  A failed begin gives its lease back, a
\* failed exact finalization falls back to an incomplete one, and a failed
\* reconciliation fails whatever asked for it.
Fails(p) ==
  LET t == proc[p]
      job == IF t.job = "interrupt" THEN t.after.job ELSE t.job
  IN /\ Leave(p, CASE job = "open" -> Idle
                   [] job = "begin" -> Ready
                   [] job = "finalize" -> [at |-> "failed", run |-> t.run, seq |-> t.seq]
                   [] job = "incomplete" -> [at |-> "release", run |-> t.run])
     /\ lease' = IF t.job = "begin" THEN [lease EXCEPT ![t.run] = "none"] ELSE lease
     /\ tmp' = IF t.job \in {"finalize", "incomplete"} THEN tmp \ {t.run} ELSE tmp

\* The sweep finds a released lease which its executor unlinks before the sweep does.
SweepFails(p) ==
  /\ Holds(p, "reconcile") /\ proc[p].past = 0
  /\ \E q \in Writers : At(q, "unlink") /\ lease[proc[q].run] = "free"
  /\ Fails(p)
  /\ UNCHANGED <<view, disk, begun, acked, gap, faults>>

\* An object is missing, or ActiveCapacity or ByteCapacity and nothing left to evict.
PruneFails(p) ==
  /\ Holds(p, "prune")
  /\ ~Admissible(p) \/ (~Fits(p) /\ Evictable(p) = {})
  /\ Fails(p)
  /\ UNCHANGED <<view, disk, begun, acked, gap, faults>>

\* create_unique_lease and its lock.
CreateLease(p) ==
  /\ Holds(p, "lease")
  /\ lease' = [lease EXCEPT ![proc[p].run] = "held"]
  /\ Goto(p, "publish")
  /\ UNCHANGED <<view, disk, lock, tmp, begun, acked, gap, faults>>

\* publish_staged_object: rename into place, unless the object is there.  Only
\* planner snapshots can be: every other object names its run and its time.
Publish(p, o) ==
  /\ Holds(p, "publish") /\ o \in proc[p].todo
  /\ IF o \in view.objects /\ o[2] = "plan"
     THEN proc' = [proc EXCEPT ![p].todo = @ \ {o}] /\ UNCHANGED view
     ELSE /\ view' = [view EXCEPT !.objects = @ \cup {o}]
          /\ proc' = [proc EXCEPT ![p].todo = @ \ {o}, ![p].last = o, ![p].at = "published"]
  /\ UNCHANGED <<disk, lease, lock, tmp, begun, acked, gap, faults>>

\* The objects on the disk when the directory of o is synced.
SyncedObjects(o) == (disk.objects \ Beside(disk.objects, o)) \cup Beside(view.objects, o)

PublishSync(p) ==
  /\ Holds(p, "published")
  /\ disk' = [disk EXCEPT !.objects = SyncedObjects(proc[p].last)]
  /\ Goto(p, "publish")
  /\ UNCHANGED <<view, lease, lock, tmp, begun, acked, gap, faults>>

\* begin writes and syncs the sequence before its index.
Sequence(t) == IF t.job = "begin" THEN t.seq ELSE view.seq

Entry(t) == IF t.job = "begin" THEN Running(t.run, t.seq) ELSE Terminal(t.seq, t.objs)

WriteIndex(p) ==
  /\ Holds(p, "publish") /\ proc[p].todo = {}
  /\ view' = [view EXCEPT !.seq = Sequence(proc[p]), !.attempts[proc[p].run] = Entry(proc[p])]
  /\ disk' = [disk EXCEPT !.seq = Sequence(proc[p])]
  /\ Goto(p, "indexed")
  /\ tmp' = tmp \ {proc[p].run}
  /\ UNCHANGED <<lease, lock, begun, acked, gap, faults>>

\* Mutant: attempts/ is not synced.
IndexedDiskUnsynced(t) == disk

\* attempts/ is synced; a finalization then cleans up.
IndexedDisk(t) ==
  [disk EXCEPT !.attempts = view.attempts,
               !.objects = IF t.job \in {"finalize", "incomplete"} THEN CleanedDisk(view) ELSE @]

\* The index is synced: the run executes, is finalized, or is no orphan any more.
IndexSync(p) ==
  /\ Holds(p, "indexed")
  /\ LET t == proc[p]
     IN /\ view' = IF t.job \in {"finalize", "incomplete"} THEN Cleaned(view) ELSE view
        /\ disk' = IndexedDisk(t)
        /\ CASE t.job = "begin" -> /\ Leave(p, Executing(t.run, t.seq))
                                   /\ UNCHANGED <<lease, acked>>
             [] t.job = "interrupt" -> /\ proc' = [proc EXCEPT ![p] = t.after]
                                       /\ lease' = [lease EXCEPT ![t.run] = "none"]
                                       /\ UNCHANGED <<lock, acked>>
             [] OTHER -> /\ Leave(p, [at |-> "release", run |-> t.run])
                         /\ acked' = [acked EXCEPT ![t.run] =
                                        IF t.job = "finalize" THEN Entry(t) ELSE @]
                         /\ UNCHANGED lease
  /\ UNCHANGED <<tmp, begun, gap, faults>>

\* The last step of open_at.
CleanUp(p) ==
  /\ Holds(p, "clean")
  /\ view' = Cleaned(view)
  /\ disk' = [disk EXCEPT !.objects = CleanedDisk(view)]
  /\ Leave(p, Ready)
  /\ UNCHANGED <<lease, tmp, begun, acked, gap, faults>>

\* finalize_exact and finalize_incomplete stage their objects outside the lock.
Stage(p, objs) ==
  /\ \/ At(p, "executing") /\ proc' = [proc EXCEPT ![p] =
          Txn("finalize", "staged", @.run, @.seq, objs, None)]
     \/ At(p, "failed") /\ proc' = [proc EXCEPT ![p] =
          Txn("incomplete", "staged", @.run, @.seq, {Object(@.run, "incomplete")}, None)]
  /\ tmp' = tmp \cup {proc[p].run}
  /\ UNCHANGED <<view, disk, lease, lock, begun, acked, gap, faults>>

\* They take the lock and insist that the attempt is still running.
Finalize(p) ==
  /\ At(p, "staged") /\ lock = Nobody
  /\ IF view.attempts[proc[p].run] = Running(proc[p].run, proc[p].seq)
     THEN lock' = p /\ Goto(p, "prune") /\ UNCHANGED tmp
     ELSE /\ proc' = [proc EXCEPT ![p] =
               IF @.job = "finalize" THEN [at |-> "failed", run |-> @.run, seq |-> @.seq]
               ELSE [at |-> "release", run |-> @.run]]
          /\ tmp' = tmp \ {proc[p].run}
          /\ UNCHANGED lock
  /\ UNCHANGED <<view, disk, lease, begun, acked, gap, faults>>

\* release_after_finalization: unlock, then unlink if it is still there.
Unlock(p) ==
  /\ At(p, "release")
  /\ lease' = [lease EXCEPT ![proc[p].run] = IF @ = "held" THEN "free" ELSE @]
  /\ Goto(p, "unlink")
  /\ UNCHANGED <<view, disk, lock, tmp, begun, acked, gap, faults>>

Unlink(p) ==
  /\ At(p, "unlink")
  /\ lease' = [lease EXCEPT ![proc[p].run] = "none"]
  /\ proc' = [proc EXCEPT ![p] = Ready]
  /\ UNCHANGED <<view, disk, lock, tmp, begun, acked, gap, faults>>

\* A lease is dropped without finalization.
Drop(p) ==
  /\ At(p, "executing")
  /\ lease' = [lease EXCEPT ![proc[p].run] = "free"]
  /\ proc' = [proc EXCEPT ![p] = Ready]
  /\ UNCHANGED <<view, disk, lock, tmp, begun, acked, gap, faults>>

\* The process ends.
Close(p) ==
  /\ At(p, "ready")
  /\ proc' = [proc EXCEPT ![p] = Idle]
  /\ UNCHANGED <<view, disk, lease, lock, tmp, begun, acked, gap, faults>>

-----------------------------------------------------------------------------
(* Faults.                                                                  *)

\* Writer p has changed a directory and not yet synced it.
Changing(p) == \E place \in {"evicted", "published", "indexed"} : Holds(p, place)

\* It will not: whoever comes next finds the change, the disk may not have it.
Abandoned(p) == IF Changing(p) /\ gap = "none" THEN "left" ELSE gap

SyncFails(p) ==
  /\ Changing(p) /\ gap' = Abandoned(p)
  /\ faults < MaxFaults /\ faults' = faults + 1
  /\ Fails(p)
  /\ UNCHANGED <<view, disk, begun, acked>>

\* The leases that fall free when the writers in S die.
Freed(S) == {r \in Runs : lease[r] = "held" /\
               \E p \in S : "run" \in DOMAIN proc[p] /\ proc[p].run = r}

Crash(p) ==
  /\ proc[p] # Idle
  /\ faults < MaxFaults /\ faults' = faults + 1
  /\ lock' = IF lock = p THEN Nobody ELSE lock
  /\ lease' = [r \in Runs |-> IF r \in Freed({p}) THEN "free" ELSE lease[r]]
  /\ proc' = [proc EXCEPT ![p] = Idle]
  /\ gap' = Abandoned(p)
  /\ UNCHANGED <<view, disk, tmp, begun, acked>>

\* Power fails: of every directory change since its last sync some part is kept.
PowerLoss ==
  /\ Loses /\ faults < MaxFaults /\ faults' = faults + 1
  /\ lock' = Nobody /\ proc' = [p \in Writers |-> Idle]
  /\ \E kept \in SUBSET {r \in Runs : view.attempts[r] # disk.attempts[r]},
        objs \in SUBSET ((view.objects \ disk.objects) \cup (disk.objects \ view.objects)),
        gone \in SUBSET {r \in Runs : lease[r] # "none"} :
       /\ view' = [seq |-> view.seq,
                   attempts |-> [r \in Runs |-> IF r \in kept THEN view.attempts[r]
                                                ELSE disk.attempts[r]],
                   objects |-> (view.objects \cap disk.objects) \cup objs]
       /\ lease' = [r \in Runs |-> IF lease[r] = "none" \/ r \in gone THEN "none" ELSE "free"]
  /\ disk' = view'
  /\ gap' = IF gap = "left" THEN "lost" ELSE gap
  /\ UNCHANGED <<tmp, begun, acked>>

-----------------------------------------------------------------------------
Empty == [attempts |-> [r \in Runs |-> None], objects |-> {}, seq |-> 0]

Init ==
  /\ view = Empty /\ disk = Empty
  /\ lease = [r \in Runs |-> "none"]
  /\ lock = Nobody /\ tmp = {}
  /\ proc = [p \in Writers |-> Idle]
  /\ begun = {} /\ acked = [r \in Runs |-> None]
  /\ gap = "none" /\ faults = 0

\* What a writer does by itself, once it has opened the store.
WriterStep(p) ==
  \/ Reconcile(p) \/ SweepFails(p) \/ PruneDone(p) \/ Evict(p) \/ EvictSync(p) \/ PruneFails(p)
  \/ CreateLease(p) \/ PublishSync(p) \/ WriteIndex(p) \/ IndexSync(p) \/ CleanUp(p)
  \/ Finalize(p) \/ Unlock(p) \/ Unlink(p) \/ Drop(p) \/ Close(p)
  \/ proc[p].at \in {"publish"} /\ \E o \in proc[p].todo : Publish(p, o)
  \/ proc[p].at \in {"executing", "failed"} /\
       \E traced \in BOOLEAN :
         Stage(p, {Object(proc[p].run, "record")} \cup
                  (IF traced THEN {Object(proc[p].run, "trace")} ELSE {}))

Next ==
  \/ \E p \in Writers : \/ OpenStore(p) \/ WriterStep(p) \/ SyncFails(p) \/ Crash(p)
                        \/ \E r \in Runs : Begin(p, r)
  \/ PowerLoss

Spec == Init /\ [][Next]_vars

\* Later writers come, and every writer gets on and ends.
FairSpec == Spec /\ \A p \in Writers : SF_vars(OpenStore(p)) /\ SF_vars(WriterStep(p))

-----------------------------------------------------------------------------
(* Properties.                                                              *)

\* Every index a process can see refers to objects that are there, so that no
\* reader and no later transaction meets a dangling index, which would make every
\* writer of the store fail: whatever crashes and whatever sync fails, and when
\* power fails too, unless it fails after a writer died or gave up between a
\* directory change and its sync (cleanup_unreferenced_objects_locked removes
\* what only the disk still refers to: DurableIsWhole).
NoDangling == gap # "lost" => Whole(view)

\* "A superseded snapshot stays durable until the terminal index is committed":
\* a power loss would find every index with its objects.
DurableIsWhole == Whole(disk)

\* "With active leases protected": while an executor is alive nobody interrupts
\* or evicts its run, or takes its staged objects away.
ActiveIsProtected ==
  \A p \in Writers :
    /\ At(p, "executing") =>
         view.attempts[proc[p].run] = Running(proc[p].run, proc[p].seq)
    /\ At(p, "staged") =>
         /\ proc[p].run \in tmp
         /\ proc[p].job = "finalize" =>
              view.attempts[proc[p].run] = Running(proc[p].run, proc[p].seq)

\* A run that finalize reported is on the disk as it was reported, until
\* retention takes it.
ReportedIsKept ==
  \A r \in Runs : acked[r] # None => view.attempts[r] = acked[r] /\ disk.attempts[r] = acked[r]

\* What is running leaves no room for the record that would interrupt r, and
\* prune_locked may evict none of it.
Crowded(r) ==
  Bytes(UNION {view.attempts[t].objs : t \in Active(view) \ {r}}
        \cup {Object(r, "interrupted")}) > MaxBytes

\* "Later writers reconcile released orphan leases as interrupted": an orphan is
\* settled, or its settlement is refused for lack of room, or a power loss after an
\* abandoned change has left an index nobody can read (reconcile_orphans_locked).
OrphansSettle ==
  \A r \in Runs :
    (r \in Active(view) /\ lease[r] # "held")
      ~> (r \notin Active(view) \/ Crowded(r) \/ gap = "lost")
=============================================================================
