--------------------------- MODULE RunStoreProofs ---------------------------
(***************************************************************************)
(* Proofs about the run store, for any number of runs, writers and faults: *)
(* what an executor may rely on while it lives, what becomes of a run that *)
(* was reported, and that no index dangles unless power fails.             *)
(***************************************************************************)
EXTENDS RunStore, FiniteSetTheorems, WellFoundedInduction, TLAPS

-----------------------------------------------------------------------------
(***************************************************************************)
(* The inductive invariant.  Only the holder of store.lock is inside a     *)
(* transaction; a run belongs to one writer, from the transaction that     *)
(* begins it to the release of its lease; and the lease is held as long as *)
(* that writer may still finalize.                                         *)
(***************************************************************************)

Kinds == {"plan", "record", "trace", "incomplete", "interrupted"}

Objects == (Runs \cup Plans) \X Kinds

Entries == {None} \cup [state : {"running", "terminal"}, seq : Nat, objs : SUBSET Objects]

Stores == [attempts : [Runs -> Entries], objects : SUBSET Objects, seq : Nat]

\* Where a writer is inside the lock.
Inside == {"reconcile", "prune", "evicted", "lease", "publish", "published", "indexed", "clean"}

\* What an interruption returns to.
Outer == [job : {"open", "begin"}, at : {"reconcile"}, run : Runs \cup {Nobody}, seq : Nat,
          objs : SUBSET Objects, todo : SUBSET Objects, last : {None}, after : {None}, past : Nat]

Txns == [job : {"open", "begin", "interrupt", "finalize", "incomplete"},
         at : Inside \cup {"staged"}, run : Runs \cup {Nobody}, seq : Nat,
         objs : SUBSET Objects, todo : SUBSET Objects, last : {None} \cup Objects,
         after : {None} \cup Outer, past : Nat]

Procs == [at : {"off", "ready"}] \cup [at : {"executing", "failed"}, run : Runs, seq : Nat]
           \cup [at : {"release", "unlink"}, run : Runs] \cup Txns

Types ==
    /\ view \in Stores /\ disk \in Stores
    /\ lease \in [Runs -> {"none", "held", "free"}]
    /\ lock \in Writers \cup {Nobody} /\ tmp \subseteq Runs
    /\ proc \in [Writers -> Procs]
    /\ begun \subseteq Runs /\ acked \in [Runs -> Entries] /\ faults \in Nat

InTxn(t) == t.at \in Inside \cup {"staged"}

\* Run r is the one a writer answers for: it begins, executes, finalizes or releases it.
Owns(t, r) ==
    \/ t.at \in {"executing", "failed", "release", "unlink"} /\ t.run = r
    \/ InTxn(t) /\ t.job \in {"begin", "finalize", "incomplete"} /\ t.run = r
    \/ InTxn(t) /\ t.job = "interrupt" /\ t.after.job = "begin" /\ t.after.run = r

\* The shape of a transaction.
TxnInv(t) ==
    /\ t.job = "open" <=> t.run = Nobody
    /\ t.job = "interrupt" <=> t.after # None
    /\ t.job = "interrupt" =>
          /\ t.after.job = "open" <=> t.after.run = Nobody
          /\ t.after.job = "begin" => t.after.objs = Snapshot(t.after.run)
          /\ t.after.todo = t.after.objs
    /\ t.at \in {"reconcile", "lease", "clean"} => t.job \in {"open", "begin"}
    /\ t.at = "clean" => t.job = "open"
    /\ t.at = "lease" => t.job = "begin"
    /\ t.at \in {"publish", "published", "indexed"} => t.job # "open"
    /\ t.at = "published" => t.last # None
    /\ t.at = "reconcile" => t.last = None
    /\ t.at = "staged" => t.job \in {"finalize", "incomplete"}
    /\ t.job = "begin" => t.objs = Snapshot(t.run)
    /\ t.at \in {"reconcile", "prune", "evicted", "lease", "staged"} => t.todo = t.objs

\* A writer whose lease nobody may take.
Protected(t) ==
    \/ t.at \in {"executing", "failed"}
    \/ InTxn(t) /\ t.job \in {"finalize", "incomplete"}
    \/ t.at \in {"publish", "published", "indexed"} /\ t.job = "begin"

WriterInv(p) ==
    LET t == proc[p] IN
    /\ t.at \in Inside => lock = p
    /\ lock = p => t.at \in Inside
    /\ InTxn(t) => TxnInv(t)
    /\ \A r \in Runs : Owns(t, r) => r \in begun
    /\ Protected(t) => lease[t.run] = "held"
    /\ t.at = "executing" \/ (t.at = "staged" /\ t.job = "finalize") =>
          view.attempts[t.run] = Running(t.run, t.seq)
    /\ t.at = "staged" => t.run \in tmp
    /\ t.at \in Inside /\ t.job = "interrupt" => lease[t.run] # "held"
    /\ t.at \in Inside =>
          /\ t.job # "open" => acked[t.run] = None
          /\ t.job = "interrupt" /\ t.after.job = "begin" => acked[t.after.run] = None
    /\ t.at = "indexed" => view.attempts[t.run] = Entry(t)

\* What finalize reported stays until it is evicted, and is no running attempt.
ReportInv ==
    /\ ReportedIsKept
    /\ \A r \in Runs : acked[r] # None => acked[r].state = "terminal" /\ r \in begun

\* A run belongs to one writer.
Disjoint == \A p, q \in Writers : p # q => \A r \in Runs : ~(Owns(proc[p], r) /\ Owns(proc[q], r))

StoreInv == Types /\ ReportInv /\ Disjoint /\ \A p \in Writers : WriterInv(p)

\* An index refers to objects a reader finds, and so will the one that is about to be written.
WholeInv ==
    /\ Whole(view)
    /\ \A p \in Writers : proc[p].at \in {"publish", "published", "indexed"} =>
          proc[p].objs \ proc[p].todo \subseteq view.objects

-----------------------------------------------------------------------------
(***************************************************************************)
(* Shapes.                                                                 *)
(***************************************************************************)

Places == {"off", "ready", "executing", "failed", "release", "unlink", "staged"} \cup Inside

\* The place of a writer says what it carries.
LEMMA ProcMeaning ==
    ASSUME NEW t \in Procs
    PROVE  /\ t.at \in Places
           /\ t.at \in {"executing", "failed"} =>
                 t \in [at : {"executing", "failed"}, run : Runs, seq : Nat]
           /\ t.at \in {"release", "unlink"} => t \in [at : {"release", "unlink"}, run : Runs]
           /\ InTxn(t) => t \in Txns
           /\ t.at \in {"off", "ready"} => t \in [at : {"off", "ready"}]
BY DEF Procs, Txns, InTxn, Inside, Places

\* A writer whose lease is protected owns its run.
LEMMA ProtectedMeaning ==
    ASSUME NEW t \in Procs, InTxn(t) => TxnInv(t), Protected(t)
    PROVE  t.run \in Runs /\ Owns(t, t.run)
<1>1. CASE t.at \in {"executing", "failed"}
    BY <1>1, ProcMeaning DEF Owns
<1>2. CASE InTxn(t) /\ t.job \in {"begin", "finalize", "incomplete"}
    BY <1>2, ProcMeaning DEF Owns, Txns, TxnInv
<1> QED BY <1>1, <1>2 DEF Protected, InTxn, Inside

\* The runs a writer may own.
LEMMA OwnsMeaning ==
    ASSUME NEW t \in Procs, InTxn(t) => TxnInv(t), NEW r, Owns(t, r)
    PROVE  r \in Runs
<1>1. CASE t.at \in {"executing", "failed", "release", "unlink"} /\ t.run = r
    BY <1>1, ProcMeaning
<1>2. CASE InTxn(t) /\ t.job \in {"begin", "finalize", "incomplete"} /\ t.run = r
    BY <1>2, ProcMeaning DEF Txns, TxnInv
<1>3. CASE InTxn(t) /\ t.job = "interrupt" /\ t.after.job = "begin" /\ t.after.run = r
    BY <1>3, ProcMeaning DEF Txns, TxnInv, Outer
<1> QED BY <1>1, <1>2, <1>3 DEF Owns

-----------------------------------------------------------------------------
(***************************************************************************)
(* A step of writer p, as the others see it: it touches only its own run,  *)
(* runs whose lease nobody holds, and attempts that are not running.       *)
(***************************************************************************)
Frame(p) ==
    /\ \A q \in Writers \ {p} : proc'[q] = proc[q]
    /\ lock' = lock \/ (lock \in {Nobody, p} /\ lock' \in {Nobody, p})
    /\ begun \subseteq begun'
    /\ \A r \in Runs : Owns(proc'[p], r) => Owns(proc[p], r) \/ r \notin begun
    /\ \A r \in Runs :
          /\ lease'[r] = "held" => lease[r] = "held" \/ lock = p
          /\ lease[r] = "held" => lease'[r] = "held" \/ Owns(proc[p], r)
          /\ view'.attempts[r] # view.attempts[r] =>
                Owns(proc[p], r) \/ lease[r] # "held" \/ r \notin Active(view)
          /\ r \in tmp => r \in tmp' \/ Owns(proc[p], r) \/ lease[r] # "held"
    /\ lock \in {Nobody, p} \/ (view'.attempts = view.attempts /\ acked' = acked)

LEMMA FrameInv ==
    ASSUME StoreInv, NEW p \in Writers, Frame(p), Types', WriterInv(p)'
    PROVE  Disjoint' /\ \A q \in Writers : WriterInv(q)'
<1>1. /\ \A q \in Writers : WriterInv(q) /\ proc[q] \in Procs /\ q # Nobody
      /\ \A q \in Writers \ {p} : proc'[q] = proc[q]
    BY NobodyAssumption DEF StoreInv, Types, Frame
<1>2. ASSUME NEW q \in Writers \ {p}
      PROVE  WriterInv(q)'
    <2> DEFINE t == proc[q]
    <2>1. t \in Procs /\ (InTxn(t) => TxnInv(t)) /\ proc'[q] = t /\ WriterInv(q)
        BY <1>1 DEF WriterInv
    <2>2. lock' = q <=> lock = q
        BY <1>1 DEF Frame
    <2>3. \A r \in Runs : ~(Owns(proc[p], r) /\ Owns(t, r))
        BY DEF StoreInv, Disjoint
    <2>4. Protected(t) => lease[t.run] = "held" /\ t.run \in Runs /\ ~Owns(proc[p], t.run)
        BY <2>1, <2>3, ProtectedMeaning DEF WriterInv
    <2>5. Protected(t) => lease'[t.run] = "held"
        BY <2>4 DEF Frame
    <2>6. t.at = "executing" \/ (t.at = "staged" /\ t.job = "finalize") =>
            Protected(t) /\ view'.attempts[t.run] = Running(t.run, t.seq)
        <3> SUFFICES ASSUME t.at = "executing" \/ (t.at = "staged" /\ t.job = "finalize")
                     PROVE  Protected(t) /\ view'.attempts[t.run] = Running(t.run, t.seq)
            OBVIOUS
        <3>1. Protected(t) /\ view.attempts[t.run] = Running(t.run, t.seq)
            BY <2>1 DEF WriterInv, Protected, InTxn
        <3>2. t.run \in Active(view)
            BY <2>4, <3>1 DEF Active, Indexed, Running, None
        <3> QED BY <2>4, <3>1, <3>2 DEF Frame
    <2>7. t.at = "staged" => t.run \in tmp'
        <3>1. t.at = "staged" => Protected(t) /\ t.run \in tmp
            BY <2>1 DEF WriterInv, Protected, InTxn, TxnInv
        <3> QED BY <2>4, <3>1 DEF Frame
    <2>8. t.at \in Inside => /\ lock = q /\ lock \notin {Nobody, p}
                             /\ view'.attempts = view.attempts /\ acked' = acked
        BY <1>1, <2>1 DEF WriterInv, Frame
    <2>9. t.at \in Inside /\ t.job = "interrupt" => lease'[t.run] # "held"
        <3>1. t.at \in Inside /\ t.job = "interrupt" => t.run \in Runs /\ lease[t.run] # "held"
            BY <2>1, ProcMeaning DEF WriterInv, Txns, TxnInv, InTxn
        <3> QED BY <2>8, <3>1 DEF Frame
    <2>10. \A r \in Runs : Owns(t, r) => r \in begun'
        BY <2>1 DEF WriterInv, Frame
    <2> HIDE DEF t
    <2>11. t.at \in Inside =>
             /\ t.job # "open" => acked'[t.run] = None
             /\ t.job = "interrupt" /\ t.after.job = "begin" => acked'[t.after.run] = None
        BY <2>1, <2>8 DEF WriterInv, t
    <2>12. t.at = "indexed" => view'.attempts[t.run] = Entry(t)
        BY <2>1, <2>8 DEF WriterInv, t, Inside
    <2>13. (t.at \in Inside => lock' = q) /\ (lock' = q => t.at \in Inside)
        BY <2>1, <2>2 DEF WriterInv, t
    <2>14. proc'[q] = t
        BY <2>1 DEF t
    <2> QED BY <2>1, <2>5, <2>6, <2>7, <2>9, <2>10, <2>11, <2>12, <2>13, <2>14 DEF WriterInv
<1>3. Disjoint'
    <2> SUFFICES ASSUME NEW q \in Writers, NEW u \in Writers, q # u, NEW r \in Runs
                 PROVE  ~(Owns(proc'[q], r) /\ Owns(proc'[u], r))
        BY DEF Disjoint
    <2>1. ASSUME NEW v \in Writers \ {p} PROVE ~(Owns(proc'[p], r) /\ Owns(proc'[v], r))
        <3>1. Owns(proc'[v], r) => Owns(proc[v], r) /\ r \in begun
            BY <1>1 DEF WriterInv
        <3>2. ~(Owns(proc[p], r) /\ Owns(proc[v], r))
            BY DEF StoreInv, Disjoint
        <3> QED BY <3>1, <3>2 DEF Frame
    <2>2. CASE q = p \/ u = p
        BY <2>1, <2>2
    <2>3. CASE q # p /\ u # p
        BY <1>1, <2>3 DEF StoreInv, Disjoint
    <2> QED BY <2>2, <2>3
<1> QED BY <1>2, <1>3

LEMMA StepInv ==
    ASSUME StoreInv, NEW p \in Writers, Frame(p), Types', WriterInv(p)', ReportInv'
    PROVE  StoreInv'
BY FrameInv DEF StoreInv

\* A step that touches no index and reports nothing.
LEMMA ReportSame ==
    ASSUME StoreInv, begun \subseteq begun', acked' = acked, view'.attempts = view.attempts,
           disk'.attempts = disk.attempts
    PROVE  ReportInv'
BY DEF StoreInv, ReportInv, ReportedIsKept

\* The holder of the lock goes on with its transaction.
LEMMA HolderMove ==
    ASSUME StoreInv, Types', NEW p \in Writers, lock = p, lock' = p, begun' = begun,
           NEW u \in Txns, u.at \in Inside, TxnInv(u), proc' = [proc EXCEPT ![p] = u],
           u.job = proc[p].job, u.run = proc[p].run, u.after = proc[p].after,
           Protected(u) => lease'[u.run] = "held",
           u.at = "indexed" => view'.attempts[u.run] = Entry(u),
           \A r \in Runs :
              /\ \/ lease'[r] = lease[r] \/ (lease[r] # "held" /\ lease'[r] # "held")
                 \/ u.job = "begin" /\ r = u.run /\ lease'[r] = "held"
              /\ r \in tmp => r \in tmp' \/ r = u.run
              /\ view'.attempts[r] # view.attempts[r] => r = u.run \/ r \notin Active(view)
              /\ acked'[r] \in {acked[r], None}
    PROVE  Frame(p) /\ WriterInv(p)'
<1> DEFINE t == proc[p]
<1>1. WriterInv(p) /\ t \in Procs /\ proc \in [Writers -> Procs] /\ Nobody \notin Runs
    BY NobodyAssumption DEF StoreInv, Types
<1>2. t.at \in Inside /\ InTxn(t) /\ TxnInv(t) /\ t \in Txns
    BY <1>1, ProcMeaning DEF WriterInv, InTxn
<1>3. proc'[p] = u /\ \A q \in Writers \ {p} : proc'[q] = proc[q]
    BY <1>1
<1>4. InTxn(u)
    BY DEF InTxn
<1> HIDE DEF t
<1>5. u.job = t.job /\ u.run = t.run /\ u.after = t.after
    BY DEF t
<1>6. \A r \in Runs : Owns(u, r) <=> Owns(t, r)
    BY <1>2, <1>4, <1>5 DEF Owns, Inside, InTxn
<1>7. ASSUME NEW r \in Runs, r = u.run PROVE Owns(t, r) \/ lease[r] # "held"
    <2>1. CASE u.job \in {"begin", "finalize", "incomplete"}
        BY <1>2, <1>5, <1>7, <2>1 DEF Owns
    <2>2. CASE u.job = "interrupt"
        BY <1>1, <1>2, <1>5, <1>7, <2>2 DEF WriterInv, t
    <2>3. CASE u.job = "open"
        BY <1>1, <1>7, <2>3 DEF TxnInv
    <2> QED BY <2>1, <2>2, <2>3 DEF Txns
<1>8. Frame(p)
    <2>1. \A r \in Runs : Owns(proc'[p], r) => Owns(proc[p], r) \/ r \notin begun
        BY <1>3, <1>6 DEF t
    <2>2. ASSUME NEW r \in Runs
          PROVE  /\ lease'[r] = "held" => lease[r] = "held" \/ lock = p
                 /\ lease[r] = "held" => lease'[r] = "held" \/ Owns(proc[p], r)
                 /\ view'.attempts[r] # view.attempts[r] =>
                       Owns(proc[p], r) \/ lease[r] # "held" \/ r \notin Active(view)
                 /\ r \in tmp => r \in tmp' \/ Owns(proc[p], r) \/ lease[r] # "held"
        BY <1>7 DEF t
    <2> QED BY <1>3, <2>1, <2>2 DEF Frame
<1>9. u.job = "interrupt" => lease'[u.run] # "held"
    <2>1. u.job = "interrupt" => lease[u.run] # "held" /\ u.run \in Runs
        BY <1>1, <1>2, <1>5 DEF WriterInv, t, TxnInv, Txns
    <2> QED BY <2>1
<1>10. /\ u.job # "open" => acked'[u.run] = None
       /\ u.job = "interrupt" /\ u.after.job = "begin" => acked'[u.after.run] = None
    <2>1. /\ u.job # "open" => acked[u.run] = None /\ u.run \in Runs
          /\ u.job = "interrupt" /\ u.after.job = "begin" =>
               acked[u.after.run] = None /\ u.after.run \in Runs
        BY <1>1, <1>2, <1>5 DEF WriterInv, t, TxnInv, Txns, Outer
    <2> QED BY <2>1
<1>11. \A r \in Runs : Owns(u, r) => r \in begun'
    BY <1>1, <1>6 DEF WriterInv, t
<1>12. WriterInv(p)'
    <2>1. u.at \notin {"executing", "staged"}
        BY DEF Inside
    <2> QED BY <1>3, <1>9, <1>10, <1>11, <2>1 DEF WriterInv
<1> QED BY <1>8, <1>12

\* The facts a step of the holder starts from.
LEMMA HolderFacts ==
    ASSUME StoreInv, NEW p \in Writers, lock = p
    PROVE  /\ WriterInv(p) /\ proc[p] \in Txns /\ proc[p].at \in Inside /\ TxnInv(proc[p])
           /\ proc[p].job # "open" => proc[p].run \in Runs
           /\ proc \in [Writers -> Procs] /\ Types /\ p # Nobody /\ Nobody \notin Runs
           /\ ~Protected(proc[p]) \/ lease[proc[p].run] = "held"
<1>1. WriterInv(p) /\ proc[p] \in Procs /\ Types /\ p # Nobody /\ Nobody \notin Runs
    BY NobodyAssumption DEF StoreInv, Types
<1>2. proc[p].at \in Inside /\ InTxn(proc[p]) /\ TxnInv(proc[p])
    BY <1>1 DEF WriterInv, InTxn
<1>3. proc[p] \in Txns
    BY <1>1, <1>2, ProcMeaning
<1> QED BY <1>1, <1>2, <1>3 DEF WriterInv, Types, TxnInv, Txns

-----------------------------------------------------------------------------
(***************************************************************************)
(* Steps of the holder.                                                    *)
(***************************************************************************)

\* cleanup_unreferenced_objects_locked() keeps the indices.
LEMMA CleanedMeaning ==
    ASSUME NEW v \in Stores, disk \in Stores
    PROVE  /\ Cleaned(v) \in Stores /\ Cleaned(v).attempts = v.attempts
           /\ Cleaned(v).objects = v.objects \cap Referenced(v, {})
           /\ CleanedDisk(v) \in SUBSET Objects
<1>1. /\ Cleaned(v) \in Stores /\ Cleaned(v).attempts = v.attempts
      /\ Cleaned(v).objects = v.objects \cap Referenced(v, {})
    BY DEF Cleaned, Stores
<1>2. Cleaned(v).objects \subseteq Objects /\ disk.objects \subseteq Objects
    BY <1>1 DEF Stores
<1> QED BY <1>1, <1>2 DEF CleanedDisk

LEMMA PruneDoneInv ==
    ASSUME StoreInv, NEW p \in Writers, PruneDone(p)
    PROVE  StoreInv'
<1> DEFINE t == proc[p]
           place == CASE t.job = "open" -> "clean" [] t.job = "begin" -> "lease" [] OTHER -> "publish"
           u == [t EXCEPT !.at = place]
<1>1. /\ WriterInv(p) /\ t \in Txns /\ TxnInv(t) /\ t.at = "prune" /\ lock = p
      /\ proc \in [Writers -> Procs] /\ Types
    BY HolderFacts DEF PruneDone, Holds, At
<1>2. proc' = [proc EXCEPT ![p] = u] /\ UNCHANGED <<view, disk, lease, lock, tmp, begun, acked, faults>>
    BY <1>1 DEF PruneDone, Goto
<1>3. /\ u \in Txns /\ u.at = place /\ u.at \in {"clean", "lease", "publish"}
      /\ u.job = t.job /\ u.run = t.run /\ u.after = t.after /\ u.objs = t.objs /\ u.last = t.last
      /\ u.todo = t.todo
    BY <1>1 DEF Txns, Inside
<1>4. TxnInv(u)
    BY <1>1, <1>3 DEF TxnInv, Txns
<1>5. Protected(u) => lease[u.run] = "held"
    BY <1>1, <1>3 DEF Protected, WriterInv, InTxn, Inside
<1> HIDE DEF u, t, place
<1>6. Types'
    BY <1>1, <1>2, <1>3 DEF Types, Procs
<1>7. Frame(p) /\ WriterInv(p)'
    <2>1. u.at \in Inside /\ u.at # "indexed"
        BY <1>3 DEF Inside
    <2>2. u.job = proc[p].job /\ u.run = proc[p].run /\ u.after = proc[p].after
        BY <1>3 DEF t
    <2> QED BY <1>1, <1>2, <1>3, <1>4, <1>5, <1>6, <2>1, <2>2, HolderMove
<1>8. ReportInv'
    BY <1>2, ReportSame
<1> QED BY <1>6, <1>7, <1>8, StepInv

\* The lowest sequence of a set of indices.
LEMMA OldestMeaning ==
    ASSUME view \in Stores, NEW E \in SUBSET Indexed(view), E # {}
    PROVE  Oldest(view, E) \in E
<1> DEFINE R == OpToRel(<, Nat)
           S == {view.attempts[z].seq : z \in E}
<1>1. \A x \in E : view.attempts[x].seq \in Nat
    BY DEF Stores, Entries, Indexed, None
<1>2. S \subseteq Nat /\ S # {}
    BY <1>1
<1>3. PICK n \in S : \A m \in S : ~(<<m, n>> \in R)
    BY <1>2, NatLessThanWellFounded, WFMin
<1>4. \A m \in S : ~(m < n)
    BY <1>2, <1>3 DEF OpToRel
<1>5. PICK x \in E : n = view.attempts[x].seq
    OBVIOUS
<1>6. \A y \in E : view.attempts[y].seq \in S
    OBVIOUS
<1> HIDE DEF S
<1>7. \A y \in E : view.attempts[x].seq <= view.attempts[y].seq
    BY <1>1, <1>4, <1>5, <1>6
<1> QED BY <1>7 DEF Oldest

LEMMA EvictInv ==
    ASSUME StoreInv, NEW p \in Writers, Evict(p)
    PROVE  StoreInv'
<1> DEFINE t == proc[p]
           u == [t EXCEPT !.at = "evicted"]
           r == Oldest(view, Evictable(p))
<1>1. /\ WriterInv(p) /\ t \in Txns /\ TxnInv(t) /\ t.at = "prune" /\ lock = p
      /\ proc \in [Writers -> Procs] /\ Types
    BY HolderFacts DEF Evict, Holds, At
<1>2. /\ proc' = [proc EXCEPT ![p] = u] /\ UNCHANGED <<disk, lease, lock, tmp, begun, faults>>
      /\ view' = [view EXCEPT !.attempts[r] = None] /\ acked' = [acked EXCEPT ![r] = None]
    BY <1>1 DEF Evict, Goto
<1>3. /\ u \in Txns /\ u.at = "evicted" /\ u.seq = t.seq
      /\ u.job = t.job /\ u.run = t.run /\ u.after = t.after /\ u.objs = t.objs /\ u.last = t.last
      /\ u.todo = t.todo
    BY <1>1 DEF Txns, Inside
<1>4. TxnInv(u)
    BY <1>1, <1>3 DEF TxnInv
<1>5. Protected(u) => lease[u.run] = "held"
    BY <1>1, <1>3 DEF Protected, WriterInv, InTxn, Inside
<1> HIDE DEF u, t, r
<1>6. /\ view' \in Stores /\ \A x \in Runs : view'.attempts[x] = IF x = r THEN None ELSE view.attempts[x]
      /\ acked' \in [Runs -> Entries]
      /\ \A x \in Runs : acked'[x] = IF x = r THEN None ELSE acked[x]
    BY <1>1, <1>2 DEF Types, Stores, Entries
<1>7. Types'
    BY <1>1, <1>2, <1>3, <1>6 DEF Types, Procs
<1>8. r \notin Active(view)
    <2>1. Evictable(p) # {} /\ Evictable(p) \subseteq Indexed(view) \ Active(view)
        BY DEF Evict, Evictable
    <2>2. Oldest(view, Evictable(p)) \in Evictable(p)
        BY <1>1, <2>1, OldestMeaning DEF Types
    <2>3. r \in Evictable(p)
        BY <2>2 DEF r
    <2> QED BY <2>1, <2>3
<1>9. Frame(p) /\ WriterInv(p)'
    <2>1. u.at \in Inside /\ u.at # "indexed"
        BY <1>3 DEF Inside
    <2>2. u.job = proc[p].job /\ u.run = proc[p].run /\ u.after = proc[p].after
        BY <1>3 DEF t
    <2>3. \A x \in Runs :
              /\ lease'[x] = lease[x] \/ (u.job = "begin" /\ x = u.run /\ lease'[x] = "held")
              /\ x \in tmp => x \in tmp' \/ x = u.run
              /\ view'.attempts[x] # view.attempts[x] => x = u.run \/ x \notin Active(view)
              /\ acked'[x] \in {acked[x], None}
        BY <1>2, <1>6, <1>8
    <2>4. lock = p /\ lock' = p /\ begun' = begun /\ lease' = lease
        BY <1>1, <1>2
    <2> HIDE DEF Types
    <2> QED BY <1>2, <1>3, <1>4, <1>5, <1>7, <2>1, <2>2, <2>3, <2>4, HolderMove
<1>10. ReportInv'
    BY <1>2, <1>6 DEF StoreInv, ReportInv, ReportedIsKept
<1> QED BY <1>7, <1>9, <1>10, StepInv

LEMMA EvictSyncInv ==
    ASSUME StoreInv, NEW p \in Writers, EvictSync(p)
    PROVE  StoreInv'
<1> DEFINE t == proc[p]
           u == [t EXCEPT !.at = "prune"]
<1>1. /\ WriterInv(p) /\ t \in Txns /\ TxnInv(t) /\ t.at = "evicted" /\ lock = p
      /\ proc \in [Writers -> Procs] /\ Types
    BY HolderFacts DEF EvictSync, Holds, At
<1>2. /\ proc' = [proc EXCEPT ![p] = u] /\ UNCHANGED <<lease, lock, tmp, begun, acked, faults>>
      /\ disk' = [disk EXCEPT !.attempts = view.attempts, !.objects = CleanedDisk(view)]
      /\ view' = Cleaned(view)
    BY <1>1 DEF EvictSync, Goto
<1>3. /\ u \in Txns /\ u.at = "prune"
      /\ u.job = t.job /\ u.run = t.run /\ u.after = t.after /\ u.objs = t.objs /\ u.last = t.last
      /\ u.todo = t.todo
    BY <1>1 DEF Txns, Inside
<1>4. TxnInv(u)
    BY <1>1, <1>3 DEF TxnInv
<1>5. Protected(u) => lease[u.run] = "held"
    BY <1>1, <1>3 DEF Protected, WriterInv, InTxn, Inside
<1> HIDE DEF u, t
<1>6. /\ view' \in Stores /\ view'.attempts = view.attempts /\ disk' \in Stores
      /\ disk'.attempts = view.attempts
    BY <1>1, <1>2, CleanedMeaning DEF Types, Stores
<1>7. Types'
    BY <1>1, <1>2, <1>3, <1>6 DEF Types, Procs
<1>8. Frame(p) /\ WriterInv(p)'
    <2>1. u.at \in Inside /\ u.at # "indexed"
        BY <1>3 DEF Inside
    <2>2. u.job = proc[p].job /\ u.run = proc[p].run /\ u.after = proc[p].after
        BY <1>3 DEF t
    <2> QED BY <1>1, <1>2, <1>3, <1>4, <1>5, <1>6, <1>7, <2>1, <2>2, HolderMove
<1>9. ReportInv'
    BY <1>2, <1>6 DEF StoreInv, ReportInv, ReportedIsKept
<1> QED BY <1>7, <1>8, <1>9, StepInv

LEMMA CreateLeaseInv ==
    ASSUME StoreInv, NEW p \in Writers, CreateLease(p)
    PROVE  StoreInv'
<1> DEFINE t == proc[p]
           u == [t EXCEPT !.at = "publish"]
<1>1. /\ WriterInv(p) /\ t \in Txns /\ TxnInv(t) /\ t.at = "lease" /\ lock = p
      /\ proc \in [Writers -> Procs] /\ Types /\ t.job = "begin" /\ t.run \in Runs
    BY HolderFacts DEF CreateLease, Holds, At, TxnInv
<1>2. /\ proc' = [proc EXCEPT ![p] = u] /\ UNCHANGED <<view, disk, lock, tmp, begun, acked, faults>>
      /\ lease' = [lease EXCEPT ![t.run] = "held"]
    BY <1>1 DEF CreateLease, Goto
<1>3. /\ u \in Txns /\ u.at = "publish"
      /\ u.job = t.job /\ u.run = t.run /\ u.after = t.after /\ u.objs = t.objs /\ u.last = t.last
      /\ u.todo = t.todo
    BY <1>1 DEF Txns, Inside
<1>4. TxnInv(u)
    BY <1>1, <1>3 DEF TxnInv
<1> HIDE DEF u, t
<1>5. Types' /\ lease'[t.run] = "held" /\ \A r \in Runs \ {t.run} : lease'[r] = lease[r]
    BY <1>1, <1>2, <1>3 DEF Types, Procs
<1>6. Frame(p) /\ WriterInv(p)'
    <2>1. u.at \in Inside /\ u.at # "indexed"
        BY <1>3 DEF Inside
    <2>2. u.job = proc[p].job /\ u.run = proc[p].run /\ u.after = proc[p].after
        BY <1>3 DEF t
    <2> QED BY <1>1, <1>2, <1>3, <1>4, <1>5, <2>1, <2>2, HolderMove
<1>7. ReportInv'
    BY <1>2, ReportSame
<1> QED BY <1>5, <1>6, <1>7, StepInv

LEMMA PublishInv ==
    ASSUME StoreInv, NEW p \in Writers, NEW o \in proc[p].todo, Publish(p, o)
    PROVE  StoreInv'
<1> DEFINE t == proc[p]
           present == o \in view.objects /\ o[2] = "plan"
           u == IF present THEN [t EXCEPT !.todo = @ \ {o}]
                ELSE [t EXCEPT !.todo = @ \ {o}, !.last = o, !.at = "published"]
<1>1. /\ WriterInv(p) /\ t \in Txns /\ TxnInv(t) /\ t.at = "publish" /\ lock = p
      /\ proc \in [Writers -> Procs] /\ Types
    BY HolderFacts DEF Publish, Holds, At
<1>2. o \in Objects /\ t.todo \subseteq Objects
    BY <1>1 DEF Txns
<1>3. /\ proc' = [proc EXCEPT ![p] = u] /\ UNCHANGED <<disk, lease, lock, tmp, begun, acked, faults>>
      /\ view' = view \/ view' = [view EXCEPT !.objects = @ \cup {o}]
    BY <1>1 DEF Publish
<1>4. /\ u \in Txns /\ u.at \in {"publish", "published"} /\ (u.at = "published" => u.last = o)
      /\ u.job = t.job /\ u.run = t.run /\ u.after = t.after /\ u.objs = t.objs
    <2>1. CASE present
        BY <1>1, <1>2, <2>1 DEF Txns, Inside
    <2>2. CASE ~present
        BY <1>1, <1>2, <2>2 DEF Txns, Inside
    <2> QED BY <2>1, <2>2
<1>5. o # None
    BY <1>2 DEF Objects, None
<1> HIDE DEF u, t
<1>6. TxnInv(u)
    BY <1>1, <1>4, <1>5 DEF TxnInv
<1>7. Protected(u) => lease[u.run] = "held"
    BY <1>1, <1>4 DEF Protected, WriterInv, InTxn, Inside, t
<1>8. view' \in Stores /\ view'.attempts = view.attempts
    BY <1>1, <1>2, <1>3 DEF Types, Stores
<1>9. Types'
    BY <1>1, <1>3, <1>4, <1>8 DEF Types, Procs
<1>10. Frame(p) /\ WriterInv(p)'
    <2>1. u.at \in Inside /\ u.at # "indexed"
        BY <1>4 DEF Inside
    <2>2. u.job = proc[p].job /\ u.run = proc[p].run /\ u.after = proc[p].after
        BY <1>4 DEF t
    <2> QED BY <1>1, <1>3, <1>4, <1>6, <1>7, <1>8, <1>9, <2>1, <2>2, HolderMove
<1>11. ReportInv'
    BY <1>3, <1>8, ReportSame
<1> QED BY <1>9, <1>10, <1>11, StepInv

LEMMA PublishSyncInv ==
    ASSUME StoreInv, NEW p \in Writers, PublishSync(p)
    PROVE  StoreInv'
<1> DEFINE t == proc[p]
           u == [t EXCEPT !.at = "publish"]
<1>1. /\ WriterInv(p) /\ t \in Txns /\ TxnInv(t) /\ t.at = "published" /\ lock = p
      /\ proc \in [Writers -> Procs] /\ Types
    BY HolderFacts DEF PublishSync, Holds, At
<1>2. /\ proc' = [proc EXCEPT ![p] = u] /\ UNCHANGED <<view, lease, lock, tmp, begun, acked, faults>>
      /\ disk' = [disk EXCEPT !.objects = SyncedObjects(t.last)]
    BY <1>1 DEF PublishSync, Goto
<1>3. /\ u \in Txns /\ u.at = "publish"
      /\ u.job = t.job /\ u.run = t.run /\ u.after = t.after /\ u.objs = t.objs /\ u.last = t.last
      /\ u.todo = t.todo
    BY <1>1 DEF Txns, Inside
<1>4. TxnInv(u)
    BY <1>1, <1>3 DEF TxnInv
<1>5. Protected(u) => lease[u.run] = "held"
    BY <1>1, <1>3 DEF Protected, WriterInv, InTxn, Inside
<1> HIDE DEF u, t
<1>6. disk' \in Stores /\ disk'.attempts = disk.attempts
    <2>1. SyncedObjects(t.last) \in SUBSET Objects
        BY <1>1 DEF SyncedObjects, Beside, Types, Stores
    <2> QED BY <1>1, <1>2, <2>1 DEF Types, Stores
<1>7. Types'
    BY <1>1, <1>2, <1>3, <1>6 DEF Types, Procs
<1>8. Frame(p) /\ WriterInv(p)'
    <2>1. u.at \in Inside /\ u.at # "indexed"
        BY <1>3 DEF Inside
    <2>2. u.job = proc[p].job /\ u.run = proc[p].run /\ u.after = proc[p].after
        BY <1>3 DEF t
    <2> QED BY <1>1, <1>2, <1>3, <1>4, <1>5, <1>7, <2>1, <2>2, HolderMove
<1>9. ReportInv'
    BY <1>2, <1>6, ReportSame
<1> QED BY <1>7, <1>8, <1>9, StepInv

\* The planner snapshot of a run.
LEMMA SnapshotType ==
    ASSUME NEW r \in Runs
    PROVE  Snapshot(r) \in SUBSET Objects
BY RunStoreAssumption DEF Snapshot, Object, Objects, Kinds

\* The entry a transaction writes.
LEMMA EntryType ==
    ASSUME NEW t \in Txns, TxnInv(t), t.job # "open"
    PROVE  /\ Entry(t) \in Entries /\ Entry(t) # None /\ Entry(t).objs = t.objs
           /\ t.job = "begin" => Entry(t) = Running(t.run, t.seq)
           /\ t.job # "begin" => Entry(t).state = "terminal"
<1>1. t.run \in Runs /\ t.seq \in Nat /\ t.objs \in SUBSET Objects
    BY DEF Txns, TxnInv
<1>2. CASE t.job = "begin"
    <2>1. Entry(t) = [state |-> "running", seq |-> t.seq, objs |-> t.objs]
        BY <1>2 DEF Entry, Running, TxnInv
    <2> QED BY <1>1, <1>2, <2>1 DEF Entries, None, Entry
<1>3. CASE t.job # "begin"
    <2>1. Entry(t) = [state |-> "terminal", seq |-> t.seq, objs |-> t.objs]
        BY <1>3 DEF Entry, Terminal
    <2> QED BY <1>1, <1>3, <2>1 DEF Entries, None
<1> QED BY <1>2, <1>3

LEMMA WriteIndexInv ==
    ASSUME StoreInv, NEW p \in Writers, WriteIndex(p)
    PROVE  StoreInv'
<1> DEFINE t == proc[p]
           u == [t EXCEPT !.at = "indexed"]
<1>1. /\ WriterInv(p) /\ t \in Txns /\ TxnInv(t) /\ t.at = "publish" /\ lock = p
      /\ proc \in [Writers -> Procs] /\ Types /\ t.job # "open" /\ t.run \in Runs
    BY HolderFacts DEF WriteIndex, Holds, At, TxnInv
<1>2. /\ proc' = [proc EXCEPT ![p] = u] /\ UNCHANGED <<lease, lock, begun, acked, faults>>
      /\ view' = [view EXCEPT !.seq = Sequence(t), !.attempts[t.run] = Entry(t)]
      /\ disk' = [disk EXCEPT !.seq = Sequence(t)] /\ tmp' = tmp \ {t.run}
    BY <1>1 DEF WriteIndex, Goto
<1>3. /\ u \in Txns /\ u.at = "indexed" /\ u.seq = t.seq
      /\ u.job = t.job /\ u.run = t.run /\ u.after = t.after /\ u.objs = t.objs /\ u.last = t.last
      /\ u.todo = t.todo
    BY <1>1 DEF Txns, Inside
<1>4. TxnInv(u) /\ Entry(u) = Entry(t)
    BY <1>1, <1>3 DEF TxnInv, Entry
<1>5. Protected(u) => lease[u.run] = "held"
    BY <1>1, <1>3 DEF Protected, WriterInv, InTxn, Inside
<1>6. Sequence(t) \in Nat /\ acked[t.run] = None
    BY <1>1 DEF Sequence, Txns, Types, Stores, WriterInv, Inside
<1> HIDE DEF u, t
<1>7. /\ view' \in Stores /\ disk' \in Stores /\ disk'.attempts = disk.attempts
      /\ \A r \in Runs : view'.attempts[r] = IF r = t.run THEN Entry(t) ELSE view.attempts[r]
    BY <1>1, <1>2, <1>6, EntryType DEF Types, Stores
<1>8. Types'
    BY <1>1, <1>2, <1>3, <1>7 DEF Types, Procs
<1>9. Frame(p) /\ WriterInv(p)'
    <2>1. u.at \in Inside /\ view'.attempts[u.run] = Entry(u)
        BY <1>1, <1>3, <1>4, <1>7 DEF Inside
    <2>2. u.job = proc[p].job /\ u.run = proc[p].run /\ u.after = proc[p].after
        BY <1>3 DEF t
    <2>3. \A x \in Runs :
              /\ lease'[x] = lease[x] \/ (u.job = "begin" /\ x = u.run /\ lease'[x] = "held")
              /\ x \in tmp => x \in tmp' \/ x = u.run
              /\ view'.attempts[x] # view.attempts[x] => x = u.run \/ x \notin Active(view)
              /\ acked'[x] \in {acked[x], None}
        BY <1>2, <1>3, <1>7
    <2>4. lock = p /\ lock' = p /\ begun' = begun /\ lease' = lease
        BY <1>1, <1>2
    <2> QED BY <1>2, <1>3, <1>4, <1>5, <1>8, <2>1, <2>2, <2>3, <2>4, HolderMove
<1>10. ReportInv'
    BY <1>2, <1>6, <1>7 DEF StoreInv, ReportInv, ReportedIsKept
<1> QED BY <1>8, <1>9, <1>10, StepInv

-----------------------------------------------------------------------------
(***************************************************************************)
(* Steps that end outside the lock.                                        *)
(***************************************************************************)

LEMMA OutMove ==
    ASSUME StoreInv, Types', NEW p \in Writers, begun' = begun,
           \/ lock # p /\ lock' = lock /\ acked' = acked
           \/ lock = p /\ lock' = Nobody,
           NEW u \in Procs, u.at \notin Inside, proc' = [proc EXCEPT ![p] = u],
           InTxn(u) => TxnInv(u), \A r \in Runs : Owns(u, r) => Owns(proc[p], r),
           Protected(u) => lease'[u.run] = "held",
           u.at = "executing" \/ (u.at = "staged" /\ u.job = "finalize") =>
              view'.attempts[u.run] = Running(u.run, u.seq),
           u.at = "staged" => u.run \in tmp',
           view'.attempts = view.attempts,
           \A r \in Runs :
              /\ lease'[r] = lease[r] \/ (Owns(proc[p], r) /\ lease'[r] # "held")
              /\ r \in tmp => r \in tmp' \/ Owns(proc[p], r)
    PROVE  Frame(p) /\ WriterInv(p)'
<1>1. WriterInv(p) /\ proc \in [Writers -> Procs] /\ p # Nobody
    BY NobodyAssumption DEF StoreInv, Types
<1>2. proc'[p] = u /\ \A q \in Writers \ {p} : proc'[q] = proc[q]
    BY <1>1
<1>3. Frame(p)
    BY <1>2 DEF Frame
<1>4. lock' # p /\ u.at # "indexed" /\ \A r \in Runs : Owns(u, r) => r \in begun'
    BY <1>1 DEF WriterInv, Inside
<1>5. WriterInv(p)'
    BY <1>2, <1>4 DEF WriterInv
<1> QED BY <1>3, <1>5

\* What an error makes of the writer.
LEMMA FailsInv ==
    ASSUME StoreInv, NEW p \in Writers, lock = p,
           proc[p].at \in {"reconcile", "prune", "evicted", "published", "indexed"},
           Fails(p), UNCHANGED <<view, disk, begun, acked>>, faults' \in Nat
    PROVE  StoreInv'
<1> DEFINE t == proc[p]
           job == IF t.job = "interrupt" THEN t.after.job ELSE t.job
           u == CASE job = "open" -> Idle
                  [] job = "begin" -> Ready
                  [] job = "finalize" -> [at |-> "failed", run |-> t.run, seq |-> t.seq]
                  [] job = "incomplete" -> [at |-> "release", run |-> t.run]
<1>1. /\ WriterInv(p) /\ t \in Txns /\ TxnInv(t) /\ t.at \in Inside /\ InTxn(t)
      /\ proc \in [Writers -> Procs] /\ Types /\ (t.job # "open" => t.run \in Runs)
    BY HolderFacts DEF InTxn
<1>2. /\ proc' = [proc EXCEPT ![p] = u] /\ lock' = Nobody
      /\ lease' = IF t.job = "begin" THEN [lease EXCEPT ![t.run] = "none"] ELSE lease
      /\ tmp' = IF t.job \in {"finalize", "incomplete"} THEN tmp \ {t.run} ELSE tmp
    BY DEF Fails, Leave
<1>3. job \in {"open", "begin", "finalize", "incomplete"}
      /\ (job \in {"finalize", "incomplete"} => t.job = job)
    BY <1>1 DEF Txns, Outer, TxnInv
<1>4. /\ u \in Procs /\ u.at \in {"off", "ready", "failed", "release"}
      /\ u.at = "failed" => t.job = "finalize" /\ u.run = t.run
      /\ u.at = "release" => t.job = "incomplete" /\ u.run = t.run
    <2>1. CASE job \in {"open", "begin"}
        BY <2>1 DEF Idle, Ready, Procs
    <2>2. CASE job = "finalize"
        BY <1>1, <1>3, <2>2 DEF Procs, Txns
    <2>3. CASE job = "incomplete"
        BY <1>1, <1>3, <2>3 DEF Procs, Txns
    <2> QED BY <1>3, <2>1, <2>2, <2>3
<1> HIDE DEF u, t, job
<1>5. Types'
    BY <1>1, <1>2, <1>4 DEF Types, Procs
<1>6. u.at \notin Inside \cup {"staged", "executing"} /\ ~InTxn(u)
    BY <1>4 DEF Inside, InTxn
<1>7. \A r \in Runs : Owns(u, r) => Owns(t, r)
    BY <1>1, <1>4, <1>6 DEF Owns
<1>8. Protected(u) => lease'[u.run] = "held"
    <2>1. Protected(u) => u.at = "failed"
        BY <1>4, <1>6 DEF Protected, Inside
    <2>2. t.job = "finalize" => lease[t.run] = "held"
        BY <1>1 DEF WriterInv, Protected, t
    <2> QED BY <1>2, <1>4, <2>1, <2>2
<1>9. \A r \in Runs :
        /\ lease'[r] = lease[r] \/ (Owns(t, r) /\ lease'[r] # "held")
        /\ r \in tmp => r \in tmp' \/ Owns(t, r)
    BY <1>1, <1>2 DEF Owns, Types
<1>10. Frame(p) /\ WriterInv(p)'
    BY <1>2, <1>4, <1>5, <1>6, <1>7, <1>8, <1>9, OutMove DEF t
<1>11. ReportInv'
    BY ReportSame
<1> QED BY <1>5, <1>10, <1>11, StepInv

LEMMA CleanUpInv ==
    ASSUME StoreInv, NEW p \in Writers, CleanUp(p)
    PROVE  StoreInv'
<1>1. proc \in [Writers -> Procs] /\ Types /\ lock = p
    BY HolderFacts DEF CleanUp, Holds
<1>2. /\ proc' = [proc EXCEPT ![p] = Ready] /\ lock' = Nobody /\ view' = Cleaned(view)
      /\ disk' = [disk EXCEPT !.objects = CleanedDisk(view)]
      /\ UNCHANGED <<lease, tmp, begun, acked, faults>>
    BY DEF CleanUp, Leave
<1>3. /\ Ready \in Procs /\ Ready.at = "ready" /\ Ready.at \notin Inside /\ ~InTxn(Ready)
      /\ ~Protected(Ready) /\ \A r \in Runs : ~Owns(Ready, r)
    BY DEF Ready, Procs, Inside, InTxn, Protected, Owns
<1>4. view' \in Stores /\ disk' \in Stores /\ view'.attempts = view.attempts /\ disk'.attempts = disk.attempts
    BY <1>1, <1>2, CleanedMeaning DEF Types, Stores
<1> DEFINE u == Ready
<1>5. u = Ready
    OBVIOUS
<1> HIDE DEF u
<1>6. Types'
    BY <1>1, <1>2, <1>3, <1>4 DEF Types
<1>7. Frame(p) /\ WriterInv(p)'
    BY <1>1, <1>2, <1>3, <1>4, <1>5, <1>6, OutMove
<1>8. ReportInv'
    BY <1>2, <1>4, ReportSame
<1> QED BY <1>6, <1>7, <1>8, StepInv

\* attempts/ is synced, and a finalization cleans up.
LEMMA IndexSyncStores ==
    ASSUME StoreInv, NEW p \in Writers, IndexSync(p)
    PROVE  /\ view' \in Stores /\ disk' \in Stores /\ view'.attempts = view.attempts
           /\ disk'.attempts = view.attempts
<1>1. view \in Stores /\ disk \in Stores
    BY DEF StoreInv, Types
<1>2. /\ view' = Cleaned(view) \/ view' = view
      /\ disk' = IndexedDisk(proc[p])
    BY DEF IndexSync
<1>3. view' \in Stores /\ view'.attempts = view.attempts
    BY <1>1, <1>2, CleanedMeaning
<1>4. disk' \in Stores /\ disk'.attempts = view.attempts
    <2>1. CleanedDisk(view) \in SUBSET Objects
        BY <1>1, CleanedMeaning
    <2> QED BY <1>1, <1>2, <2>1 DEF IndexedDisk, Stores
<1> QED BY <1>3, <1>4

LEMMA IndexSyncInv ==
    ASSUME StoreInv, NEW p \in Writers, IndexSync(p)
    PROVE  StoreInv'
<1> DEFINE t == proc[p]
<1>1. /\ WriterInv(p) /\ t \in Txns /\ TxnInv(t) /\ t.at = "indexed" /\ lock = p /\ InTxn(t)
      /\ proc \in [Writers -> Procs] /\ Types /\ t.job # "open" /\ t.run \in Runs
    BY HolderFacts DEF IndexSync, Holds, At, TxnInv, InTxn
<1>2. /\ view' \in Stores /\ disk' \in Stores /\ view'.attempts = view.attempts
      /\ disk'.attempts = view.attempts /\ UNCHANGED <<tmp, begun, faults>>
    BY IndexSyncStores DEF IndexSync
<1>3. view.attempts[t.run] = Entry(t) /\ acked[t.run] = None
    BY <1>1 DEF WriterInv, Inside
<1>4. Entry(t) \in Entries
    BY <1>1, EntryType
<1> HIDE DEF t
<1>5. CASE t.job = "begin"
    <2> DEFINE u == Executing(t.run, t.seq)
    <2>1. proc' = [proc EXCEPT ![p] = u] /\ lock' = Nobody /\ UNCHANGED <<lease, acked>>
        BY <1>5 DEF IndexSync, Leave, t
    <2>2. u \in Procs /\ u.at = "executing" /\ u.run = t.run /\ u.seq = t.seq
        BY <1>1 DEF Executing, Procs, Txns
    <2> HIDE DEF u
    <2>3. Types'
        BY <1>1, <1>2, <2>1, <2>2 DEF Types
    <2>4. u.at \notin Inside \cup {"staged"} /\ ~InTxn(u)
        BY <2>2 DEF Inside, InTxn
    <2>5. \A r \in Runs : Owns(u, r) => Owns(proc[p], r)
        BY <1>1, <1>5, <2>2, <2>4 DEF Owns, t
    <2>6. Protected(u) => lease'[u.run] = "held"
        BY <1>1, <1>5, <2>1, <2>2 DEF WriterInv, Protected, t
    <2>7. view'.attempts[u.run] = Running(u.run, u.seq)
        BY <1>1, <1>2, <1>3, <1>5, <2>2, EntryType
    <2>8. Frame(p) /\ WriterInv(p)'
        BY <1>1, <1>2, <2>1, <2>2, <2>3, <2>4, <2>5, <2>6, <2>7, OutMove
    <2>9. ReportInv'
        BY <1>2, <2>1 DEF StoreInv, ReportInv, ReportedIsKept
    <2> QED BY <2>3, <2>8, <2>9, StepInv
<1>6. CASE t.job \in {"finalize", "incomplete"}
    <2> DEFINE u == [at |-> "release", run |-> t.run]
    <2>1. /\ proc' = [proc EXCEPT ![p] = u] /\ lock' = Nobody /\ lease' = lease
          /\ acked' = [acked EXCEPT ![t.run] = IF t.job = "finalize" THEN Entry(t) ELSE @]
        BY <1>6 DEF IndexSync, Leave, t
    <2>2. u \in Procs /\ u.at = "release" /\ u.run = t.run
        BY <1>1 DEF Procs
    <2> HIDE DEF u
    <2>3. Types' /\ \A r \in Runs : acked'[r] = IF r = t.run /\ t.job = "finalize" THEN Entry(t) ELSE acked[r]
        BY <1>1, <1>2, <1>4, <2>1, <2>2 DEF Types
    <2>4. u.at \notin Inside \cup {"staged", "executing"} /\ ~InTxn(u) /\ ~Protected(u)
        BY <2>2 DEF Inside, InTxn, Protected
    <2>5. \A r \in Runs : Owns(u, r) => Owns(proc[p], r)
        BY <1>1, <1>6, <2>2, <2>4 DEF Owns, t
    <2>6. Frame(p) /\ WriterInv(p)'
        BY <1>1, <1>2, <2>1, <2>2, <2>3, <2>4, <2>5, OutMove
    <2>7. ReportInv'
        <3>1. Entry(t).state = "terminal" /\ t.run \in begun
            BY <1>1, <1>6, EntryType DEF WriterInv, Owns, t
        <3> QED BY <1>2, <1>3, <2>3, <3>1 DEF StoreInv, ReportInv, ReportedIsKept
    <2> QED BY <2>3, <2>6, <2>7, StepInv
<1>7. CASE t.job = "interrupt"
    <2> DEFINE u == t.after
    <2>1. /\ proc' = [proc EXCEPT ![p] = u] /\ lease' = [lease EXCEPT ![t.run] = "none"]
          /\ UNCHANGED <<lock, acked>>
        BY <1>7 DEF IndexSync, t
    <2>2. u \in Outer /\ u \in Procs /\ u.at = "reconcile" /\ u.job \in {"open", "begin"}
        <3>1. u \in Outer
            BY <1>1, <1>7 DEF Txns, TxnInv
        <3> QED BY <3>1 DEF Outer, Procs, Txns, Inside
    <2> HIDE DEF u
    <2>3. Types' /\ \A r \in Runs : lease'[r] = IF r = t.run THEN "none" ELSE lease[r]
        BY <1>1, <1>2, <2>1, <2>2 DEF Types
    <2>4. proc'[p] = u /\ (\A q \in Writers \ {p} : proc'[q] = proc[q]) /\ lease[t.run] # "held"
        BY <1>1, <1>7, <2>1 DEF WriterInv, t, Inside
    <2>5. \A r \in Runs : Owns(u, r) => Owns(t, r)
        BY <1>1, <1>7, <2>2 DEF Owns, InTxn, Inside, u
    <2>6. Frame(p)
        BY <1>1, <1>2, <2>1, <2>3, <2>4, <2>5 DEF Frame, t
    <2>7. WriterInv(p)'
        <3>1. u.at \in Inside /\ InTxn(u) /\ ~Protected(u) /\ u.job # "interrupt"
            BY <2>2 DEF Inside, InTxn, Protected
        <3>2. u.job # "open" => acked[u.run] = None
            BY <1>1, <1>7, <2>2 DEF WriterInv, t, u, Inside
        <3>3. TxnInv(u)
            <4>1. u.last = None /\ u.after = None
                BY <2>2 DEF Outer
            <4>2. /\ u.job = "open" <=> u.run = Nobody
                  /\ u.job = "begin" => u.objs = Snapshot(u.run)
                  /\ u.todo = u.objs
                BY <1>1, <1>7 DEF TxnInv, u
            <4> QED BY <2>2, <4>1, <4>2 DEF TxnInv
        <3>4. \A r \in Runs : Owns(u, r) => r \in begun'
            BY <1>1, <1>2, <2>5 DEF WriterInv, t
        <3>5. u.at \notin {"executing", "staged", "indexed"} /\ lock' = p /\ acked' = acked
            BY <1>1, <2>1, <2>2
        <3> QED BY <2>4, <3>1, <3>2, <3>3, <3>4, <3>5 DEF WriterInv
    <2>8. ReportInv'
        BY <1>2, <2>1 DEF StoreInv, ReportInv, ReportedIsKept
    <2> QED BY <2>3, <2>6, <2>7, <2>8, StepInv
<1> QED BY <1>1, <1>5, <1>6, <1>7 DEF Txns

\* A process ends: the leases it locked fall free.
LEMMA CrashInv ==
    ASSUME StoreInv, NEW p \in Writers, Crash(p)
    PROVE  StoreInv'
<1> DEFINE t == proc[p]
           u == Idle
<1>1. /\ WriterInv(p) /\ t \in Procs /\ proc \in [Writers -> Procs] /\ Types
      /\ p # Nobody /\ Nobody \notin Runs
    BY NobodyAssumption DEF StoreInv, Types
<1>2. /\ proc' = [proc EXCEPT ![p] = u] /\ lock' = IF lock = p THEN Nobody ELSE lock
      /\ lease' = [r \in Runs |-> IF r \in Freed({p}) THEN "free" ELSE lease[r]]
      /\ faults' \in Nat /\ UNCHANGED <<view, disk, tmp, begun, acked>>
    BY <1>1 DEF Crash, Types
<1>3. /\ u \in Procs /\ u.at = "off" /\ u.at \notin Inside /\ ~InTxn(u)
      /\ ~Protected(u) /\ \A r \in Runs : ~Owns(u, r)
    BY DEF Idle, Procs, Inside, InTxn, Protected, Owns
<1>4. ASSUME NEW r \in Runs, r \in Freed({p}) PROVE Owns(t, r)
    <2>1. lease[r] = "held" /\ "run" \in DOMAIN t /\ t.run = r
        BY <1>4 DEF Freed
    <2>2. t.at \notin {"off", "ready"}
        <3>1. ASSUME t.at \in {"off", "ready"} PROVE FALSE
            <4>1. t \in [at : {"off", "ready"}]
                BY <1>1, <3>1, ProcMeaning
            <4> QED BY <2>1, <4>1
        <3> QED BY <3>1
    <2>3. CASE t.at \in {"executing", "failed", "release", "unlink"}
        BY <2>1, <2>3 DEF Owns
    <2>4. CASE InTxn(t)
        <3>1. TxnInv(t) /\ t \in Txns /\ (t.at \in Inside \/ t.at = "staged")
            BY <1>1, <2>4, ProcMeaning DEF WriterInv, InTxn
        <3>2. t.job # "open" /\ t.job # "interrupt"
            BY <1>1, <2>1, <3>1 DEF TxnInv, WriterInv
        <3> QED BY <2>1, <2>4, <3>1, <3>2 DEF Owns, Txns
    <2> QED BY <1>1, <2>2, <2>3, <2>4, ProcMeaning DEF Places, InTxn
<1> HIDE DEF u, t
<1>5. Types'
    BY <1>1, <1>2, <1>3 DEF Types
<1>6. Frame(p) /\ WriterInv(p)'
    <2>1. \A r \in Runs : /\ lease'[r] = lease[r] \/ (Owns(proc[p], r) /\ lease'[r] # "held")
                          /\ r \in tmp => r \in tmp' \/ Owns(proc[p], r)
        BY <1>2, <1>4 DEF t
    <2> QED BY <1>2, <1>3, <1>5, <2>1, OutMove
<1>7. ReportInv'
    BY <1>2, ReportSame
<1> QED BY <1>5, <1>6, <1>7, StepInv

\* Close, Drop, Unlock and Unlink.
LEMMA LeaseStepsInv ==
    ASSUME StoreInv, NEW p \in Writers, Close(p) \/ Drop(p) \/ Unlock(p) \/ Unlink(p)
    PROVE  StoreInv'
<1> DEFINE t == proc[p]
<1>1. WriterInv(p) /\ t \in Procs /\ proc \in [Writers -> Procs] /\ Types
    BY DEF StoreInv, Types
<1>2. UNCHANGED <<view, disk, lock, tmp, begun, acked, faults>>
    BY DEF Close, Drop, Unlock, Unlink
<1>3. t.at \in {"ready", "executing", "release", "unlink"}
    BY DEF Close, Drop, Unlock, Unlink, At
<1>4. lock # p
    BY <1>1, <1>3 DEF WriterInv, Inside
<1>5. PICK u \in Procs :
        /\ proc' = [proc EXCEPT ![p] = u] /\ u.at \in {"off", "ready", "unlink"}
        /\ u.at = "unlink" => u.run = t.run /\ t.at = "release"
    <2>1. CASE Close(p)
        <3>1. Idle \in Procs /\ Idle.at = "off" /\ proc' = [proc EXCEPT ![p] = Idle]
            BY <2>1 DEF Close, Idle, Procs
        <3> QED BY <3>1
    <2>2. CASE Drop(p) \/ Unlink(p)
        <3>1. Ready \in Procs /\ Ready.at = "ready" /\ proc' = [proc EXCEPT ![p] = Ready]
            BY <2>2 DEF Drop, Unlink, Ready, Procs
        <3> QED BY <3>1
    <2>3. CASE Unlock(p)
        <3> DEFINE v == [t EXCEPT !.at = "unlink"]
        <3>1. t \in [at : {"release", "unlink"}, run : Runs] /\ t.at = "release"
            BY <1>1, <2>3, ProcMeaning DEF Unlock, At
        <3>2. v \in Procs /\ v.at = "unlink" /\ v.run = t.run /\ proc' = [proc EXCEPT ![p] = v]
            BY <1>1, <2>3, <3>1 DEF Procs, Unlock, Goto
        <3> QED BY <3>1, <3>2
    <2> QED BY <2>1, <2>2, <2>3
<1>6. /\ u.at \notin Inside /\ ~InTxn(u) /\ ~Protected(u) /\ u.at \notin {"executing", "staged"}
      /\ \A r \in Runs : Owns(u, r) => Owns(t, r)
    BY <1>5 DEF Inside, InTxn, Protected, Owns
<1>7. /\ lease' \in [Runs -> {"none", "held", "free"}]
      /\ \A r \in Runs : lease'[r] = lease[r] \/ (Owns(t, r) /\ lease'[r] # "held")
    <2>1. CASE Close(p)
        BY <1>1, <2>1 DEF Close, Types
    <2>2. CASE Drop(p)
        BY <1>1, <2>2 DEF Drop, Types, Owns, At
    <2>3. CASE Unlock(p)
        BY <1>1, <2>3 DEF Unlock, Types, Owns, At
    <2>4. CASE Unlink(p)
        BY <1>1, <2>4 DEF Unlink, Types, Owns, At
    <2> QED BY <2>1, <2>2, <2>3, <2>4
<1> HIDE DEF t
<1>8. Types'
    BY <1>1, <1>2, <1>5, <1>7 DEF Types
<1>9. Frame(p) /\ WriterInv(p)'
    <2>1. \A r \in Runs : /\ lease'[r] = lease[r] \/ (Owns(proc[p], r) /\ lease'[r] # "held")
                          /\ r \in tmp => r \in tmp' \/ Owns(proc[p], r)
        BY <1>2, <1>7 DEF t
    <2>2. \A r \in Runs : Owns(u, r) => Owns(proc[p], r)
        BY <1>6 DEF t
    <2> QED BY <1>2, <1>4, <1>5, <1>6, <1>8, <2>1, <2>2, OutMove
<1>10. ReportInv'
    BY <1>2, ReportSame
<1> QED BY <1>8, <1>9, <1>10, StepInv

\* finalize_exact and finalize_incomplete stage their objects.
LEMMA StageInv ==
    ASSUME StoreInv, NEW p \in Writers, NEW objs \in SUBSET Objects, Stage(p, objs)
    PROVE  StoreInv'
<1> DEFINE t == proc[p]
           lost == {Object(t.run, "incomplete")}
           u == IF t.at = "executing" THEN Txn("finalize", "staged", t.run, t.seq, objs, None)
                ELSE Txn("incomplete", "staged", t.run, t.seq, lost, None)
<1>1. /\ WriterInv(p) /\ t \in Procs /\ proc \in [Writers -> Procs] /\ Types /\ Nobody \notin Runs
    BY NobodyAssumption DEF StoreInv, Types
<1>2. t.at \in {"executing", "failed"} /\ t.run \in Runs /\ t.seq \in Nat
    BY <1>1, ProcMeaning DEF Stage, At
<1>3. /\ proc' = [proc EXCEPT ![p] = u] /\ tmp' = tmp \cup {t.run} /\ lock # p
      /\ UNCHANGED <<view, disk, lease, lock, begun, acked, faults>>
    BY <1>1, <1>2 DEF Stage, At, WriterInv, Inside
<1>4. lost \in SUBSET Objects
    BY <1>2 DEF Object, Objects, Kinds
<1>5. /\ u \in Txns /\ u.at = "staged" /\ u.run = t.run /\ u.seq = t.seq /\ u.after = None
      /\ u.job \in {"finalize", "incomplete"} /\ (u.job = "finalize" => t.at = "executing")
      /\ u.todo = u.objs
    <2>1. CASE t.at = "executing"
        BY <1>2, <2>1 DEF Txn, Txns
    <2>2. CASE t.at = "failed"
        <3> HIDE DEF lost
        <3> QED BY <1>2, <1>4, <2>2 DEF Txn, Txns
    <2> QED BY <1>2, <2>1, <2>2
<1> HIDE DEF u
<1>6. u \in Procs /\ u.at \notin Inside /\ InTxn(u) /\ TxnInv(u)
    BY <1>1, <1>2, <1>5 DEF Procs, Inside, InTxn, TxnInv
<1>7. \A r \in Runs : Owns(u, r) => Owns(t, r)
    BY <1>2, <1>5 DEF Owns
<1>8. lease[t.run] = "held" /\ (t.at = "executing" => view.attempts[t.run] = Running(t.run, t.seq))
    BY <1>1, <1>2 DEF WriterInv, Protected
<1> HIDE DEF t
<1>9. Types'
    BY <1>1, <1>2, <1>3, <1>6 DEF Types
<1>10. Frame(p) /\ WriterInv(p)'
    <2>1. \A r \in Runs : Owns(u, r) => Owns(proc[p], r)
        BY <1>7 DEF t
    <2>2. /\ lease'[u.run] = "held" /\ u.run \in tmp' /\ u.at # "executing"
          /\ u.job = "finalize" => view'.attempts[u.run] = Running(u.run, u.seq)
        BY <1>3, <1>5, <1>8
    <2> QED BY <1>3, <1>6, <1>9, <2>1, <2>2, OutMove
<1>11. ReportInv'
    BY <1>3, ReportSame
<1> QED BY <1>9, <1>10, <1>11, StepInv

\* finalize_exact and finalize_incomplete take the lock, or find the attempt settled.
LEMMA FinalizeInv ==
    ASSUME StoreInv, NEW p \in Writers, Finalize(p)
    PROVE  StoreInv'
<1> DEFINE t == proc[p]
           still == view.attempts[t.run] = Running(t.run, t.seq)
<1>1. /\ WriterInv(p) /\ t \in Procs /\ proc \in [Writers -> Procs] /\ Types
      /\ p # Nobody /\ Nobody \notin Runs
    BY NobodyAssumption DEF StoreInv, Types
<1>2. t.at = "staged" /\ lock = Nobody /\ InTxn(t) /\ t.at \notin Inside
    BY DEF Finalize, At, InTxn, Inside
<1>3. t \in Txns /\ TxnInv(t) /\ t.job \in {"finalize", "incomplete"} /\ t.run \in Runs
    BY <1>1, <1>2, ProcMeaning DEF WriterInv, TxnInv, Txns
<1>4. lease[t.run] = "held" /\ t.run \in begun /\ Owns(t, t.run)
    BY <1>1, <1>2, <1>3 DEF WriterInv, Protected, Owns
<1>5. UNCHANGED <<view, disk, lease, begun, acked, faults>>
    BY DEF Finalize
<1>6. ReportInv'
    BY <1>5, ReportSame
<1>7. CASE still
    <2> DEFINE u == [t EXCEPT !.at = "prune"]
    <2>1. proc' = [proc EXCEPT ![p] = u] /\ lock' = p /\ tmp' = tmp
        BY <1>1, <1>7 DEF Finalize, Goto
    <2>2. /\ u \in Txns /\ u.at = "prune" /\ u.job = t.job /\ u.run = t.run /\ u.objs = t.objs
          /\ u.todo = t.todo /\ u.after = t.after
        BY <1>3 DEF Txns, Inside
    <2>3. TxnInv(u)
        BY <1>2, <1>3, <2>2 DEF TxnInv
    <2>4. acked[t.run] = None
        <3>1. view.attempts[t.run].state = "running"
            BY <1>7 DEF Running
        <3> QED BY <1>3, <3>1 DEF StoreInv, ReportInv, ReportedIsKept
    <2> HIDE DEF u, t
    <2>5. Types'
        BY <1>1, <1>5, <2>1, <2>2 DEF Types, Procs
    <2>6. u.at \in Inside /\ InTxn(u) /\ \A r \in Runs : Owns(u, r) <=> Owns(t, r)
        BY <1>2, <1>3, <2>2 DEF Inside, InTxn, Owns
    <2>7. proc'[p] = u /\ \A q \in Writers \ {p} : proc'[q] = proc[q]
        BY <1>1, <2>1
    <2>8. Frame(p)
        BY <1>2, <1>5, <2>1, <2>6, <2>7 DEF Frame, t
    <2>9. WriterInv(p)'
        <3>1. \A r \in Runs : Owns(u, r) => r \in begun
            BY <1>1, <2>6 DEF WriterInv, t
        <3>2. u.at \notin {"executing", "staged", "indexed"} /\ u.job # "interrupt"
            BY <1>3, <2>2
        <3> QED BY <1>4, <1>5, <2>1, <2>2, <2>3, <2>4, <2>6, <2>7, <3>1, <3>2 DEF WriterInv
    <2> QED BY <1>6, <2>5, <2>8, <2>9, StepInv
<1>8. CASE ~still
    <2> DEFINE u == IF t.job = "finalize" THEN [at |-> "failed", run |-> t.run, seq |-> t.seq]
                    ELSE [at |-> "release", run |-> t.run]
    <2>1. proc' = [proc EXCEPT ![p] = u] /\ lock' = lock /\ tmp' = tmp \ {t.run}
        BY <1>1, <1>8 DEF Finalize
    <2>2. u \in Procs /\ u.at \in {"failed", "release"} /\ u.run = t.run
        BY <1>3 DEF Procs, Txns
    <2> HIDE DEF u, t
    <2>3. Types'
        BY <1>1, <1>5, <2>1, <2>2 DEF Types
    <2>4. u.at \notin Inside \cup {"staged", "executing"} /\ ~InTxn(u)
        BY <2>2 DEF Inside, InTxn
    <2>5. \A r \in Runs : Owns(u, r) => Owns(proc[p], r)
        BY <1>4, <2>2, <2>4 DEF Owns, t
    <2>6. \A r \in Runs : /\ lease'[r] = lease[r] \/ (Owns(proc[p], r) /\ lease'[r] # "held")
                          /\ r \in tmp => r \in tmp' \/ Owns(proc[p], r)
        BY <1>4, <1>5, <2>1 DEF t
    <2>7. Frame(p) /\ WriterInv(p)'
        BY <1>1, <1>2, <1>4, <1>5, <2>1, <2>2, <2>3, <2>4, <2>5, <2>6, OutMove
    <2> QED BY <1>6, <2>3, <2>7, StepInv
<1> QED BY <1>7, <1>8

-----------------------------------------------------------------------------
(***************************************************************************)
(* Steps that take the lock.                                               *)
(***************************************************************************)

\* A writer outside the lock starts to reconcile, for itself or for a new run.
LEMMA EnterInv ==
    ASSUME StoreInv, Types', NEW p \in Writers, NEW u \in Txns, u.at = "reconcile", TxnInv(u),
           proc' = [proc EXCEPT ![p] = u], lock = Nobody, lock' = p, begun \subseteq begun',
           u.job = "begin" => u.run \notin begun /\ u.run \in begun',
           lease' = lease, acked' = acked,
           view'.attempts = view.attempts, disk'.attempts = disk.attempts,
           \A r \in tmp : r \in tmp' \/ lease[r] # "held"
    PROVE  StoreInv'
<1>1. proc \in [Writers -> Procs] /\ p # Nobody /\ ReportInv
    BY NobodyAssumption DEF StoreInv, Types
<1>2. proc'[p] = u /\ \A q \in Writers \ {p} : proc'[q] = proc[q]
    BY <1>1
<1>3. /\ u.at \in Inside /\ InTxn(u) /\ u.job \in {"open", "begin"} /\ ~Protected(u)
      /\ u.job = "begin" => u.run \in Runs
    BY DEF Inside, InTxn, TxnInv, Protected, Txns
<1>4. \A r \in Runs : Owns(u, r) => u.job = "begin" /\ u.run = r
    BY <1>3 DEF Owns
<1>5. Frame(p)
    BY <1>2, <1>4 DEF Frame
<1>6. u.job # "open" => acked[u.run] = None
    BY <1>1, <1>3 DEF ReportInv
<1>7. WriterInv(p)'
    BY <1>2, <1>3, <1>4, <1>6 DEF WriterInv
<1>8. ReportInv'
    BY ReportSame
<1> QED BY <1>5, <1>7, <1>8, StepInv

LEMMA BeginInv ==
    ASSUME StoreInv, NEW p \in Writers, NEW r \in Runs, Begin(p, r)
    PROVE  StoreInv'
<1> DEFINE u == Txn("begin", "reconcile", r, view.seq + 1, Snapshot(r), None)
<1>1. Types /\ Nobody \notin Runs /\ view.seq \in Nat
    BY NobodyAssumption DEF StoreInv, Types, Stores
<1>2. /\ proc' = [proc EXCEPT ![p] = u] /\ lock = Nobody /\ lock' = p
      /\ r \notin begun /\ begun' = begun \cup {r}
      /\ UNCHANGED <<view, disk, lease, tmp, acked, faults>>
    BY DEF Begin, Enter
<1>3. /\ u \in Txns /\ u.at = "reconcile" /\ u.job = "begin" /\ u.run = r /\ u.after = None
      /\ u.last = None /\ u.objs = Snapshot(r) /\ u.todo = u.objs
    <2>1. Snapshot(r) \in SUBSET Objects
        BY SnapshotType
    <2> QED BY <1>1, <2>1 DEF Txn, Txns, Inside
<1> HIDE DEF u
<1>4. TxnInv(u)
    BY <1>1, <1>3 DEF TxnInv
<1>5. Types'
    BY <1>1, <1>2, <1>3 DEF Types, Procs
<1> QED BY <1>2, <1>3, <1>4, <1>5, EnterInv

\* Finitely many numbers have a bound.
LEMMA FiniteBound ==
    ASSUME NEW D, IsFiniteSet(D), NEW f \in [D -> Nat]
    PROVE  \E b \in Nat : \A x \in D : f[x] <= b
<1>1. PICK n \in Nat : ExistsSurjection(1..n, D)
    BY FS_NatSurjection
<1>2. PICK g \in [1..n -> D] : \A x \in D : \E k \in 1..n : g[k] = x
    BY <1>1 DEF ExistsSurjection, Surjection
<1> DEFINE Bounded(k) == \E b \in Nat : \A j \in 1..n : j <= k => f[g[j]] <= b
           Bad == {k \in Nat : ~Bounded(k)}
           R == OpToRel(<, Nat)
<1>3. Bounded(0)
    <2>1. 0 \in Nat /\ \A j \in 1..n : ~(j <= 0)
        OBVIOUS
    <2> QED BY <2>1
<1>4. ASSUME NEW k \in Nat, Bounded(k) PROVE Bounded(k + 1)
    <2>1. PICK b \in Nat : \A j \in 1..n : j <= k => f[g[j]] <= b
        BY <1>4
    <2>2. CASE k + 1 \in 1..n
        <3> DEFINE m == f[g[k + 1]]
                   c == IF m <= b THEN b ELSE m
        <3>1. m \in Nat /\ c \in Nat /\ b <= c /\ m <= c
            BY <1>2, <2>2
        <3>2. \A j \in 1..n : f[g[j]] \in Nat /\ (j <= k + 1 => j <= k \/ j = k + 1)
            BY <1>2
        <3> HIDE DEF c
        <3>3. \A j \in 1..n : j <= k + 1 => f[g[j]] <= c
            BY <2>1, <3>1, <3>2
        <3> QED BY <3>1, <3>3
    <2>3. CASE k + 1 \notin 1..n
        BY <2>1, <2>3
    <2> QED BY <2>2, <2>3
<1> HIDE DEF Bounded
<1>5. Bad = {}
    <2> SUFFICES ASSUME Bad # {} PROVE FALSE
        OBVIOUS
    <2>1. PICK k \in Bad : \A m \in Bad : ~(<<m, k>> \in R)
        BY NatLessThanWellFounded, WFMin
    <2>2. k \in Nat /\ k # 0 /\ ~Bounded(k)
        BY <1>3, <2>1
    <2>3. k - 1 \in Nat /\ <<k - 1, k>> \in R
        BY <2>2 DEF OpToRel
    <2>4. Bounded(k - 1)
        BY <2>1, <2>3
    <2>5. Bounded((k - 1) + 1)
        BY <1>4, <2>3, <2>4
    <2> QED BY <2>2, <2>5
<1>6. Bounded(n)
    BY <1>1, <1>5
<1>7. PICK b \in Nat : \A j \in 1..n : j <= n => f[g[j]] <= b
    BY <1>6 DEF Bounded
<1> QED BY SMTT(30), <1>2, <1>7

\* repair_sequence_floor_locked: the new sequence is a number, at or above every index.
LEMMA FloorMeaning ==
    ASSUME view \in Stores
    PROVE  LET n == Max({view.seq} \cup {view.attempts[r].seq : r \in Indexed(view)}) IN
           n \in Nat /\ view.seq <= n /\ \A r \in Indexed(view) : view.attempts[r].seq <= n
<1> DEFINE S == {view.seq} \cup {view.attempts[r].seq : r \in Indexed(view)}
           f == [r \in Indexed(view) |-> view.attempts[r].seq]
           R == OpToRel(<, Nat)
<1>1. view.seq \in Nat /\ \A r \in Indexed(view) : view.attempts[r].seq \in Nat
    BY DEF Stores, Entries, Indexed, None
<1>2. IsFiniteSet(Indexed(view))
    <2>1. Indexed(view) \in SUBSET Runs
        BY DEF Indexed
    <2> QED BY <2>1, RunStoreAssumption, FS_Subset
<1>3. PICK b \in Nat : \A r \in Indexed(view) : f[r] <= b
    <2>1. f \in [Indexed(view) -> Nat]
        BY <1>1
    <2> HIDE DEF f
    <2> QED BY <1>2, <2>1, FiniteBound
<1>4. \A r \in Indexed(view) : view.attempts[r].seq <= b
    BY <1>3
<1> DEFINE c == b + view.seq
           T == {c - y : y \in S}
<1>5. c \in Nat /\ S \subseteq Nat /\ view.seq \in S /\ \A y \in S : y <= c
    BY <1>1, <1>4
<1>6. \A r \in Indexed(view) : view.attempts[r].seq \in S
    OBVIOUS
<1> HIDE DEF S, c
<1>7. T \subseteq Nat /\ T # {}
    <2>1. \A y \in S : c - y \in Nat /\ c - y \in T
        BY <1>5
    <2> QED BY <1>5, <2>1
<1>8. PICK k \in T : \A m \in T : ~(<<m, k>> \in R)
    BY <1>7, NatLessThanWellFounded, WFMin
<1>9. \A m \in T : ~(m < k)
    BY <1>7, <1>8 DEF OpToRel
<1>10. PICK x \in S : k = c - x
    OBVIOUS
<1>11. \A y \in S : x >= y
    BY <1>5, <1>9, <1>10
<1>12. Max(S) \in S /\ \A y \in S : Max(S) >= y
    BY <1>11 DEF Max
<1>13. Max(S) \in Nat /\ view.seq <= Max(S) /\ \A r \in Indexed(view) : view.attempts[r].seq <= Max(S)
    BY <1>1, <1>5, <1>6, <1>12
<1> QED BY <1>13 DEF S

LEMMA OpenStoreInv ==
    ASSUME StoreInv, NEW p \in Writers, OpenStore(p)
    PROVE  StoreInv'
<1> DEFINE u == Txn("open", "reconcile", Nobody, 0, {}, None)
           n == Max({view.seq} \cup {view.attempts[r].seq : r \in Indexed(view)})
<1>1. Types /\ Nobody \notin Runs /\ view \in Stores /\ disk \in Stores
    BY NobodyAssumption DEF StoreInv, Types
<1>2. /\ proc' = [proc EXCEPT ![p] = u] /\ lock = Nobody /\ lock' = p
      /\ tmp' = {r \in tmp : lease[r] = "held"}
      /\ view' = [view EXCEPT !.seq = n] /\ disk' = [disk EXCEPT !.seq = n]
      /\ UNCHANGED <<lease, begun, acked, faults>>
    BY DEF OpenStore, Enter
<1>3. n \in Nat
    BY <1>1, FloorMeaning
<1>4. /\ u \in Txns /\ u.at = "reconcile" /\ u.job = "open" /\ u.run = Nobody /\ u.after = None
      /\ u.last = None /\ u.objs = {} /\ u.todo = {}
    BY DEF Txn, Txns, Inside
<1> HIDE DEF u, n
<1>5. TxnInv(u)
    BY <1>1, <1>4 DEF TxnInv
<1>6. /\ view' \in Stores /\ disk' \in Stores /\ view'.attempts = view.attempts
      /\ disk'.attempts = disk.attempts
    BY <1>1, <1>2, <1>3 DEF Stores
<1>7. Types'
    BY <1>1, <1>2, <1>4, <1>6 DEF Types, Procs
<1> QED BY <1>2, <1>4, <1>5, <1>6, <1>7, EnterInv

\* reconcile_orphans_locked: nobody's lease is swept, and only a run whose lease nobody holds
\* is interrupted.
LEMMA ReconcileInv ==
    ASSUME StoreInv, NEW p \in Writers, Reconcile(p)
    PROVE  StoreInv'
<1> DEFINE t == proc[p]
           r == Oldest(view, Orphans(t.past))
           interrupt == Txn("interrupt", "prune", r, view.attempts[r].seq,
                            {Object(r, "interrupted")}, [t EXCEPT !.past = view.attempts[r].seq])
<1>1. /\ WriterInv(p) /\ t \in Txns /\ TxnInv(t) /\ t.at = "reconcile" /\ lock = p
      /\ proc \in [Writers -> Procs] /\ Types /\ Nobody \notin Runs /\ t.job \in {"open", "begin"}
    BY HolderFacts DEF Reconcile, Holds, At, TxnInv
<1>2. /\ lease' = [x \in Runs |-> IF lease[x] = "free" /\ x \notin Active(view) /\ t.past = 0
                                  THEN "none" ELSE lease[x]]
      /\ UNCHANGED <<view, disk, lock, tmp, begun, acked, faults>>
    BY DEF Reconcile
<1>3. /\ lease' \in [Runs -> {"none", "held", "free"}]
      /\ \A x \in Runs : lease'[x] = lease[x] \/ (lease[x] # "held" /\ lease'[x] # "held")
    BY <1>1, <1>2 DEF Types
<1>4. ReportInv'
    BY <1>2, ReportSame
<1>5. CASE Orphans(t.past) = {}
    <2> DEFINE u == [t EXCEPT !.at = "prune"]
    <2>1. proc' = [proc EXCEPT ![p] = u]
        BY <1>1, <1>5 DEF Reconcile
    <2>2. /\ u \in Txns /\ u.at = "prune" /\ u.job = t.job /\ u.run = t.run /\ u.objs = t.objs
          /\ u.todo = t.todo /\ u.after = t.after
        BY <1>1 DEF Txns, Inside
    <2>3. TxnInv(u) /\ u.at \in Inside /\ ~Protected(u)
        BY <1>1, <2>2 DEF TxnInv, Inside, Protected
    <2> HIDE DEF u
    <2>4. Types'
        BY <1>1, <1>2, <1>3, <2>1, <2>2 DEF Types, Procs
    <2>5. \A x \in Runs :
              /\ \/ lease'[x] = lease[x] \/ (lease[x] # "held" /\ lease'[x] # "held")
                 \/ u.job = "begin" /\ x = u.run /\ lease'[x] = "held"
              /\ x \in tmp => x \in tmp' \/ x = u.run
              /\ view'.attempts[x] # view.attempts[x] => x = u.run \/ x \notin Active(view)
              /\ acked'[x] \in {acked[x], None}
        BY <1>2, <1>3
    <2>6. u.job = proc[p].job /\ u.run = proc[p].run /\ u.after = proc[p].after
        BY <2>2
    <2>7. lock' = p /\ begun' = begun
        BY <1>1, <1>2
    <2> HIDE DEF t, r, interrupt
    <2>8. Frame(p) /\ WriterInv(p)'
        BY <1>1, <2>1, <2>2, <2>3, <2>4, <2>5, <2>6, <2>7, HolderMove
    <2> QED BY <1>4, <2>4, <2>8, StepInv
<1>6. CASE Orphans(t.past) # {}
    <2> DEFINE u == interrupt
               a == [t EXCEPT !.past = view.attempts[r].seq]
    <2>1. proc' = [proc EXCEPT ![p] = u]
        BY <1>1, <1>6 DEF Reconcile
    <2>2. r \in Orphans(t.past)
        <3>1. Orphans(t.past) \in SUBSET Indexed(view)
            BY DEF Orphans, Active
        <3>2. view \in Stores
            BY <1>1 DEF Types
        <3> QED BY <1>6, <3>1, <3>2, OldestMeaning
    <2>3. /\ r \in Runs /\ lease[r] # "held" /\ view.attempts[r].state = "running"
          /\ view.attempts[r] # None
        BY <2>2 DEF Orphans, Active, Indexed
    <2>4. view.attempts[r].seq \in Nat /\ acked[r] = None
        <3>1. view \in Stores /\ ReportInv
            BY <1>1 DEF Types, StoreInv
        <3>2. view.attempts[r].seq \in Nat
            BY <2>3, <3>1 DEF Stores, Entries
        <3> QED BY <2>3, <3>1, <3>2 DEF ReportInv, ReportedIsKept
    <2> HIDE DEF r
    <2>5. /\ a \in Outer /\ a.job = t.job /\ a.run = t.run /\ a.objs = t.objs /\ a.todo = t.todo
          /\ t.last = None /\ t.after = None
        <3>1. t.last = None /\ t.after = None
            BY <1>1 DEF TxnInv
        <3> QED BY <1>1, <2>4, <3>1 DEF Txns, Outer
    <2> HIDE DEF a, t
    <2>6. /\ u \in Txns /\ u.at = "prune" /\ u.job = "interrupt" /\ u.run = r
          /\ u.todo = u.objs /\ u.after = a
        <3>1. {Object(r, "interrupted")} \in SUBSET Objects
            BY <2>3 DEF Object, Objects, Kinds
        <3> QED BY <2>3, <2>4, <2>5, <3>1 DEF Txn, Txns, Inside, a
    <2>7. a # None
        BY <2>5 DEF Outer, None
    <2> HIDE DEF interrupt
    <2>8. TxnInv(u) /\ u.at \in Inside /\ InTxn(u) /\ ~Protected(u)
        <3>1. /\ a.job = "open" <=> a.run = Nobody
              /\ a.job = "begin" => a.objs = Snapshot(a.run)
              /\ a.todo = a.objs
            BY <1>1, <2>5 DEF TxnInv
        <3> QED BY <1>1, <2>3, <2>6, <2>7, <3>1 DEF TxnInv, Inside, InTxn, Protected
    <2>9. Types'
        BY <1>1, <1>2, <1>3, <2>1, <2>6 DEF Types, Procs
    <2>10. proc'[p] = u /\ \A q \in Writers \ {p} : proc'[q] = proc[q]
        BY <1>1, <2>1
    <2>11. InTxn(t) /\ \A x \in Runs : Owns(u, x) => Owns(t, x)
        BY <1>1, <2>5, <2>6, <2>8 DEF Owns, InTxn, Inside
    <2>12. Frame(p)
        BY <1>1, <1>2, <1>3, <2>10, <2>11 DEF Frame, t
    <2>13. WriterInv(p)'
        <3>1. \A x \in Runs : Owns(u, x) => x \in begun'
            BY <1>1, <1>2, <2>11 DEF WriterInv, t
        <3>2. lease'[u.run] # "held" /\ acked'[u.run] = None
            BY <1>2, <1>3, <2>3, <2>4, <2>6
        <3>3. u.after.job = "begin" => acked'[u.after.run] = None
            BY <1>1, <1>2, <2>5, <2>6 DEF WriterInv, t, Inside
        <3>4. u.at \notin {"executing", "staged", "indexed"} /\ lock' = p
            BY <1>1, <1>2, <2>6
        <3> QED BY <2>8, <2>10, <3>1, <3>2, <3>3, <3>4 DEF WriterInv
    <2> QED BY <1>4, <2>9, <2>12, <2>13, StepInv
<1> QED BY <1>5, <1>6

\* A writer that does nothing.
LEMMA IdleMeaning ==
    /\ Idle \in Procs /\ Idle.at = "off" /\ Idle.at \notin Inside /\ ~InTxn(Idle) /\ ~Protected(Idle)
    /\ \A r \in Runs : ~Owns(Idle, r)
BY DEF Idle, Inside, InTxn, Protected, Owns, Procs

\* Power fails: a reported attempt is the same in memory and on the disk, so it is kept.
LEMMA PowerLossInv ==
    ASSUME StoreInv, PowerLoss
    PROVE  StoreInv'
<1>1. Types /\ ReportInv
    BY DEF StoreInv
<1>2. PICK kept \in SUBSET {r \in Runs : view.attempts[r] # disk.attempts[r]},
           objs \in SUBSET ((view.objects \ disk.objects) \cup (disk.objects \ view.objects)),
           gone \in SUBSET {r \in Runs : lease[r] # "none"} :
        /\ view' = [seq |-> view.seq,
                    attempts |-> [r \in Runs |-> IF r \in kept THEN view.attempts[r]
                                                 ELSE disk.attempts[r]],
                    objects |-> (view.objects \cap disk.objects) \cup objs]
        /\ lease' = [r \in Runs |-> IF lease[r] = "none" \/ r \in gone THEN "none" ELSE "free"]
    BY DEF PowerLoss
<1>3. /\ lock' = Nobody /\ proc' = [p \in Writers |-> Idle] /\ faults' \in Nat
      /\ UNCHANGED <<tmp, begun, acked>> /\ disk' = view'
    BY <1>1 DEF PowerLoss, Types
<1>4. /\ view' \in Stores
      /\ \A r \in Runs : view.attempts[r] = disk.attempts[r] => view'.attempts[r] = view.attempts[r]
    BY <1>1, <1>2 DEF Types, Stores
<1>5. lease' \in [Runs -> {"none", "held", "free"}] /\ Idle \in Procs
    BY <1>2 DEF Idle, Procs
<1>6. Types'
    BY <1>1, <1>3, <1>4, <1>5 DEF Types
<1>7. ReportInv'
    BY <1>1, <1>3, <1>4 DEF ReportInv, ReportedIsKept
<1>8. \A p \in Writers : proc'[p] = Idle /\ lock' # p
    BY <1>3, NobodyAssumption
<1>9. Disjoint'
    BY <1>8, IdleMeaning DEF Disjoint
<1>10. \A p \in Writers : WriterInv(p)'
    BY <1>8, IdleMeaning DEF WriterInv
<1> QED BY <1>6, <1>7, <1>9, <1>10 DEF StoreInv

-----------------------------------------------------------------------------
(***************************************************************************)
(* The invariant of the store, with power failures, crashes and failed     *)
(* syncs.                                                                  *)
(***************************************************************************)

LEMMA StoreInit == Init => StoreInv
<1> SUFFICES ASSUME Init PROVE StoreInv
    OBVIOUS
<1>1. \A p \in Writers : proc[p] = Idle /\ lock # p
    BY NobodyAssumption DEF Init
<1>2. Types
    BY IdleMeaning DEF Init, Types, Empty, Stores, Entries
<1>3. ReportInv
    BY DEF Init, ReportInv, ReportedIsKept
<1>4. Disjoint
    BY <1>1, IdleMeaning DEF Disjoint
<1>5. \A p \in Writers : WriterInv(p)
    BY <1>1, IdleMeaning DEF WriterInv
<1> QED BY <1>2, <1>3, <1>4, <1>5 DEF StoreInv

LEMMA StoreUnchanged ==
    ASSUME StoreInv, UNCHANGED vars
    PROVE  StoreInv'
<1>1. Types' /\ ReportInv' /\ Disjoint'
    BY DEF StoreInv, Types, ReportInv, ReportedIsKept, Disjoint, vars
<1>2. ASSUME NEW p \in Writers PROVE WriterInv(p)'
    BY DEF StoreInv, WriterInv, vars
<1> QED BY <1>1, <1>2 DEF StoreInv

\* What finalize_exact stages.
LEMMA StagedType ==
    ASSUME StoreInv, NEW p \in Writers, proc[p].at \in {"executing", "failed"}, NEW traced \in BOOLEAN
    PROVE  {Object(proc[p].run, "record")} \cup
             (IF traced THEN {Object(proc[p].run, "trace")} ELSE {}) \in SUBSET Objects
<1>1. proc[p].run \in Runs
    BY ProcMeaning DEF StoreInv, Types
<1> QED BY <1>1 DEF Object, Objects, Kinds

LEMMA WriterStepInv ==
    ASSUME StoreInv, NEW p \in Writers, WriterStep(p)
    PROVE  StoreInv'
<1>1. CASE Reconcile(p)
    BY <1>1, ReconcileInv
<1>2. CASE PruneDone(p)
    BY <1>2, PruneDoneInv
<1>3. CASE Evict(p) \/ EvictSync(p)
    BY <1>3, EvictInv, EvictSyncInv
<1>4. CASE PruneFails(p)
    <2>1. /\ lock = p /\ proc[p].at = "prune" /\ Fails(p) /\ faults' \in Nat
          /\ UNCHANGED <<view, disk, begun, acked>>
        BY <1>4 DEF PruneFails, Holds, At, StoreInv, Types
    <2> QED BY <2>1, FailsInv
<1>11. CASE SweepFails(p)
    <2>1. /\ lock = p /\ proc[p].at = "reconcile" /\ Fails(p) /\ faults' \in Nat
          /\ UNCHANGED <<view, disk, begun, acked>>
        BY <1>11 DEF SweepFails, Holds, At, StoreInv, Types
    <2> QED BY <2>1, FailsInv
<1>5. CASE CreateLease(p) \/ PublishSync(p)
    BY <1>5, CreateLeaseInv, PublishSyncInv
<1>6. CASE WriteIndex(p) \/ IndexSync(p) \/ CleanUp(p)
    BY <1>6, WriteIndexInv, IndexSyncInv, CleanUpInv
<1>7. CASE Finalize(p)
    BY <1>7, FinalizeInv
<1>8. CASE Unlock(p) \/ Unlink(p) \/ Drop(p) \/ Close(p)
    BY <1>8, LeaseStepsInv
<1>9. ASSUME NEW o \in proc[p].todo, Publish(p, o) PROVE StoreInv'
    BY <1>9, PublishInv
<1>10. ASSUME proc[p].at \in {"executing", "failed"}, NEW traced \in BOOLEAN,
              Stage(p, {Object(proc[p].run, "record")} \cup
                       (IF traced THEN {Object(proc[p].run, "trace")} ELSE {}))
       PROVE  StoreInv'
    BY <1>10, StagedType, StageInv
<1> QED BY <1>1, <1>2, <1>3, <1>4, <1>5, <1>6, <1>7, <1>8, <1>9, <1>10, <1>11 DEF WriterStep

LEMMA SyncFailsInv ==
    ASSUME StoreInv, NEW p \in Writers, SyncFails(p)
    PROVE  StoreInv'
<1>1. /\ lock = p /\ proc[p].at \in {"evicted", "published", "indexed"} /\ Fails(p) /\ faults' \in Nat
      /\ UNCHANGED <<view, disk, begun, acked>>
    BY DEF SyncFails, Changing, Holds, At, StoreInv, Types
<1> QED BY <1>1, FailsInv

LEMMA StoreStep ==
    ASSUME StoreInv, [Next]_vars
    PROVE  StoreInv'
<1>1. CASE UNCHANGED vars
    BY <1>1, StoreUnchanged
<1>2. CASE PowerLoss
    BY <1>2, PowerLossInv
<1>3. ASSUME NEW p \in Writers, OpenStore(p) \/ WriterStep(p) PROVE StoreInv'
    BY <1>3, OpenStoreInv, WriterStepInv
<1>4. ASSUME NEW p \in Writers, SyncFails(p) \/ Crash(p) PROVE StoreInv'
    BY <1>4, SyncFailsInv, CrashInv
<1>5. ASSUME NEW p \in Writers, NEW r \in Runs, Begin(p, r) PROVE StoreInv'
    BY <1>5, BeginInv
<1> QED BY <1>1, <1>2, <1>3, <1>4, <1>5 DEF Next

\* The store's inductive invariant holds always: only the lock's holder is inside a
\* transaction, a run belongs to one writer, its lease is held while that writer may still
\* finalize, and what was reported is indexed in memory and on the disk.
THEOREM StoreInvariant == Spec => []StoreInv
<1>1. Init => StoreInv
    BY StoreInit
<1>2. StoreInv /\ [Next]_vars => StoreInv'
    BY StoreStep
<1> QED BY <1>1, <1>2, PTL DEF Spec

\* "With active leases protected": nobody settles, evicts or cleans away the run of a live
\* executor (reconcile_orphans_locked, prune_locked, cleanup_stale_temporary_files_locked),
\* whatever crashes, fails to sync or loses power.
THEOREM LiveRunsAreSafe == Spec => []ActiveIsProtected
<1>1. StoreInv => ActiveIsProtected
    BY DEF StoreInv, WriterInv, ActiveIsProtected, At
<1> QED BY <1>1, StoreInvariant, PTL

\* What finalize reported is indexed as it was reported, also after a power failure, until
\* prune_locked evicts it.
THEOREM ReportsAreKept == Spec => []ReportedIsKept
<1>1. StoreInv => ReportedIsKept
    BY DEF StoreInv, ReportInv
<1> QED BY <1>1, StoreInvariant, PTL

-----------------------------------------------------------------------------
(***************************************************************************)
(* Between power losses no index dangles.  An index is written when all    *)
(* its objects are visible, and only the lock's holder unlinks objects:    *)
(* the ones no index refers to, and never while it publishes.              *)
(***************************************************************************)
Publishing(t) == t.at \in {"publish", "published", "indexed"}

\* A step of p that takes no object away from an index or from a publisher.
LEMMA WholeMove ==
    ASSUME StoreInv, WholeInv, NEW p \in Writers,
           \A q \in Writers \ {p} : proc'[q] = proc[q],
           view.objects \subseteq view'.objects \/ lock = p, Whole(view)',
           Publishing(proc'[p]) => proc'[p].objs \ proc'[p].todo \subseteq view'.objects
    PROVE  WholeInv'
<1>1. ASSUME NEW q \in Writers, Publishing(proc'[q])
      PROVE  proc'[q].objs \ proc'[q].todo \subseteq view'.objects
    <2>1. CASE q = p
        BY <1>1, <2>1
    <2>2. CASE q # p
        <3>1. proc'[q] = proc[q] /\ Publishing(proc[q])
            BY <1>1, <2>2
        <3>2. lock = q
            BY <3>1 DEF StoreInv, WriterInv, Publishing, Inside
        <3>3. proc[q].objs \ proc[q].todo \subseteq view.objects
            BY <3>1 DEF WholeInv, Publishing
        <3> QED BY <2>2, <3>1, <3>2, <3>3
    <2> QED BY <2>1, <2>2
<1> QED BY <1>1 DEF WholeInv, Publishing

\* The indices are the same, and every object an index refers to is kept.
LEMMA SameIndices ==
    ASSUME WholeInv, view'.attempts = view.attempts,
           view.objects \cap Referenced(view, {}) \subseteq view'.objects
    PROVE  Whole(view)'
<1>1. Referenced(view', {}) = Referenced(view, {})
    BY DEF Referenced, Indexed
<1>2. Referenced(view, {}) \subseteq view.objects
    BY DEF WholeInv, Whole
<1>3. Referenced(view', {}) \subseteq view'.objects
    BY <1>1, <1>2
<1> QED BY <1>3 DEF Whole

\* Steps that neither index nor publish nor clean up.
LEMMA QuietWhole ==
    ASSUME StoreInv, WholeInv, NEW p \in Writers, NEW u, proc' = [proc EXCEPT ![p] = u], ~Publishing(u),
           view'.attempts = view.attempts, view'.objects = view.objects
    PROVE  WholeInv'
<1>1. proc'[p] = u /\ \A q \in Writers \ {p} : proc'[q] = proc[q]
    BY DEF StoreInv, Types
<1>2. Whole(view)'
    BY SameIndices
<1> QED BY <1>1, <1>2, WholeMove

LEMMA CleaningWhole ==
    ASSUME StoreInv, WholeInv, NEW p \in Writers, EvictSync(p) \/ CleanUp(p) \/ IndexSync(p)
    PROVE  WholeInv'
<1> DEFINE t == proc[p]
<1>1. lock = p /\ t \in Txns /\ TxnInv(t) /\ Types /\ proc \in [Writers -> Procs]
    BY HolderFacts DEF EvictSync, CleanUp, IndexSync, Holds
<1>2. view' \in {view, Cleaned(view)}
    BY DEF EvictSync, CleanUp, IndexSync
<1>3. Whole(view)'
    <2>1. view'.attempts = view.attempts /\ view.objects \cap Referenced(view, {}) \subseteq view'.objects
        BY <1>1, <1>2, CleanedMeaning DEF Types
    <2> QED BY <2>1, SameIndices
<1>4. \A q \in Writers \ {p} : proc'[q] = proc[q]
    BY <1>1 DEF EvictSync, CleanUp, IndexSync, Goto, Leave
<1>5. ~Publishing(proc'[p])
    <2>1. CASE EvictSync(p)
        <3>1. proc'[p] = [t EXCEPT !.at = "prune"]
            BY <1>1, <2>1 DEF EvictSync, Goto
        <3> QED BY <1>1, <3>1 DEF Txns, Publishing
    <2>2. CASE CleanUp(p)
        BY <1>1, <2>2 DEF CleanUp, Leave, Publishing, Ready
    <2>3. CASE IndexSync(p)
        <3>1. CASE t.job = "begin"
            BY <1>1, <2>3, <3>1 DEF IndexSync, Leave, Publishing, Executing
        <3>2. CASE t.job = "interrupt"
            <4>1. proc'[p] = t.after /\ t.after \in Outer
                BY <1>1, <2>3, <3>2 DEF IndexSync, Txns, TxnInv
            <4> QED BY <4>1 DEF Outer, Publishing
        <3>3. CASE t.job \notin {"begin", "interrupt"}
            BY <1>1, <2>3, <3>3 DEF IndexSync, Leave, Publishing
        <3> QED BY <3>1, <3>2, <3>3
    <2> QED BY <2>1, <2>2, <2>3
<1> QED BY <1>1, <1>3, <1>4, <1>5, WholeMove

LEMMA EvictWhole ==
    ASSUME StoreInv, WholeInv, NEW p \in Writers, Evict(p)
    PROVE  WholeInv'
<1> DEFINE t == proc[p]
           r == Oldest(view, Evictable(p))
<1>1. lock = p /\ t \in Txns /\ Types /\ proc \in [Writers -> Procs] /\ view \in Stores
    BY HolderFacts DEF Evict, Holds, Types
<1>2. /\ proc' = [proc EXCEPT ![p].at = "evicted"] /\ view' = [view EXCEPT !.attempts[r] = None]
    BY DEF Evict, Goto
<1> HIDE DEF r
<1>3. /\ view'.objects = view.objects
      /\ \A x \in Runs : view'.attempts[x] \in {view.attempts[x], None}
    BY <1>1, <1>2 DEF Stores
<1>4. Whole(view)'
    <2>1. Referenced(view, {}) \subseteq view.objects
        BY DEF WholeInv, Whole
    <2>2. Referenced(view', {}) \subseteq Referenced(view, {})
        BY <1>3 DEF Referenced, Indexed
    <2>3. Referenced(view', {}) \subseteq view'.objects
        BY <1>3, <2>1, <2>2
    <2> QED BY <2>3 DEF Whole
<1>5. \A q \in Writers \ {p} : proc'[q] = proc[q]
    BY <1>1, <1>2
<1>6. ~Publishing(proc'[p])
    BY <1>1, <1>2 DEF Txns, Publishing
<1> QED BY <1>1, <1>4, <1>5, <1>6, WholeMove

\* A publication begins: nothing is published yet.
LEMMA StartWhole ==
    ASSUME StoreInv, WholeInv, NEW p \in Writers, PruneDone(p) \/ CreateLease(p)
    PROVE  WholeInv'
<1> DEFINE t == proc[p]
<1>1. /\ lock = p /\ t \in Txns /\ TxnInv(t) /\ t.at \in {"prune", "lease"}
      /\ proc \in [Writers -> Procs]
    BY HolderFacts DEF PruneDone, CreateLease, Holds, At
<1>2. PICK place : proc' = [proc EXCEPT ![p].at = place] /\ view' = view
    BY DEF PruneDone, CreateLease, Goto
<1>3. proc'[p].objs \ proc'[p].todo = {} /\ \A q \in Writers \ {p} : proc'[q] = proc[q]
    BY <1>1, <1>2 DEF Txns, TxnInv
<1>4. Whole(view)'
    BY <1>2, SameIndices
<1> QED BY <1>1, <1>3, <1>4, WholeMove

LEMMA PublishWhole ==
    ASSUME StoreInv, WholeInv, NEW p \in Writers, NEW o \in proc[p].todo, Publish(p, o)
    PROVE  WholeInv'
<1> DEFINE t == proc[p]
<1>1. /\ lock = p /\ t \in Txns /\ t.at = "publish" /\ proc \in [Writers -> Procs] /\ view \in Stores
    BY HolderFacts DEF Publish, Holds, At, Types
<1>2. t.objs \ t.todo \subseteq view.objects
    BY <1>1 DEF WholeInv
<1>3. /\ view'.attempts = view.attempts /\ view.objects \subseteq view'.objects /\ o \in view'.objects
    BY <1>1 DEF Publish, Stores
<1>4. proc'[p].objs = t.objs /\ proc'[p].todo = t.todo \ {o} /\ \A q \in Writers \ {p} : proc'[q] = proc[q]
    BY <1>1 DEF Publish, Txns
<1>5. Whole(view)'
    BY <1>3, SameIndices
<1> QED BY <1>1, <1>2, <1>3, <1>4, <1>5, WholeMove

LEMMA PublishSyncWhole ==
    ASSUME StoreInv, WholeInv, NEW p \in Writers, PublishSync(p)
    PROVE  WholeInv'
<1> DEFINE t == proc[p]
<1>1. /\ lock = p /\ t \in Txns /\ t.at = "published" /\ proc \in [Writers -> Procs]
    BY HolderFacts DEF PublishSync, Holds, At
<1>2. t.objs \ t.todo \subseteq view.objects
    BY <1>1 DEF WholeInv
<1>3. proc' = [proc EXCEPT ![p].at = "publish"] /\ view' = view
    BY DEF PublishSync, Goto
<1>4. proc'[p].objs = t.objs /\ proc'[p].todo = t.todo /\ \A q \in Writers \ {p} : proc'[q] = proc[q]
    BY <1>1, <1>3 DEF Txns
<1>5. Whole(view)'
    BY <1>3, SameIndices
<1> QED BY <1>1, <1>2, <1>3, <1>4, <1>5, WholeMove

\* The index refers to the objects the transaction has published.
LEMMA WriteIndexWhole ==
    ASSUME StoreInv, WholeInv, NEW p \in Writers, WriteIndex(p)
    PROVE  WholeInv'
<1> DEFINE t == proc[p]
<1>1. /\ lock = p /\ t \in Txns /\ TxnInv(t) /\ t.at = "publish" /\ t.job # "open" /\ t.run \in Runs
      /\ proc \in [Writers -> Procs] /\ view \in Stores
    BY HolderFacts DEF WriteIndex, Holds, At, Types, TxnInv
<1>2. t.objs \subseteq view.objects /\ t.todo = {}
    BY <1>1 DEF WholeInv, WriteIndex
<1>3. /\ proc' = [proc EXCEPT ![p].at = "indexed"]
      /\ view' = [view EXCEPT !.seq = Sequence(t), !.attempts[t.run] = Entry(t)]
    BY DEF WriteIndex, Goto
<1>4. /\ view'.objects = view.objects
      /\ \A x \in Runs : view'.attempts[x] = IF x = t.run THEN Entry(t) ELSE view.attempts[x]
    BY <1>1, <1>3 DEF Stores
<1>5. proc'[p].objs = t.objs /\ \A q \in Writers \ {p} : proc'[q] = proc[q]
    BY <1>1, <1>3 DEF Txns
<1>6. Entry(t).objs = t.objs
    BY <1>1, EntryType
<1>7. Whole(view)'
    <2>1. \A x \in Indexed(view) : view.attempts[x].objs \subseteq view.objects
        BY DEF WholeInv, Whole, Referenced
    <2>2. \A x \in Indexed(view') : x \in Runs /\ (x = t.run \/ x \in Indexed(view))
        BY <1>4 DEF Indexed
    <2>3. \A x \in Indexed(view') : view'.attempts[x].objs \subseteq view'.objects
        BY <1>2, <1>4, <1>6, <2>1, <2>2
    <2> QED BY <2>3 DEF Whole, Referenced
<1> QED BY <1>1, <1>2, <1>4, <1>5, <1>7, WholeMove

\* Steps that leave the writer outside a publication, and every index and object alone.
LEMMA QuietSteps ==
    ASSUME StoreInv, NEW p \in Writers,
           \/ Reconcile(p) \/ Finalize(p) \/ Unlock(p) \/ Unlink(p) \/ Drop(p) \/ Close(p)
           \/ Crash(p) \/ OpenStore(p) \/ (\E r \in Runs : Begin(p, r)) \/ (\E objs : Stage(p, objs))
           \/ SweepFails(p) \/ PruneFails(p) \/ SyncFails(p)
    PROVE  /\ view'.attempts = view.attempts /\ view'.objects = view.objects
           /\ \E u : proc' = [proc EXCEPT ![p] = u] /\ ~Publishing(u) /\ u.at # "evicted"
           /\ disk'.attempts = disk.attempts /\ disk'.objects = disk.objects
<1> DEFINE t == proc[p]
<1>1. Types /\ t \in Procs /\ proc \in [Writers -> Procs] /\ view \in Stores /\ disk \in Stores
    BY DEF StoreInv, Types
<1>2. /\ view'.attempts = view.attempts /\ view'.objects = view.objects
      /\ disk'.attempts = disk.attempts /\ disk'.objects = disk.objects
    BY <1>1 DEF Reconcile, Finalize, Unlock, Unlink, Drop, Close, Crash, OpenStore, Begin, Stage,
                SweepFails, PruneFails, SyncFails, Stores
<1>3. CASE Reconcile(p)
    <2> DEFINE r == Oldest(view, Orphans(t.past))
               u == IF Orphans(t.past) = {} THEN [t EXCEPT !.at = "prune"]
                    ELSE Txn("interrupt", "prune", r, view.attempts[r].seq, {Object(r, "interrupted")},
                             [t EXCEPT !.past = view.attempts[r].seq])
    <2>1. proc' = [proc EXCEPT ![p] = u]
        BY <1>1, <1>3 DEF Reconcile
    <2>2. t \in Txns
        BY <1>3, HolderFacts DEF Reconcile, Holds
    <2>3. u.at = "prune"
        BY <2>2 DEF Txn, Txns
    <2> HIDE DEF u
    <2> QED BY <1>2, <2>1, <2>3 DEF Publishing
<1>4. CASE Finalize(p)
    <2> DEFINE u == IF view.attempts[t.run] = Running(t.run, t.seq) THEN [t EXCEPT !.at = "prune"]
                    ELSE IF t.job = "finalize" THEN [at |-> "failed", run |-> t.run, seq |-> t.seq]
                    ELSE [at |-> "release", run |-> t.run]
    <2>1. proc' = [proc EXCEPT ![p] = u]
        BY <1>1, <1>4 DEF Finalize, Goto
    <2>2. t \in Txns
        BY <1>1, <1>4, ProcMeaning DEF Finalize, At, InTxn
    <2>3. u.at \in {"prune", "failed", "release"}
        BY <2>2 DEF Txns
    <2> HIDE DEF u
    <2> QED BY <1>2, <2>1, <2>3 DEF Publishing
<1>5. CASE Unlock(p)
    <2> DEFINE u == [t EXCEPT !.at = "unlink"]
    <2>1. proc' = [proc EXCEPT ![p] = u]
        BY <1>1, <1>5 DEF Unlock, Goto
    <2>2. t \in [at : {"release", "unlink"}, run : Runs]
        BY <1>1, <1>5, ProcMeaning DEF Unlock, At
    <2>3. u.at = "unlink"
        BY <2>2
    <2> HIDE DEF u
    <2> QED BY <1>2, <2>1, <2>3 DEF Publishing
<1>6. CASE Unlink(p) \/ Drop(p) \/ Close(p) \/ Crash(p)
    <2>1. proc' = [proc EXCEPT ![p] = Ready] \/ proc' = [proc EXCEPT ![p] = Idle]
        BY <1>6 DEF Unlink, Drop, Close, Crash
    <2>2. /\ ~Publishing(Ready) /\ ~Publishing(Idle)
          /\ Ready.at # "evicted" /\ Idle.at # "evicted"
        BY DEF Publishing, Ready, Idle
    <2> QED BY <1>2, <2>1, <2>2
<1>7. CASE OpenStore(p) \/ \E r \in Runs : Begin(p, r)
    <2>1. PICK job, r, n, objs : proc' = [proc EXCEPT ![p] = Txn(job, "reconcile", r, n, objs, None)]
        BY <1>7 DEF OpenStore, Begin, Enter
    <2>2. /\ ~Publishing(Txn(job, "reconcile", r, n, objs, None))
          /\ Txn(job, "reconcile", r, n, objs, None).at # "evicted"
        BY DEF Publishing, Txn
    <2> QED BY <1>2, <2>1, <2>2
<1>8. CASE \E objs : Stage(p, objs)
    <2>1. PICK job, r, n, objs : proc' = [proc EXCEPT ![p] = Txn(job, "staged", r, n, objs, None)]
        BY <1>1, <1>8 DEF Stage
    <2>2. /\ ~Publishing(Txn(job, "staged", r, n, objs, None))
          /\ Txn(job, "staged", r, n, objs, None).at # "evicted"
        BY DEF Publishing, Txn
    <2> QED BY <1>2, <2>1, <2>2
<1>9. CASE SweepFails(p) \/ PruneFails(p) \/ SyncFails(p)
    <2> DEFINE job == IF t.job = "interrupt" THEN t.after.job ELSE t.job
               u == CASE job = "open" -> Idle
                      [] job = "begin" -> Ready
                      [] job = "finalize" -> [at |-> "failed", run |-> t.run, seq |-> t.seq]
                      [] job = "incomplete" -> [at |-> "release", run |-> t.run]
    <2>1. proc' = [proc EXCEPT ![p] = u]
        BY <1>9 DEF SweepFails, PruneFails, SyncFails, Fails, Leave
    <2>2. t \in Txns /\ TxnInv(t)
        BY <1>9, HolderFacts DEF SweepFails, PruneFails, SyncFails, Changing, Holds
    <2>3. job \in {"open", "begin", "finalize", "incomplete"}
        BY <2>2 DEF Txns, TxnInv, Outer
    <2>4. u.at \in {"off", "ready", "failed", "release"}
        BY <2>3 DEF Idle, Ready
    <2> HIDE DEF u
    <2> QED BY <1>2, <2>1, <2>4 DEF Publishing
<1> QED BY <1>3, <1>4, <1>5, <1>6, <1>7, <1>8, <1>9

LEMMA WholeStep ==
    ASSUME ~PowerLoss, StoreInv, WholeInv, [Next]_vars
    PROVE  WholeInv'
<1>1. CASE UNCHANGED vars
    BY <1>1 DEF WholeInv, Whole, Referenced, Indexed, vars
<1>2. ASSUME NEW p \in Writers,
             \/ Reconcile(p) \/ Finalize(p) \/ Unlock(p) \/ Unlink(p) \/ Drop(p) \/ Close(p)
             \/ Crash(p) \/ OpenStore(p) \/ (\E r \in Runs : Begin(p, r)) \/ (\E objs : Stage(p, objs))
             \/ SweepFails(p) \/ PruneFails(p) \/ SyncFails(p)
      PROVE  WholeInv'
    <2>1. PICK u : proc' = [proc EXCEPT ![p] = u] /\ ~Publishing(u)
        BY <1>2, QuietSteps
    <2>2. view'.attempts = view.attempts /\ view'.objects = view.objects
        BY <1>2, QuietSteps
    <2> QED BY <2>1, <2>2, QuietWhole
<1>3. ASSUME NEW p \in Writers,
             \/ PruneDone(p) \/ CreateLease(p) \/ Evict(p) \/ EvictSync(p) \/ CleanUp(p) \/ IndexSync(p)
             \/ PublishSync(p) \/ WriteIndex(p) \/ (\E o \in proc[p].todo : Publish(p, o))
      PROVE  WholeInv'
    <2>1. CASE PruneDone(p) \/ CreateLease(p)
        BY <2>1, StartWhole
    <2>2. CASE Evict(p)
        BY <2>2, EvictWhole
    <2>3. CASE EvictSync(p) \/ CleanUp(p) \/ IndexSync(p)
        BY <2>3, CleaningWhole
    <2>4. CASE PublishSync(p) \/ WriteIndex(p)
        BY <2>4, PublishSyncWhole, WriteIndexWhole
    <2>5. CASE \E o \in proc[p].todo : Publish(p, o)
        BY <2>5, PublishWhole
    <2> QED BY <1>3, <2>1, <2>2, <2>3, <2>4, <2>5
<1> QED BY <1>1, <1>2, <1>3 DEF Next, WriterStep

-----------------------------------------------------------------------------
(***************************************************************************)
(* While no writer has gone between a directory change and its sync, the   *)
(* disk is one change behind: an index the lock's holder has renamed or    *)
(* unlinked, or the object it published last.  Whatever part of that a     *)
(* power loss keeps, every index it leaves has its objects.                *)
(***************************************************************************)
Gaps == {"none", "left", "lost"}

DiskInv == gap = "none" =>
    /\ Whole(disk) /\ Referenced(view, {}) \subseteq disk.objects /\ disk.objects \subseteq view.objects
    /\ \/ view.attempts = disk.attempts
       \/ \E p \in Writers : proc[p].at \in {"evicted", "indexed"}
    /\ \/ view.objects = disk.objects
       \/ \E p \in Writers : proc[p].at = "published" /\ view.objects = disk.objects \cup {proc[p].last}

\* What the holder of the lock finds on the disk.
LEMMA HolderDisk ==
    ASSUME StoreInv, DiskInv, gap = "none", NEW p \in Writers, lock = p
    PROVE  /\ proc[p].at \notin {"evicted", "indexed"} => view.attempts = disk.attempts
           /\ proc[p].at # "published" => view.objects = disk.objects
           /\ view.objects = disk.objects \/ view.objects = disk.objects \cup {proc[p].last}
<1>1. \A q \in Writers : proc[q].at \in {"evicted", "indexed", "published"} => q = p
    BY DEF StoreInv, WriterInv, Inside
<1> QED BY <1>1 DEF DiskInv

\* A step of a writer that was not changing a directory, and leaves every index and object alone.
LEMMA QuietDisk ==
    ASSUME DiskInv, NEW p \in Writers, \A q \in Writers \ {p} : proc'[q] = proc[q],
           gap' = "none" => gap = "none" /\ proc[p].at \notin {"evicted", "indexed", "published"},
           view'.attempts = view.attempts, view'.objects = view.objects,
           disk'.attempts = disk.attempts, disk'.objects = disk.objects
    PROVE  DiskInv'
<1> SUFFICES ASSUME gap' = "none" PROVE DiskInv'
    BY DEF DiskInv
<1>1. Referenced(view', {}) = Referenced(view, {}) /\ Referenced(disk', {}) = Referenced(disk, {})
    BY DEF Referenced, Indexed
<1>2. \A q \in Writers : proc[q].at \in {"evicted", "indexed", "published"} => proc'[q] = proc[q]
    OBVIOUS
<1> QED BY <1>1, <1>2 DEF DiskInv, Whole

LEMMA QuietStepsDisk ==
    ASSUME StoreInv, DiskInv, NEW p \in Writers,
           \/ Reconcile(p) \/ Finalize(p) \/ Unlock(p) \/ Unlink(p) \/ Drop(p) \/ Close(p)
           \/ Crash(p) \/ OpenStore(p) \/ (\E r \in Runs : Begin(p, r)) \/ (\E objs : Stage(p, objs))
           \/ SweepFails(p) \/ PruneFails(p) \/ SyncFails(p)
    PROVE  DiskInv'
<1>1. PICK u : proc' = [proc EXCEPT ![p] = u]
    BY QuietSteps
<1>2. /\ view'.attempts = view.attempts /\ view'.objects = view.objects
      /\ disk'.attempts = disk.attempts /\ disk'.objects = disk.objects
    BY QuietSteps
<1>3. \A q \in Writers \ {p} : proc'[q] = proc[q]
    BY <1>1 DEF StoreInv, Types
<1>4. proc[p].at \in {"evicted", "indexed", "published"} => lock = p
    BY DEF StoreInv, WriterInv, Inside
<1>5. gap' = "none" => gap = "none" /\ proc[p].at \notin {"evicted", "indexed", "published"}
    BY <1>4 DEF Reconcile, Finalize, Unlock, Unlink, Drop, Close, Crash, OpenStore, Begin, Stage,
                SweepFails, PruneFails, SyncFails, Abandoned, Changing, Holds, At, Idle
<1> QED BY <1>2, <1>3, <1>5, QuietDisk

LEMMA StartDisk ==
    ASSUME StoreInv, DiskInv, NEW p \in Writers, PruneDone(p) \/ CreateLease(p)
    PROVE  DiskInv'
<1>1. proc \in [Writers -> Procs]
    BY DEF StoreInv, Types
<1>2. \A q \in Writers \ {p} : proc'[q] = proc[q]
    BY <1>1 DEF PruneDone, CreateLease, Goto
<1>3. view' = view /\ disk' = disk /\ gap' = gap /\ proc[p].at \in {"prune", "lease"}
    BY DEF PruneDone, CreateLease, Holds, At
<1> QED BY <1>2, <1>3, QuietDisk

LEMMA EvictDisk ==
    ASSUME StoreInv, DiskInv, NEW p \in Writers, Evict(p)
    PROVE  DiskInv'
<1> SUFFICES ASSUME gap' = "none" PROVE DiskInv'
    BY DEF DiskInv
<1> DEFINE r == Oldest(view, Evictable(p))
<1>1. /\ lock = p /\ proc[p].at = "prune" /\ gap = "none" /\ disk' = disk
      /\ proc' = [proc EXCEPT ![p].at = "evicted"] /\ view' = [view EXCEPT !.attempts[r] = None]
    BY DEF Evict, Goto, Holds, At
<1> HIDE DEF r
<1>2. proc[p] \in Txns /\ proc \in [Writers -> Procs] /\ view \in Stores
    BY <1>1, HolderFacts DEF Types
<1>3. proc'[p].at = "evicted"
    BY <1>1, <1>2 DEF Txns
<1>4. /\ view'.objects = view.objects
      /\ \A x \in Runs : view'.attempts[x] \in {view.attempts[x], None}
    BY <1>1, <1>2 DEF Stores
<1>5. Referenced(view', {}) \subseteq Referenced(view, {})
    BY <1>4 DEF Referenced, Indexed
<1>6. view.objects = disk.objects
    BY <1>1, HolderDisk
<1> QED BY <1>1, <1>3, <1>4, <1>5, <1>6 DEF DiskInv

LEMMA PublishDisk ==
    ASSUME StoreInv, DiskInv, NEW p \in Writers, NEW o \in proc[p].todo, Publish(p, o)
    PROVE  DiskInv'
<1> SUFFICES ASSUME gap' = "none" PROVE DiskInv'
    BY DEF DiskInv
<1>1. lock = p /\ proc[p].at = "publish" /\ gap = "none" /\ disk' = disk
    BY DEF Publish, Holds, At
<1>2. proc[p] \in Txns /\ proc \in [Writers -> Procs] /\ view \in Stores
    BY <1>1, HolderFacts DEF Types
<1>3. view.attempts = disk.attempts /\ view.objects = disk.objects
    BY <1>1, HolderDisk
<1>4. \/ view' = view
      \/ /\ view'.attempts = view.attempts /\ view'.objects = view.objects \cup {o}
         /\ proc'[p].at = "published" /\ proc'[p].last = o
    BY <1>1, <1>2 DEF Publish, Stores, Txns
<1>5. Referenced(view', {}) = Referenced(view, {})
    BY <1>4 DEF Referenced, Indexed
<1> QED BY <1>1, <1>3, <1>4, <1>5 DEF DiskInv

LEMMA PublishSyncDisk ==
    ASSUME StoreInv, DiskInv, NEW p \in Writers, PublishSync(p)
    PROVE  DiskInv'
<1> SUFFICES ASSUME gap' = "none" PROVE DiskInv'
    BY DEF DiskInv
<1> DEFINE o == proc[p].last
<1>1. /\ lock = p /\ proc[p].at = "published" /\ gap = "none" /\ view' = view
      /\ disk' = [disk EXCEPT !.objects = SyncedObjects(o)]
    BY DEF PublishSync, Holds, At
<1>2. disk \in Stores
    BY DEF StoreInv, Types
<1>3. view.attempts = disk.attempts /\ (view.objects = disk.objects \/ view.objects = disk.objects \cup {o})
    BY <1>1, HolderDisk
<1>4. SyncedObjects(o) = view.objects
    BY <1>3 DEF SyncedObjects, Beside
<1>5. disk'.objects = view.objects /\ disk'.attempts = view.attempts
    BY <1>1, <1>2, <1>3, <1>4 DEF Stores
<1>6. Referenced(disk', {}) = Referenced(view, {})
    BY <1>5 DEF Referenced, Indexed
<1> QED BY <1>1, <1>5, <1>6 DEF DiskInv, Whole

LEMMA WriteIndexDisk ==
    ASSUME StoreInv, WholeInv, DiskInv, NEW p \in Writers, WriteIndex(p)
    PROVE  DiskInv'
<1> SUFFICES ASSUME gap' = "none" PROVE DiskInv'
    BY DEF DiskInv
<1>1. /\ lock = p /\ proc[p].at = "publish" /\ gap = "none"
      /\ disk' = [disk EXCEPT !.seq = Sequence(proc[p])]
      /\ view' = [view EXCEPT !.seq = Sequence(proc[p]), !.attempts[proc[p].run] = Entry(proc[p])]
      /\ proc' = [proc EXCEPT ![p].at = "indexed"]
    BY DEF WriteIndex, Holds, At, Goto
<1>2. proc[p] \in Txns /\ proc \in [Writers -> Procs] /\ view \in Stores /\ disk \in Stores
    BY <1>1, HolderFacts DEF Types
<1>3. view.objects = disk.objects
    BY <1>1, HolderDisk
<1>4. /\ view'.objects = view.objects /\ disk'.objects = disk.objects /\ disk'.attempts = disk.attempts
      /\ proc'[p].at = "indexed"
    BY <1>1, <1>2 DEF Stores, Txns
<1>5. Referenced(view', {}) \subseteq view'.objects
    BY WriteIndexWhole DEF WholeInv, Whole
<1>6. Referenced(disk', {}) = Referenced(disk, {})
    BY <1>4 DEF Referenced, Indexed
<1> QED BY <1>1, <1>3, <1>4, <1>5, <1>6 DEF DiskInv, Whole

LEMMA CleaningDisk ==
    ASSUME StoreInv, WholeInv, DiskInv, NEW p \in Writers, EvictSync(p) \/ CleanUp(p) \/ IndexSync(p)
    PROVE  DiskInv'
<1> SUFFICES ASSUME gap' = "none" PROVE DiskInv'
    BY DEF DiskInv
<1>1. lock = p /\ proc[p].at \in {"evicted", "clean", "indexed"} /\ gap = "none"
    BY DEF EvictSync, CleanUp, IndexSync, Holds, At
<1>2. view \in Stores /\ disk \in Stores
    BY DEF StoreInv, Types
<1>3. view.objects = disk.objects /\ (CleanUp(p) => view.attempts = disk.attempts)
    BY <1>1, HolderDisk DEF CleanUp, Holds, At
<1>4. CleanedDisk(view) = Cleaned(view).objects
    BY <1>2, <1>3, CleanedMeaning DEF CleanedDisk, Beside
<1>5. view'.attempts = view.attempts /\ disk'.attempts = view.attempts
    BY <1>2, <1>3, CleanedMeaning DEF EvictSync, CleanUp, IndexSync, IndexedDisk, Stores
<1>6. disk'.objects = view'.objects
    <2>1. CASE EvictSync(p) \/ CleanUp(p)
        BY <1>2, <1>4, <2>1 DEF EvictSync, CleanUp, Stores
    <2>2. CASE IndexSync(p)
        BY <1>2, <1>3, <1>4, <2>2 DEF IndexSync, IndexedDisk, Stores
    <2> QED BY <2>1, <2>2
<1>7. Referenced(view', {}) \subseteq view'.objects
    BY CleaningWhole DEF WholeInv, Whole
<1>8. Referenced(disk', {}) = Referenced(view', {})
    BY <1>5 DEF Referenced, Indexed
<1> QED BY <1>5, <1>6, <1>7, <1>8 DEF DiskInv, Whole

\* Of every index a power loss keeps the new or the old one; both have their objects on the disk.
LEMMA PowerLossWhole ==
    ASSUME StoreInv, DiskInv, gap \in Gaps, PowerLoss, gap' # "lost"
    PROVE  WholeInv' /\ DiskInv'
<1>1. PICK kept \in SUBSET {r \in Runs : view.attempts[r] # disk.attempts[r]},
           objs \in SUBSET ((view.objects \ disk.objects) \cup (disk.objects \ view.objects)) :
        view' = [seq |-> view.seq,
                 attempts |-> [r \in Runs |-> IF r \in kept THEN view.attempts[r]
                                              ELSE disk.attempts[r]],
                 objects |-> (view.objects \cap disk.objects) \cup objs]
    BY DEF PowerLoss
<1>2. disk' = view' /\ proc' = [p \in Writers |-> Idle] /\ gap = gap' /\ gap # "left"
    BY DEF PowerLoss
<1>3. gap = "none"
    BY <1>2 DEF Gaps
<1>4. /\ Referenced(disk, {}) \subseteq disk.objects /\ Referenced(view, {}) \subseteq disk.objects
      /\ disk.objects \subseteq view.objects
    BY <1>3 DEF DiskInv, Whole
<1>5. disk.objects \subseteq view'.objects
    BY <1>1, <1>4
<1>6. \A r \in Runs : view'.attempts[r] = view.attempts[r] \/ view'.attempts[r] = disk.attempts[r]
    BY <1>1
<1>7. Referenced(view', {}) \subseteq Referenced(view, {}) \cup Referenced(disk, {})
    BY <1>6 DEF Referenced, Indexed
<1>8. Whole(view')
    BY <1>4, <1>5, <1>7 DEF Whole
<1>9. \A p \in Writers : proc'[p].at = "off"
    BY <1>2 DEF Idle
<1> QED BY <1>2, <1>8, <1>9 DEF WholeInv, DiskInv, Whole

LEMMA DiskStep ==
    ASSUME ~PowerLoss, StoreInv, WholeInv, DiskInv, [Next]_vars
    PROVE  DiskInv'
<1>1. CASE UNCHANGED vars
    BY <1>1 DEF DiskInv, Whole, Referenced, Indexed, vars
<1>2. ASSUME NEW p \in Writers,
             \/ Reconcile(p) \/ Finalize(p) \/ Unlock(p) \/ Unlink(p) \/ Drop(p) \/ Close(p)
             \/ Crash(p) \/ OpenStore(p) \/ (\E r \in Runs : Begin(p, r)) \/ (\E objs : Stage(p, objs))
             \/ SweepFails(p) \/ PruneFails(p) \/ SyncFails(p)
      PROVE  DiskInv'
    BY <1>2, QuietStepsDisk
<1>3. ASSUME NEW p \in Writers, PruneDone(p) \/ CreateLease(p) \/ Evict(p)
      PROVE  DiskInv'
    BY <1>3, StartDisk, EvictDisk
<1>4. ASSUME NEW p \in Writers, EvictSync(p) \/ CleanUp(p) \/ IndexSync(p)
      PROVE  DiskInv'
    BY <1>4, CleaningDisk
<1>5. ASSUME NEW p \in Writers,
             PublishSync(p) \/ WriteIndex(p) \/ (\E o \in proc[p].todo : Publish(p, o))
      PROVE  DiskInv'
    BY <1>5, PublishSyncDisk, WriteIndexDisk, PublishDisk
<1> QED BY <1>1, <1>2, <1>3, <1>4, <1>5 DEF Next, WriterStep

\* The history variable only ever gets worse.
LEMMA GapStep ==
    ASSUME gap \in Gaps, [Next]_vars
    PROVE  gap' \in Gaps /\ (gap = "lost" => gap' = "lost")
<1>1. CASE UNCHANGED vars
    BY <1>1 DEF vars
<1>2. CASE PowerLoss
    BY <1>2 DEF PowerLoss, Gaps
<1>3. ASSUME NEW p \in Writers, OpenStore(p) \/ SyncFails(p) \/ Crash(p) \/ (\E r \in Runs : Begin(p, r))
      PROVE  gap' \in Gaps /\ (gap = "lost" => gap' = "lost")
    BY <1>3 DEF OpenStore, SyncFails, Crash, Begin, Abandoned, Gaps
<1>4. ASSUME NEW p \in Writers, WriterStep(p)
      PROVE  gap' = gap
    BY <1>4 DEF WriterStep, Reconcile, SweepFails, PruneDone, Evict, EvictSync, PruneFails, CreateLease,
                PublishSync, WriteIndex, IndexSync, CleanUp, Finalize, Unlock, Unlink, Drop, Close,
                Publish, Stage
<1> QED BY <1>1, <1>2, <1>3, <1>4 DEF Next

\* Every index a process can see refers to objects that are there, whatever crashes, whichever
\* sync fails and whenever power fails, unless power fails after a writer has died or given up
\* between a directory change and its sync (publish_staged_object finds an object in place and
\* does not sync it again, and cleanup_unreferenced_objects_locked removes what only an index
\* on the disk refers to).
THEOREM NoIndexDangles == Spec => []NoDangling
<1> DEFINE IInv == StoreInv /\ gap \in Gaps /\ DiskInv /\ (gap # "lost" => WholeInv)
<1>1. Init => IInv
    <2> SUFFICES ASSUME Init PROVE WholeInv /\ DiskInv /\ gap \in Gaps
        BY StoreInit
    <2>1. \A p \in Writers : proc[p].at = "off"
        BY DEF Init, Idle
    <2>2. Indexed(view) = {} /\ disk = view
        BY DEF Init, Empty, Indexed
    <2>3. Whole(view)
        BY <2>2 DEF Whole, Referenced
    <2> QED BY <2>1, <2>2, <2>3 DEF WholeInv, DiskInv, Whole, Gaps, Init
<1>2. IInv /\ [Next]_vars => IInv'
    <2> SUFFICES ASSUME IInv, [Next]_vars PROVE IInv'
        OBVIOUS
    <2>1. StoreInv' /\ gap' \in Gaps /\ (gap = "lost" => gap' = "lost")
        BY StoreStep, GapStep
    <2>2. CASE gap' = "lost"
        BY <2>1, <2>2 DEF DiskInv
    <2>3. CASE gap' # "lost" /\ PowerLoss
        BY <2>1, <2>3, PowerLossWhole
    <2>4. CASE gap' # "lost" /\ ~PowerLoss
        BY <2>1, <2>4, WholeStep, DiskStep
    <2> QED BY <2>1, <2>2, <2>3, <2>4
<1>3. IInv => NoDangling
    BY DEF WholeInv, NoDangling
<1> QED BY <1>1, <1>2, <1>3, PTL DEF Spec
=============================================================================
