------------------------ MODULE ActorMigrationProofs ------------------------
(***************************************************************************)
(* Proofs about hosted sessions and the migration of actors between them,  *)
(* for any number of sessions, plans and faults and any journal length.    *)
(* First a session by itself, for HostedSession and as ActorMigration runs *)
(* it: what replay makes of the journal is what the handlers believe, a    *)
(* session runs on exactly its checkpoint, and no two actors share a       *)
(* generation.  Then the hand-over: no two journals answer for one         *)
(* lineage, and migration implements ActorHandoff.                         *)
(***************************************************************************)
EXTENDS ActorMigration, SequenceTheorems, TLAPS

-----------------------------------------------------------------------------
(***************************************************************************)
(* The inductive invariant of a session.  RecordInv is what a journal can  *)
(* replay to, also between two records of one handler; Travels is what a   *)
(* journal says of a migration; Consistent ties the record in memory, the  *)
(* reservation, the evaluator and the stage of the operation to it.        *)
(***************************************************************************)
States == [lin : Sessions \X Nat, v : Nat]

Checkpoints == {NoCkpt} \cup [gen : Nat, c : States]

Triggers == {"ambiguous", "lost"}

Attempts == [kind : {"attempt"}, gen : Nat \ {0}, trigger : Triggers, at : Nat]

Plans == [src : Sessions, dst : Sessions, c : States, sgen : Nat, shead : Nat, dgen : Nat,
          dhead : Nat]

Peers == {<<>>} \cup (Sessions \X Nat)

Transitions == [plan : Plans, phase : Phases, gen : Nat, actor : BOOLEAN, peer : Peers,
                prev : Checkpoints]

Records == [status : {"Ready", "Executing", "RecoveryRequired", "Migrating", "Migrated", "Closed"},
            gen : Nat, next : Nat \ {0}, actor : BOOLEAN, has : BOOLEAN, ckpt : Checkpoints,
            op : {"none", "accepted", "running"}, amb : Nat, rec : {None} \cup Attempts,
            mig : {NoMig} \cup Transitions, head : Nat]

Workers == {NoWorker, DeadWorker} \cup [is : {"alive"}, c : States \cup {Blank}, gen : Nat]
                                  \cup [is : {"restoring"}, c : States, gen : Nat]

\* State and checkpoint agree.
Saved(d) == d.has <=> d.ckpt # NoCkpt

RecordInv(d) ==
    /\ d.gen = 0 => ~d.actor /\ d.ckpt = NoCkpt /\ d.op = "none"
    /\ d.gen # 0 => d.next = IF d.actor THEN d.gen ELSE d.gen + 1
    /\ d.has => d.actor
    /\ d.ckpt # NoCkpt => d.ckpt.gen <= d.gen
    /\ d.status = "Ready" => d.op = "none" /\ d.rec = None /\ (d.gen # 0 => d.actor)
    /\ d.status = "Executing" => d.op # "none" /\ d.actor /\ d.rec = None
    /\ d.status = "Closed" => d.op = "none" /\ d.rec = None
    /\ d.op = "accepted" => d.status = "Executing"
    /\ d.op # "none" /\ d.status # "Executing" => ~d.actor
    /\ d.status = "Ready" \/ d.op = "accepted" => Saved(d)
    /\ d.amb > 0 /\ d.ckpt = NoCkpt => d.status \in {"RecoveryRequired", "Closed"}
    /\ d.rec # None =>
          /\ d.status = "RecoveryRequired" /\ d.op = "none" /\ ~d.actor
          /\ d.rec.gen = d.gen /\ d.rec.at = d.head /\ d.ckpt # NoCkpt /\ d.ckpt.gen < d.gen
          /\ d.rec.trigger = "ambiguous" => d.amb > 0

Moving(d) == d.status \in {"Migrating", "Migrated"}

\* Execution is blocked in the phases of a migration that is under way, and the
\* checkpoint is the plan's from the moment it is placed; the destination keeps
\* the one it had.
Travels(d) ==
    /\ BlocksExecution(d.mig.phase)
         <=> Moving(d) \/ (d.status = "Closed" /\ d.mig.phase = "Fenced")
    /\ d.status = "Migrated" => d.mig.phase = "Fenced"
    /\ d.status = "Migrating" => d.mig.phase # "Fenced"
    /\ Moving(d) => d.op = "none" /\ d.rec = None
    /\ BlocksExecution(d.mig.phase) =>
         /\ d.gen # 0 /\ d.mig.gen = d.gen
         /\ d.mig.phase \in {"Prepared", "Installed"} =>
               d.actor /\ d.mig.actor /\ d.ckpt = [gen |-> d.gen, c |-> d.mig.plan.c]
         /\ d.mig.phase \notin {"Prepared", "Installed"} => ~d.actor
         /\ d.mig.phase = "Installing" => d.ckpt = d.mig.prev
         /\ d.mig.phase \in {"Activating", "ActivationFailed"} =>
               d.ckpt # NoCkpt /\ d.ckpt.c = d.mig.plan.c
         /\ ~AtSource(d.mig.phase) =>
               /\ d.mig.prev # NoCkpt /\ d.mig.prev.gen = d.mig.plan.dgen
               /\ d.mig.plan.dgen < d.gen

\* Generations are allocated slower than the journal grows, and an actor is
\* born while requests are served.
Numbers(d) ==
    /\ d.next <= d.head /\ (d.gen # 0 => d.gen < d.head)
    /\ d.ckpt = NoCkpt /\ d.gen # 0 => d.gen <= MaxHead

\* What retired evaluators leave to the next.
Fresh(d, n) == IF d.gen = 0 THEN n < d.next ELSE n <= d.gen

Stages(op) ==
    CASE op = "none" -> {"idle"}
      [] op = "accepted" -> {"sending", "queued"}
      [] op = "running" -> {"running", "ran", "saved", "unsaved"}

\* The evaluator of a session with record r at stage g, when the highest retired generation is n.
WorkerInv(r, w, g, n) ==
    /\ r.rec = None /\ ~Unfinished(r.mig) /\ (r.gen # 0 => n < r.gen)
    /\ IF w.gen = 0 THEN w.c = Blank /\ ~r.has /\ (r.gen = 0 \/ g \in {"sending", "queued"})
       ELSE w.gen = r.gen
    /\ r.status = "Ready" \/ g \in {"sending", "queued", "running"} =>
          w.c = IF r.has THEN r.ckpt.c ELSE Blank
    /\ r.status = "Migrating" => w.c = r.ckpt.c
    /\ g = "saved" => r.ckpt.c = w.c

\* A replacement is spawned under the generation of the attempt, on its snapshot.
Restores(r, w, n) ==
    /\ w.gen = r.gen /\ n < r.gen
    /\ \/ r.rec # None /\ w.c = r.ckpt.c
       \/ Unfinished(r.mig) /\ w.c = r.mig.plan.c

Spawned(w) == w.is = "restoring"

\* What an operation of session s has made of the evaluator's state.
Bears(s, r, w, g) ==
    /\ g = "ran" => w.c = Touched(IF r.has THEN r.ckpt.c ELSE Blank, s, r.gen)
    /\ g = "unsaved" /\ r.ckpt # NoCkpt => w.c # Blank /\ w.c.lin = r.ckpt.c.lin

Reserved(r, k) ==
    /\ k \in {"none", "submit", "recover", "restore", "migrate", "install"}
    /\ k = "submit" => r.status = "Ready" /\ r.head < MaxHead
    /\ k = "recover" => r.status = "RecoveryRequired"
    /\ k = "migrate" => r.status \in {"Ready", "Migrating"}
    /\ r.rec # None <=> k = "restore"
    /\ Unfinished(r.mig) <=> k = "install"

\* Two records agree on everything but whether there is state, and, while a
\* migration is under way, whether the actor is still there.
Agree(r, d) ==
    /\ r.status = d.status /\ r.gen = d.gen /\ r.next = d.next
    /\ r.status # "Migrating" => r.actor = d.actor
    /\ r.ckpt = d.ckpt /\ r.op = d.op /\ r.amb = d.amb /\ r.rec = d.rec
    /\ r.mig = d.mig /\ r.head = d.head

\* Record r in memory and d on disk, up or not, with reservation p, evaluator w,
\* stage g and highest retired generation n.
Consistent(r, d, u, p, w, g, n) ==
    /\ RecordInv(d) /\ Fresh(d, n)
    /\ ~u => r = d /\ p = None /\ w = NoWorker /\ g = "idle"
    /\ u =>
          /\ Agree(r, d)
          /\ IF g = "saved" THEN d.has /\ r.ckpt # NoCkpt
                            ELSE r.status # "Migrating" => r.has = d.has
          /\ g \in {"running", "ran"} => Saved(r)
          /\ g \in Stages(r.op) /\ (g # "idle" => r.status = "Executing")
          /\ Reserved(r, p.kind)
          /\ p.kind = "recover" => p.what \in Triggers /\ "kind" \in DOMAIN p
          /\ Alive(w) => WorkerInv(r, w, g, n)

\* The session a transition is recorded by.
Home(m) == IF AtSource(m.phase) THEN m.plan.src ELSE m.plan.dst

Homed(s, d) == d.mig # NoMig => s = Home(d.mig)

SessionInv(s) ==
    /\ Consistent(live[s], disk[s], up[s], prep[s], worker[s], stage[s], retired[s])
    /\ Travels(disk[s]) /\ Numbers(disk[s]) /\ Homed(s, disk[s])
    /\ Alive(worker[s]) => Bears(s, live[s], worker[s], stage[s])
    /\ Spawned(worker[s]) => Restores(live[s], worker[s], retired[s])

Types ==
    /\ live \in [Sessions -> Records] /\ disk \in [Sessions -> Records]
    /\ up \in [Sessions -> BOOLEAN] /\ worker \in [Sessions -> Workers]
    /\ retired \in [Sessions -> Nat] /\ prep = [s \in Sessions |-> prep[s]]
    /\ stage = [s \in Sessions |-> stage[s]]

HostedInv == Types /\ \A s \in Sessions : SessionInv(s)

\* An isolated session is not in service, and what was to be repaired was no
\* settled step of a migration.
Aside(s) ==
    isolated[s] # "no" => ~up[s] /\ (Moving(disk[s]) => Unfinished(disk[s].mig))

AsideInv == isolated = [s \in Sessions |-> isolated[s]] /\ \A s \in Sessions : Aside(s)

-----------------------------------------------------------------------------
(***************************************************************************)
(* Replaying no event, one or two.                                         *)
(***************************************************************************)

LEMMA ReplayNone ==
    ASSUME NEW s, NEW d
    PROVE  ReplayAll(s, d, <<>>) = d
<1> DEFINE D == DOMAIN <<>>
           F(g) == [S \in SUBSET D |-> IF S = {} THEN d
                                       ELSE Replay(s, g[S \ {Max(S)}], <<>>[Max(S)])]
           it == CHOOSE g : g = F(g)
<1>1. ReplayAll(s, d, <<>>) = it[D]
    BY DEF ReplayAll, FoldLeft, MapThenFoldSet
<1>2. D = {}
    OBVIOUS
<1> DEFINE h == [S \in SUBSET D |-> d]
<1>3. h = F(h)
    BY <1>2
<1>4. it = F(it)
    BY <1>3
<1>5. it[D] = d
    BY <1>2, <1>4
<1> QED BY <1>1, <1>5

LEMMA ReplayOne ==
    ASSUME NEW s, NEW d, NEW e
    PROVE  ReplayAll(s, d, <<e>>) = Replay(s, d, e)
<1> DEFINE es == <<e>>
           D == DOMAIN es
           F(g) == [S \in SUBSET D |-> IF S = {} THEN d
                                       ELSE Replay(s, g[S \ {Max(S)}], es[Max(S)])]
           it == CHOOSE g : g = F(g)
<1>1. ReplayAll(s, d, es) = it[D]
    BY DEF ReplayAll, FoldLeft, MapThenFoldSet
<1>2. D = {1} /\ es[1] = e
    OBVIOUS
<1> HIDE DEF es, D
<1>3. Max({1}) = 1
    BY DEF Max
<1> DEFINE h == [S \in SUBSET D |-> IF S = {} THEN d ELSE Replay(s, d, e)]
<1>4. h = F(h)
    <2>1. ASSUME NEW S \in SUBSET D PROVE h[S] = F(h)[S]
        <3>1. S = {} \/ S = {1}
            BY <1>2
        <3>2. {} \in SUBSET D /\ {1} \ {1} = {}
            OBVIOUS
        <3> QED BY <1>2, <1>3, <3>1, <3>2
    <2> QED BY <2>1
<1>5. it = F(it)
    BY <1>4
<1>6. it[{}] = d
    BY <1>5
<1>7. it[{1}] = Replay(s, it[{1} \ {1}], e)
    BY <1>2, <1>3, <1>5
<1>8. {1} \ {1} = {}
    OBVIOUS
<1> QED BY <1>1, <1>2, <1>6, <1>7, <1>8 DEF es

LEMMA ReplayTwo ==
    ASSUME NEW s, NEW d, NEW e1, NEW e2
    PROVE  ReplayAll(s, d, <<e1, e2>>) = Replay(s, Replay(s, d, e1), e2)
<1> DEFINE es == <<e1, e2>>
           D == DOMAIN es
           F(g) == [S \in SUBSET D |-> IF S = {} THEN d
                                       ELSE Replay(s, g[S \ {Max(S)}], es[Max(S)])]
           it == CHOOSE g : g = F(g)
<1>1. ReplayAll(s, d, es) = it[D]
    BY DEF ReplayAll, FoldLeft, MapThenFoldSet
<1>2. D = {1, 2} /\ es[1] = e1 /\ es[2] = e2
    OBVIOUS
<1> HIDE DEF es, D
<1>3. Max({1}) = 1 /\ Max({2}) = 2 /\ Max({1, 2}) = 2
    BY DEF Max
<1>4. {1} \ {1} = {} /\ {2} \ {2} = {} /\ {1, 2} \ {2} = {1}
    OBVIOUS
<1>5. \A S \in SUBSET D : S = {} \/ S = {1} \/ S = {2} \/ S = {1, 2}
    BY <1>2
<1>6. {} \in SUBSET D /\ {1} \in SUBSET D /\ {2} \in SUBSET D /\ {1, 2} \in SUBSET D
    BY <1>2
<1>7. {1} # {} /\ {2} # {} /\ {1, 2} # {} /\ {1} # {2} /\ {1} # {1, 2} /\ {2} # {1, 2}
    OBVIOUS
<1> DEFINE h == [S \in SUBSET D |-> IF S = {} THEN d
                                    ELSE IF S = {1} THEN Replay(s, d, e1)
                                    ELSE IF S = {2} THEN Replay(s, d, e2)
                                    ELSE Replay(s, Replay(s, d, e1), e2)]
<1>8. h = F(h)
    <2>1. ASSUME NEW S \in SUBSET D PROVE h[S] = F(h)[S]
        <3>1. /\ h[{}] = d /\ h[{1}] = Replay(s, d, e1) /\ h[{2}] = Replay(s, d, e2)
              /\ h[{1, 2}] = Replay(s, Replay(s, d, e1), e2)
            BY <1>6, <1>7
        <3>2. F(h)[S] = IF S = {} THEN d ELSE Replay(s, h[S \ {Max(S)}], es[Max(S)])
            OBVIOUS
        <3> HIDE DEF h, F
        <3>3. CASE S = {} \/ S = {1}
            BY <1>2, <1>3, <1>4, <1>7, <3>1, <3>2, <3>3
        <3>4. CASE S = {2}
            BY <1>2, <1>3, <1>4, <1>7, <3>1, <3>2, <3>4
        <3>5. CASE S = {1, 2}
            BY <1>2, <1>3, <1>4, <1>7, <3>1, <3>2, <3>5
        <3> QED BY <1>5, <3>3, <3>4, <3>5
    <2> QED BY <2>1
<1>9. it = F(it)
    BY <1>8
<1>10. it[{}] = d
    BY <1>6, <1>9
<1>11. it[{1}] = Replay(s, it[{}], e1)
    BY ZenonT(40), <1>2, <1>3, <1>4, <1>6, <1>7, <1>9
<1>12. it[{1, 2}] = Replay(s, it[{1}], e2)
    BY ZenonT(40), <1>2, <1>3, <1>4, <1>6, <1>7, <1>9
<1> QED BY <1>1, <1>2, <1>10, <1>11, <1>12 DEF es

-----------------------------------------------------------------------------
(***************************************************************************)
(* How a step of a session, migrations aside, may change its journal.      *)
(***************************************************************************)

\* Generation g was allocated before any actor that session d may still bear.
Below(g, d) ==
    IF d.gen = 0 THEN g < d.next ELSE IF d.ckpt = NoCkpt THEN g < d.gen ELSE g <= d.gen

\* The checkpoint of session s is given up, kept, carried on by one operation,
\* or the first of a new actor.
Steps(s, d, e) ==
    \/ e.ckpt = NoCkpt
    \/ /\ d.ckpt # NoCkpt /\ e.ckpt # NoCkpt
       /\ e.ckpt.c = d.ckpt.c \/ e.ckpt.c = [d.ckpt.c EXCEPT !.v = @ + 1]
    \/ /\ d.ckpt = NoCkpt /\ e.ckpt # NoCkpt /\ d.gen \in 1..MaxHead
       /\ e.gen = d.gen /\ e.ckpt.c = [lin |-> <<s, d.gen>>, v |-> 1]

\* A session outside of migrations goes on, or a migrated one is closed.
Works(s, d, e) ==
    /\ d.status # "Closed" /\ e.mig = d.mig
    /\ \/ ~Moving(d) /\ ~Moving(e) /\ Steps(s, d, e)
       \/ /\ d.status = "Migrated" /\ e.status = "Closed"
          /\ e.gen = d.gen /\ e.actor = d.actor /\ e.ckpt = d.ckpt

\* A restart refuses the restore it finds unfinished.
Repairs(d, e) ==
    /\ Unfinished(d.mig) /\ e.mig = RepairedMigration(d.mig)
    /\ e.status = IF d.mig.phase = "Installing" THEN "RecoveryRequired" ELSE "Migrating"
    /\ e.gen = d.gen /\ ~e.actor /\ e.ckpt = d.ckpt /\ e.op = d.op /\ e.rec = d.rec

\* An isolated session is reset or closed with its restore unfinished.
Overtakes(d, e) ==
    /\ Unfinished(d.mig) /\ e.mig = Overtaken(d.mig) /\ e.op = d.op
    /\ \/ e.status = "Ready" /\ e.ckpt = NoCkpt
       \/ e.status = "Closed" /\ e.ckpt = d.ckpt

Carries(s, d, e) ==
    /\ d.head <= e.head /\ Numbers(e)
    /\ \A g \in Nat : Below(g, d) => Below(g, e)
    /\ e = d \/ Works(s, d, e) \/ Repairs(d, e) \/ Overtakes(d, e)

\* Session s took a step of its own.
Kept(s) ==
    /\ \A t \in Sessions \ {s} : disk'[t] = disk[t] /\ prep'[t] = prep[t] /\ up'[t] = up[t]
    /\ Carries(s, disk[s], disk'[s])
    /\ prep'[s] = prep[s] \/ prep'[s].kind \notin {"migrate", "install"}

-----------------------------------------------------------------------------
(***************************************************************************)
(* A step of one session leaves the others alone.                          *)
(***************************************************************************)
Moves(s, r, d, u, p, w, g, n) ==
    /\ live' = [live EXCEPT ![s] = r] /\ disk' = [disk EXCEPT ![s] = d]
    /\ up' = [up EXCEPT ![s] = u] /\ prep' = [prep EXCEPT ![s] = p]
    /\ worker' = [worker EXCEPT ![s] = w] /\ stage' = [stage EXCEPT ![s] = g]
    /\ retired' = [retired EXCEPT ![s] = n]

LEMMA FramedAlone ==
    ASSUME HostedInv, NEW s \in Sessions,
           NEW r \in Records, NEW d \in Records, NEW u \in BOOLEAN, NEW p,
           NEW w \in Workers, NEW g, NEW n \in Nat,
           Moves(s, r, d, u, p, w, g, n), Consistent(r, d, u, p, w, g, n),
           Travels(d), Numbers(d), Homed(s, d),
           ~Alive(w) \/ g \notin {"ran", "unsaved"} \/ Bears(s, r, w, g),
           ~Spawned(w) \/ Restores(r, w, n)
    PROVE  HostedInv'
<1>1. Types'
    BY DEF HostedInv, Types, Moves
<1>2. SessionInv(s)'
    <2>1. Alive(w) => Bears(s, r, w, g)
        BY DEF Bears
    <2>2. /\ live'[s] = r /\ disk'[s] = d /\ up'[s] = u /\ prep'[s] = p
          /\ worker'[s] = w /\ stage'[s] = g /\ retired'[s] = n
        BY DEF HostedInv, Types, Moves
    <2> QED BY <2>1, <2>2 DEF SessionInv
<1>3. ASSUME NEW t \in Sessions, t # s PROVE SessionInv(t)'
    <2>1. SessionInv(t)
        BY DEF HostedInv
    <2>2. /\ live'[t] = live[t] /\ disk'[t] = disk[t] /\ up'[t] = up[t] /\ prep'[t] = prep[t]
          /\ worker'[t] = worker[t] /\ stage'[t] = stage[t] /\ retired'[t] = retired[t]
        BY <1>3 DEF HostedInv, Types, Moves
    <2> QED BY <2>1, <2>2 DEF SessionInv
<1> QED BY <1>1, <1>2, <1>3 DEF HostedInv

LEMMA OvertakenIs ==
    ASSUME NEW d \in Records
    PROVE  /\ Overtaken(d.mig) \in {NoMig} \cup Transitions
           /\ ~Unfinished(d.mig) => Overtaken(d.mig) = d.mig
           /\ Unfinished(d.mig) =>
                /\ d.mig \in Transitions /\ d.mig # NoMig
                /\ Overtaken(d.mig) = [d.mig EXCEPT !.phase = "Overtaken"]
                /\ Overtaken(d.mig).phase = "Overtaken" /\ Overtaken(d.mig).plan = d.mig.plan
           /\ ~Unfinished(Overtaken(d.mig))
<1>1. d.mig \in {NoMig} \cup Transitions
    BY DEF Records
<1>2. Unfinished(d.mig) => d.mig \in Transitions /\ d.mig # NoMig
    BY <1>1 DEF Unfinished, NoMig
<1>3. d.mig \in Transitions =>
        /\ [d.mig EXCEPT !.phase = "Overtaken"] \in Transitions
        /\ [d.mig EXCEPT !.phase = "Overtaken"].phase = "Overtaken"
        /\ [d.mig EXCEPT !.phase = "Overtaken"].plan = d.mig.plan
    BY DEF Transitions, Phases
<1> QED BY <1>1, <1>2, <1>3 DEF Overtaken, Unfinished

LEMMA StillTravels ==
    ASSUME NEW s, NEW d \in Records, NEW e \in Records, Travels(d), Carries(s, d, e)
    PROVE  Travels(e)
<1>1. CASE e = d
    BY <1>1
<1>2. CASE Works(s, d, e) /\ ~Moving(d)
    BY <1>2 DEF Works, Travels, Moving, BlocksExecution
<1>3. CASE Works(s, d, e) /\ Moving(d)
    BY <1>3 DEF Works, Travels, Moving, BlocksExecution, AtSource
<1>4. CASE Repairs(d, e)
    <2> DEFINE m == d.mig
               phase == IF m.phase = "Installing" THEN "InstallFailed" ELSE "ActivationFailed"
    <2>1. m \in Transitions /\ m.phase \in {"Installing", "Activating"}
        BY <1>4 DEF Repairs, Unfinished, Records, NoMig
    <2>2. e.mig = [m EXCEPT !.phase = phase, !.actor = FALSE]
        BY <1>4 DEF Repairs, RepairedMigration
    <2>3. /\ e.mig.phase = phase /\ e.mig.plan = m.plan /\ e.mig.gen = m.gen
          /\ e.mig.prev = m.prev
        BY <2>1, <2>2 DEF Transitions
    <2>4. /\ d.gen # 0 /\ m.gen = d.gen /\ d.op = "none" /\ d.rec = None
          /\ m.prev # NoCkpt /\ m.prev.gen = m.plan.dgen /\ m.plan.dgen < d.gen
          /\ m.phase = "Activating" => d.ckpt # NoCkpt /\ d.ckpt.c = m.plan.c
        BY <2>1 DEF Travels, BlocksExecution, AtSource, Moving
    <2> QED BY <1>4, <2>1, <2>3, <2>4 DEF Repairs, Travels, BlocksExecution, AtSource, Moving
<1>5. CASE Overtakes(d, e)
    <2>1. e.mig.phase = "Overtaken"
        BY <1>5, OvertakenIs DEF Overtakes
    <2> QED BY <1>5, <2>1 DEF Overtakes, Travels, BlocksExecution, Moving
<1> QED BY <1>1, <1>2, <1>3, <1>4, <1>5 DEF Carries

LEMMA StillHomed ==
    ASSUME NEW s, NEW d \in Records, NEW e \in Records, Homed(s, d), Carries(s, d, e)
    PROVE  Homed(s, e)
<1>1. CASE e.mig = d.mig
    BY <1>1 DEF Homed
<1>2. CASE Repairs(d, e)
    <2> DEFINE m == d.mig
               phase == IF m.phase = "Installing" THEN "InstallFailed" ELSE "ActivationFailed"
    <2>1. m \in Transitions /\ m.phase \in {"Installing", "Activating"} /\ m # NoMig
        BY <1>2 DEF Repairs, Unfinished, Records, NoMig
    <2>2. e.mig = [m EXCEPT !.phase = phase, !.actor = FALSE]
        BY <1>2 DEF Repairs, RepairedMigration
    <2>3. e.mig.phase = phase /\ e.mig.plan = m.plan
        BY <2>1, <2>2 DEF Transitions
    <2> QED BY <2>1, <2>3 DEF Homed, Home, AtSource
<1>3. CASE Overtakes(d, e)
    <2>1. /\ d.mig # NoMig /\ d.mig.phase \in {"Installing", "Activating"}
          /\ e.mig.phase = "Overtaken" /\ e.mig.plan = d.mig.plan
        BY <1>3, OvertakenIs DEF Overtakes, Unfinished
    <2> QED BY <2>1 DEF Homed, Home, AtSource
<1> QED BY <1>1, <1>2, <1>3 DEF Carries, Works

LEMMA Framed ==
    ASSUME HostedInv, NEW s \in Sessions,
           NEW r \in Records, NEW d \in Records, NEW u \in BOOLEAN, NEW p,
           NEW w \in Workers, NEW g, NEW n \in Nat,
           Moves(s, r, d, u, p, w, g, n), Consistent(r, d, u, p, w, g, n),
           Carries(s, disk[s], d), p = prep[s] \/ p.kind \notin {"migrate", "install"},
           ~Alive(w) \/ g \notin {"ran", "unsaved"} \/ Bears(s, r, w, g),
           ~Spawned(w) \/ Restores(r, w, n)
    PROVE  HostedInv' /\ Kept(s)
<1>1. Travels(disk[s]) /\ Homed(s, disk[s]) /\ disk[s] \in Records
    BY DEF HostedInv, SessionInv, Types
<1>2. Travels(d) /\ Numbers(d) /\ Homed(s, d)
    BY <1>1, StillTravels, StillHomed DEF Carries
<1>3. HostedInv'
    BY <1>2, FramedAlone
<1>4. disk'[s] = d /\ prep'[s] = p
    BY DEF HostedInv, Types, Moves
<1>5. \A t \in Sessions \ {s} : disk'[t] = disk[t] /\ prep'[t] = prep[t] /\ up'[t] = up[t]
    BY DEF HostedInv, Types, Moves
<1> QED BY <1>3, <1>4, <1>5 DEF Kept

\* The highest retired generation once worker w is gone.
Gone(w, n) == IF Physical(w) /\ w.gen > n THEN w.gen ELSE n

LEMMA Now ==
    ASSUME HostedInv, NEW s \in Sessions
    PROVE  /\ live[s] \in Records /\ disk[s] \in Records /\ up[s] \in BOOLEAN
           /\ worker[s] \in Workers /\ retired[s] \in Nat /\ Gone(worker[s], retired[s]) \in Nat
           /\ Consistent(live[s], disk[s], up[s], prep[s], worker[s], stage[s], retired[s])
<1>1. /\ live[s] \in Records /\ disk[s] \in Records /\ up[s] \in BOOLEAN
      /\ worker[s] \in Workers /\ retired[s] \in Nat
      /\ Consistent(live[s], disk[s], up[s], prep[s], worker[s], stage[s], retired[s])
    BY DEF HostedInv, Types, SessionInv
<1>2. Physical(worker[s]) => worker[s].gen \in Nat
    BY <1>1 DEF Workers, Physical, NoWorker, DeadWorker
<1> QED BY <1>1, <1>2 DEF Gone

LEMMA Also ==
    ASSUME HostedInv, NEW s \in Sessions
    PROVE  /\ Travels(disk[s]) /\ Numbers(disk[s])
           /\ Alive(worker[s]) => Bears(s, live[s], worker[s], stage[s])
           /\ Spawned(worker[s]) => Restores(live[s], worker[s], retired[s])
           /\ Carries(s, disk[s], disk[s])
<1>1. /\ Travels(disk[s]) /\ Numbers(disk[s])
      /\ Alive(worker[s]) => Bears(s, live[s], worker[s], stage[s])
      /\ Spawned(worker[s]) => Restores(live[s], worker[s], retired[s])
    BY DEF HostedInv, SessionInv
<1>2. disk[s].head <= disk[s].head
    BY Now DEF Records
<1> QED BY <1>1, <1>2 DEF Carries

\* Statuses that are neither Migrating nor Migrated.
LEMMA NotMoving ==
    ASSUME NEW d \in Records, Travels(d), d.status \in {"Ready", "Executing", "RecoveryRequired"}
    PROVE  ~Moving(d) /\ ~BlocksExecution(d.mig.phase) /\ ~Unfinished(d.mig)
BY DEF Travels, Moving, Unfinished, BlocksExecution

\* An event that leaves generation and checkpoint alone.
LEMMA CarriesOn ==
    ASSUME NEW s, NEW d \in Records, NEW e \in Records, Numbers(d), ~Moving(d), ~Moving(e),
           d.status # "Closed", e.mig = d.mig, e.gen = d.gen, e.ckpt = d.ckpt,
           d.head <= e.head, e.next <= e.head, e.gen = 0 => d.next <= e.next
    PROVE  Carries(s, d, e)
<1>1. d.head \in Nat /\ e.head \in Nat /\ d.gen \in Nat /\ d.next \in Nat /\ e.next \in Nat
    BY DEF Records
<1>2. Numbers(e)
    BY <1>1 DEF Numbers
<1>3. \A g \in Nat : Below(g, d) => Below(g, e)
    BY <1>1 DEF Below
<1>4. Steps(s, d, e)
    BY DEF Steps
<1> QED BY <1>2, <1>3, <1>4 DEF Carries, Works

\* An actor fence: the generation is kept for recovery or given up.
LEMMA CarriesFence ==
    ASSUME NEW s, NEW d \in Records, NEW e \in Records, Numbers(d), ~Moving(d), ~Moving(e),
           d.status # "Closed", e.mig = d.mig, e.gen \in {d.gen, 0}, e.ckpt = d.ckpt,
           d.gen # 0, e.next = d.gen + 1, d.head < e.head
    PROVE  Carries(s, d, e)
<1>1. d.head \in Nat /\ e.head \in Nat /\ d.gen \in Nat /\ d.next \in Nat /\ e.next \in Nat
    BY DEF Records
<1>2. Numbers(e)
    BY <1>1 DEF Numbers
<1>3. \A g \in Nat : Below(g, d) => Below(g, e)
    BY <1>1 DEF Below
<1>4. Steps(s, d, e)
    BY DEF Steps
<1> QED BY <1>1, <1>2, <1>3, <1>4 DEF Carries, Works

\* A running session outside of migrations.
LEMMA Serving ==
    ASSUME HostedInv, NEW s \in Sessions, up[s],
           live[s].status \in {"Ready", "Executing", "RecoveryRequired"}
    PROVE  /\ ~Unfinished(live[s].mig) /\ ~Unfinished(disk[s].mig) /\ ~Moving(disk[s])
           /\ Numbers(disk[s]) /\ disk[s].status = live[s].status /\ Agree(live[s], disk[s])
           /\ prep[s].kind # "install"
<1>1. Agree(live[s], disk[s]) /\ disk[s] \in Records /\ Reserved(live[s], prep[s].kind)
    BY Now DEF Consistent
<1>2. disk[s].status = live[s].status /\ disk[s].mig = live[s].mig
    BY <1>1 DEF Agree
<1> QED BY <1>1, <1>2, Also, NotMoving DEF Reserved

\* A session that is restoring nothing has no replacement.
LEMMA NotSpawned ==
    ASSUME HostedInv, NEW s \in Sessions
    PROVE  /\ live[s].rec = None /\ ~Unfinished(live[s].mig) => ~Spawned(worker[s])
           /\ Alive(worker[s]) => ~Spawned(worker[s])
           /\ ~Spawned(worker[s]) => Physical(worker[s]) = Alive(worker[s])
           /\ ~Physical(NoWorker) /\ ~Alive(NoWorker) /\ ~Spawned(NoWorker)
           /\ ~Physical(DeadWorker) /\ ~Alive(DeadWorker) /\ ~Spawned(DeadWorker)
<1>1. live[s].rec = None /\ ~Unfinished(live[s].mig) => ~Spawned(worker[s])
    BY Also DEF Restores
<1> QED BY <1>1 DEF Alive, Spawned, Physical, NoWorker, DeadWorker

\* An operation keeps the lineage of a state.
LEMMA TouchedKeeps ==
    ASSUME NEW s \in Sessions, NEW g \in Nat, NEW c \in States
    PROVE  /\ Touched(c, s, g) = [c EXCEPT !.v = @ + 1] /\ Touched(c, s, g).lin = c.lin
           /\ Touched(c, s, g) \in States
           /\ \A x \in States : x # Blank
<1>1. \A x \in States : x # Blank
    <2>1. <<>> \notin Sessions \X Nat
        OBVIOUS
    <2>2. ASSUME NEW x \in States PROVE x # Blank
        <3>1. x.lin \in Sessions \X Nat /\ Blank.lin = <<>>
            BY DEF States, Blank
        <3> QED BY <2>1, <3>1
    <2> QED BY <2>2
<1>2. Touched(c, s, g) = [c EXCEPT !.v = @ + 1]
    BY <1>1 DEF Touched
<1>3. [c EXCEPT !.v = @ + 1] \in States /\ [c EXCEPT !.v = @ + 1].lin = c.lin
    BY DEF States
<1> QED BY <1>1, <1>2, <1>3

LEMMA Same ==
    ASSUME HostedInv, NEW s \in Sessions
    PROVE  /\ live = [live EXCEPT ![s] = live[s]] /\ disk = [disk EXCEPT ![s] = disk[s]]
           /\ up = [up EXCEPT ![s] = up[s]] /\ prep = [prep EXCEPT ![s] = prep[s]]
           /\ worker = [worker EXCEPT ![s] = worker[s]]
           /\ stage = [stage EXCEPT ![s] = stage[s]]
           /\ retired = [retired EXCEPT ![s] = retired[s]]
<1>1. /\ live = [t \in Sessions |-> live[t]] /\ disk = [t \in Sessions |-> disk[t]]
      /\ up = [t \in Sessions |-> up[t]] /\ worker = [t \in Sessions |-> worker[t]]
      /\ retired = [t \in Sessions |-> retired[t]] /\ prep = [t \in Sessions |-> prep[t]]
      /\ stage = [t \in Sessions |-> stage[t]]
    BY DEF HostedInv, Types
<1> QED BY <1>1

-----------------------------------------------------------------------------
(***************************************************************************)
(* What an event makes of a record, field by field.                        *)
(***************************************************************************)
Is(x, status, gen, next, actor, has, ckpt, op, amb, rec, mig, head) ==
    /\ x \in Records
    /\ x.status = status /\ x.gen = gen /\ x.next = next /\ x.actor = actor /\ x.has = has
    /\ x.ckpt = ckpt /\ x.op = op /\ x.amb = amb /\ x.rec = rec /\ x.mig = mig /\ x.head = head

LEMMA Advanced ==
    ASSUME NEW x, NEW status, NEW gen, NEW next, NEW actor, NEW has, NEW ckpt, NEW op, NEW amb,
           NEW rec, NEW mig, NEW head, Is(x, status, gen, next, actor, has, ckpt, op, amb, rec, mig, head),
           NEW k \in Nat
    PROVE  Is([x EXCEPT !.head = k], status, gen, next, actor, has, ckpt, op, amb, rec, mig, k)
<1> DEFINE y == [x EXCEPT !.head = k]
<1>1. y = [x EXCEPT !.head = k]
    OBVIOUS
<1> HIDE DEF y
<1>2. y \in Records
    BY <1>1 DEF Is, Records
<1>3. /\ y.status = status /\ y.gen = gen /\ y.next = next /\ y.actor = actor /\ y.has = has
      /\ y.ckpt = ckpt /\ y.op = op /\ y.amb = amb /\ y.rec = rec /\ y.mig = mig /\ y.head = k
    BY <1>1 DEF Is, Records
<1> QED BY <1>2, <1>3 DEF Is, y

\* A journal that is not closed takes an event that replay accepts.
LEMMA ReplayedAs ==
    ASSUME NEW s, NEW d \in Records, d.status # "Closed", NEW e, ReplayAccepts(s, d, e),
           NEW status, NEW gen, NEW next, NEW actor, NEW has, NEW ckpt, NEW op, NEW amb, NEW rec,
           NEW mig,
           Is(ReplayEffect(d, e), status, gen, next, actor, has, ckpt, op, amb, rec, mig, d.head)
    PROVE  Is(Replay(s, d, e), status, gen, next, actor, has, ckpt, op, amb, rec, mig, d.head + 1)
<1>1. d # Unreadable
    BY DEF Records, Unreadable
<1>2. Replay(s, d, e) = [ReplayEffect(d, e) EXCEPT !.head = @ + 1]
    BY <1>1 DEF Replay
<1>3. ReplayEffect(d, e).head = d.head /\ d.head + 1 \in Nat
    BY DEF Is, Records
<1>4. Replay(s, d, e) = [ReplayEffect(d, e) EXCEPT !.head = d.head + 1]
    BY <1>2, <1>3
<1> QED BY <1>3, <1>4, Advanced

LEMMA Replayed ==
    ASSUME NEW s, NEW d \in Records, d.status # "Closed", NEW e, ReplayAccepts(s, d, e),
           NEW status, NEW gen, NEW next, NEW actor, NEW has, NEW ckpt, NEW op, NEW amb, NEW rec,
           Is(ReplayEffect(d, e), status, gen, next, actor, has, ckpt, op, amb, rec, d.mig, d.head)
    PROVE  Is(Replay(s, d, e), status, gen, next, actor, has, ckpt, op, amb, rec, d.mig, d.head + 1)
BY ReplayedAs

\* The common case of a step that appends one event.
LEMMA CarriesIs ==
    ASSUME HostedInv, NEW s \in Sessions, up[s],
           live[s].status \in {"Ready", "Executing", "RecoveryRequired"},
           NEW status \in {"Ready", "Executing", "RecoveryRequired", "Closed"},
           NEW actor, NEW has, NEW op, NEW amb, NEW rec, NEW d,
           Is(d, status, live[s].gen, live[s].next, actor, has, live[s].ckpt, op, amb, rec,
              live[s].mig, live[s].head + 1)
    PROVE  Carries(s, disk[s], d)
<1>1. /\ Numbers(disk[s]) /\ ~Moving(disk[s]) /\ disk[s].status # "Closed"
      /\ Agree(live[s], disk[s])
    BY Serving
<1>2. /\ disk[s] \in Records /\ d \in Records /\ disk[s].head \in Nat /\ disk[s].next \in Nat
      /\ d.mig = disk[s].mig /\ d.gen = disk[s].gen /\ d.ckpt = disk[s].ckpt
      /\ d.next = disk[s].next /\ d.head = disk[s].head + 1 /\ ~Moving(d)
    BY <1>1, Now DEF Is, Agree, Records, Moving
<1> QED BY <1>1, <1>2, CarriesOn DEF Numbers

LEMMA OnAccepted ==
    ASSUME NEW s, NEW d \in Records, d.status # "Closed", NEW g \in Nat, NEW f \in BOOLEAN,
           IF d.gen = 0 THEN g = d.next ELSE g = d.gen /\ d.actor /\ ~f
    PROVE  Is(Replay(s, d, [kind |-> "Accepted", gen |-> g, fresh |-> f]), "Executing", g,
              d.next, TRUE, d.has, d.ckpt, "accepted", d.amb, d.rec, d.mig, d.head + 1)
<1> DEFINE e == [kind |-> "Accepted", gen |-> g, fresh |-> f]
           x == ReplayEffect(d, e)
<1>1. e.kind = "Accepted" /\ e.gen = g /\ e.fresh = f
    OBVIOUS
<1> HIDE DEF e
<1>2. ReplayAccepts(s, d, e)
    BY <1>1 DEF ReplayAccepts
<1>3. x = [d EXCEPT !.actor = TRUE, !.gen = g, !.op = "accepted", !.status = "Executing"]
    BY <1>1 DEF ReplayEffect
<1> HIDE DEF x
<1>4. Is(x, "Executing", g, d.next, TRUE, d.has, d.ckpt, "accepted", d.amb, d.rec, d.mig, d.head)
    BY <1>3 DEF Is, Records
<1> QED BY <1>2, <1>4, Replayed DEF e, x

LEMMA OnStarted ==
    ASSUME NEW s, NEW d \in Records, d.status # "Closed", d.op # "none"
    PROVE  Is(Replay(s, d, [kind |-> "Started", gen |-> d.gen]), "Executing", d.gen, d.next,
              d.actor, d.has, d.ckpt, "running", d.amb, d.rec, d.mig, d.head + 1)
<1> DEFINE e == [kind |-> "Started", gen |-> d.gen]
           x == ReplayEffect(d, e)
<1>1. e.kind = "Started" /\ e.gen = d.gen
    OBVIOUS
<1> HIDE DEF e
<1>2. ReplayAccepts(s, d, e)
    BY <1>1 DEF ReplayAccepts
<1>3. x = [d EXCEPT !.op = "running", !.status = "Executing"]
    BY <1>1 DEF ReplayEffect
<1> HIDE DEF x
<1>4. Is(x, "Executing", d.gen, d.next, d.actor, d.has, d.ckpt, "running", d.amb, d.rec, d.mig, d.head)
    BY <1>3 DEF Is, Records
<1> QED BY <1>2, <1>4, Replayed DEF e, x

LEMMA OnCheckpointed ==
    ASSUME NEW s, NEW d \in Records, d.status # "Closed", NEW c \in States
    PROVE  Is(Replay(s, d, [kind |-> "Checkpointed", gen |-> d.gen, c |-> c]), d.status, d.gen,
              d.next, d.actor, TRUE, [gen |-> d.gen, c |-> c], d.op, d.amb, d.rec, d.mig, d.head + 1)
<1> DEFINE e == [kind |-> "Checkpointed", gen |-> d.gen, c |-> c]
           x == ReplayEffect(d, e)
<1>1. e.kind = "Checkpointed" /\ e.gen = d.gen /\ e.c = c
    OBVIOUS
<1> HIDE DEF e
<1>2. ReplayAccepts(s, d, e)
    BY <1>1 DEF ReplayAccepts, Records
<1>3. x = [d EXCEPT !.ckpt = [gen |-> d.gen, c |-> c], !.has = TRUE]
    BY <1>1 DEF ReplayEffect
<1> HIDE DEF x
<1>4. Is(x, d.status, d.gen, d.next, d.actor, TRUE, [gen |-> d.gen, c |-> c], d.op, d.amb,
         d.rec, d.mig, d.head)
    BY <1>3 DEF Is, Records, Checkpoints
<1> QED BY <1>2, <1>4, Replayed DEF e, x

LEMMA OnCheckpointFailed ==
    ASSUME NEW s, NEW d \in Records, d.status # "Closed", d.op = "running"
    PROVE  Is(Replay(s, d, [kind |-> "CheckpointFailed", gen |-> d.gen]), "Executing", d.gen,
              d.next, d.actor, TRUE, d.ckpt, d.op, d.amb, d.rec, d.mig, d.head + 1)
<1> DEFINE e == [kind |-> "CheckpointFailed", gen |-> d.gen]
           x == ReplayEffect(d, e)
<1>1. e.kind = "CheckpointFailed" /\ e.gen = d.gen
    OBVIOUS
<1> HIDE DEF e
<1>2. ReplayAccepts(s, d, e)
    BY <1>1 DEF ReplayAccepts, Records
<1>3. x = [d EXCEPT !.status = "Executing", !.has = TRUE]
    BY <1>1 DEF ReplayEffect
<1> HIDE DEF x
<1>4. Is(x, "Executing", d.gen, d.next, d.actor, TRUE, d.ckpt, d.op, d.amb, d.rec, d.mig, d.head)
    BY <1>3 DEF Is, Records
<1> QED BY <1>2, <1>4, Replayed DEF e, x

LEMMA OnTerminal ==
    ASSUME NEW s, NEW d \in Records, d.status # "Closed", NEW durable \in BOOLEAN,
           NEW touched \in BOOLEAN, d.status = "Executing", d.op = "running"
    PROVE  Is(Replay(s, d, [kind |-> "Terminal", durable |-> durable, touched |-> touched]),
              IF durable THEN "Ready" ELSE "RecoveryRequired", d.gen, d.next, d.actor,
              (d.has \/ touched), d.ckpt, "none", d.amb, d.rec, d.mig, d.head + 1)
<1> DEFINE e == [kind |-> "Terminal", durable |-> durable, touched |-> touched]
           x == ReplayEffect(d, e)
<1>1. e.kind = "Terminal" /\ e.durable = durable /\ e.touched = touched
    OBVIOUS
<1> HIDE DEF e
<1>2. ReplayAccepts(s, d, e)
    BY <1>1 DEF ReplayAccepts, Records
<1>3. x = [d EXCEPT !.op = "none", !.has = @ \/ touched,
                   !.status = IF durable THEN "Ready" ELSE "RecoveryRequired"]
    BY <1>1 DEF ReplayEffect
<1> HIDE DEF x
<1>4. Is(x, IF durable THEN "Ready" ELSE "RecoveryRequired", d.gen, d.next, d.actor,
         (d.has \/ touched), d.ckpt, "none", d.amb, d.rec, d.mig, d.head)
    BY <1>3 DEF Is, Records
<1> QED BY <1>2, <1>4, Replayed DEF e, x

LEMMA OnInterrupted ==
    ASSUME NEW s, NEW d \in Records, d.status # "Closed", NEW ambiguous \in BOOLEAN,
           d.op # "none"
    PROVE  Is(Replay(s, d, [kind |-> "Interrupted", ambiguous |-> ambiguous]),
              IF ambiguous THEN "RecoveryRequired" ELSE "Ready", d.gen, d.next, d.actor, d.has,
              d.ckpt, "none", d.amb + (IF ambiguous THEN 1 ELSE 0), d.rec, d.mig, d.head + 1)
<1> DEFINE e == [kind |-> "Interrupted", ambiguous |-> ambiguous]
           x == ReplayEffect(d, e)
<1>1. e.kind = "Interrupted" /\ e.ambiguous = ambiguous
    OBVIOUS
<1> HIDE DEF e
<1>2. ReplayAccepts(s, d, e)
    BY <1>1 DEF ReplayAccepts, Records
<1> DEFINE k == d.amb + (IF ambiguous THEN 1 ELSE 0)
<1>3. k \in Nat
    BY DEF Records
<1> HIDE DEF k
<1>4. x = [d EXCEPT !.op = "none", !.amb = k,
                   !.status = IF ambiguous THEN "RecoveryRequired" ELSE "Ready"]
    BY <1>1 DEF ReplayEffect, k
<1> HIDE DEF x
<1>5. Is(x, IF ambiguous THEN "RecoveryRequired" ELSE "Ready", d.gen, d.next, d.actor, d.has,
         d.ckpt, "none", k, d.rec, d.mig, d.head)
    BY <1>3, <1>4 DEF Is, Records
<1> QED BY <1>2, <1>5, Replayed DEF e, x, k

LEMMA OnStateLost ==
    ASSUME NEW s, NEW d \in Records, d.status # "Closed", d.gen # 0
    PROVE  Is(Replay(s, d, [kind |-> "StateLost", prev |-> d.gen, next |-> d.gen + 1]),
              "RecoveryRequired", d.gen, d.gen + 1, FALSE, FALSE, d.ckpt, d.op, d.amb, d.rec, d.mig,
              d.head + 1)
<1> DEFINE e == [kind |-> "StateLost", prev |-> d.gen, next |-> d.gen + 1]
           x == ReplayEffect(d, e)
<1>1. e.kind = "StateLost" /\ e.prev = d.gen /\ e.next = d.gen + 1
    OBVIOUS
<1> HIDE DEF e
<1>2. ReplayAccepts(s, d, e)
    BY <1>1 DEF ReplayAccepts, Records
<1> DEFINE k == d.gen + 1
<1>3. k \in Nat \ {0}
    BY DEF Records
<1> HIDE DEF k
<1>4. x = [d EXCEPT !.actor = FALSE, !.next = k, !.has = FALSE,
                   !.status = "RecoveryRequired"]
    BY <1>1 DEF ReplayEffect, k
<1> HIDE DEF x
<1>5. Is(x, "RecoveryRequired", d.gen, k, FALSE, FALSE, d.ckpt, d.op, d.amb, d.rec, d.mig,
         d.head)
    BY <1>3, <1>4 DEF Is, Records
<1> QED BY <1>2, <1>5, Replayed DEF e, x, k

LEMMA OnRetired ==
    ASSUME NEW s, NEW d \in Records, d.status # "Closed", d.gen # 0, ~d.has
    PROVE  Is(Replay(s, d, [kind |-> "Retired", prev |-> d.gen, next |-> d.gen + 1]), "Ready",
              0, d.gen + 1, FALSE, FALSE, d.ckpt, d.op, d.amb, d.rec, d.mig, d.head + 1)
<1> DEFINE e == [kind |-> "Retired", prev |-> d.gen, next |-> d.gen + 1]
           x == ReplayEffect(d, e)
<1>1. e.kind = "Retired" /\ e.prev = d.gen /\ e.next = d.gen + 1
    OBVIOUS
<1> HIDE DEF e
<1>2. ReplayAccepts(s, d, e)
    BY <1>1 DEF ReplayAccepts, Records
<1> DEFINE k == d.gen + 1
<1>3. k \in Nat \ {0}
    BY DEF Records
<1> HIDE DEF k
<1>4. x = [d EXCEPT !.actor = FALSE, !.gen = 0, !.next = k, !.has = FALSE,
                   !.status = "Ready"]
    BY <1>1 DEF ReplayEffect, k
<1> HIDE DEF x
<1>5. Is(x, "Ready", 0, k, FALSE, FALSE, d.ckpt, d.op, d.amb, d.rec, d.mig, d.head)
    BY <1>3, <1>4 DEF Is, Records
<1> QED BY <1>2, <1>5, Replayed DEF e, x, k

LEMMA OnReset ==
    ASSUME NEW s, NEW d \in Records, d.status # "Closed", NEW next \in Nat \ {0}, d.op = "none"
    PROVE  Is(Replay(s, d, [kind |-> "Reset", prev |-> d.gen, next |-> next]), "Ready", 0, next,
              FALSE, FALSE, NoCkpt, d.op, d.amb, d.rec, Overtaken(d.mig), d.head + 1)
<1> DEFINE e == [kind |-> "Reset", prev |-> d.gen, next |-> next]
           x == ReplayEffect(d, e)
           mig == Overtaken(d.mig)
<1>1. e.kind = "Reset" /\ e.prev = d.gen /\ e.next = next
    OBVIOUS
<1> HIDE DEF e
<1>2. ReplayAccepts(s, d, e)
    BY <1>1 DEF ReplayAccepts, Records
<1>3. x = [d EXCEPT !.actor = FALSE, !.gen = 0, !.next = next, !.has = FALSE, !.ckpt = NoCkpt,
                   !.status = "Ready", !.mig = mig]
    BY <1>1 DEF ReplayEffect
<1>4. mig \in {NoMig} \cup Transitions
    BY OvertakenIs
<1> HIDE DEF x, mig
<1>5. Is(x, "Ready", 0, next, FALSE, FALSE, NoCkpt, d.op, d.amb, d.rec, mig, d.head)
    BY <1>3, <1>4 DEF Is, Records, Checkpoints
<1> QED BY <1>2, <1>5, ReplayedAs DEF e, x, mig

LEMMA OnClosed ==
    ASSUME NEW s, NEW d \in Records, d.status # "Closed", d.op = "none"
    PROVE  Is(Replay(s, d, [kind |-> "Closed"]), "Closed", d.gen, d.next, d.actor, d.has,
              d.ckpt, d.op, d.amb, None, Overtaken(d.mig), d.head + 1)
<1> DEFINE e == [kind |-> "Closed"]
           x == ReplayEffect(d, e)
           mig == Overtaken(d.mig)
<1>1. e.kind = "Closed"
    OBVIOUS
<1> HIDE DEF e
<1>2. ReplayAccepts(s, d, e)
    BY <1>1 DEF ReplayAccepts, Records
<1>3. x = [d EXCEPT !.status = "Closed", !.rec = None, !.mig = mig]
    BY <1>1 DEF ReplayEffect
<1>4. mig \in {NoMig} \cup Transitions
    BY OvertakenIs
<1> HIDE DEF x, mig
<1>5. Is(x, "Closed", d.gen, d.next, d.actor, d.has, d.ckpt, d.op, d.amb, None, mig, d.head)
    BY <1>3, <1>4 DEF Is, Records
<1> QED BY <1>2, <1>5, ReplayedAs DEF e, x, mig

LEMMA OnRefused ==
    ASSUME NEW s, NEW d \in Records, d.status # "Closed", NEW g \in Nat,
           IF g = 0 THEN d.rec = None ELSE d.rec # None /\ d.rec.gen = g /\ d.rec.at = d.head
    PROVE  Is(Replay(s, d, [kind |-> "Refused", gen |-> g]), "RecoveryRequired", d.gen, d.next,
              d.actor, d.has, d.ckpt, d.op, d.amb, None, d.mig, d.head + 1)
<1> DEFINE e == [kind |-> "Refused", gen |-> g]
           x == ReplayEffect(d, e)
<1>1. e.kind = "Refused" /\ e.gen = g
    OBVIOUS
<1> HIDE DEF e
<1>2. ReplayAccepts(s, d, e)
    BY <1>1 DEF ReplayAccepts, Records
<1>3. x = [d EXCEPT !.rec = None, !.status = "RecoveryRequired"]
    BY <1>1 DEF ReplayEffect
<1> HIDE DEF x
<1>4. Is(x, "RecoveryRequired", d.gen, d.next, d.actor, d.has, d.ckpt, d.op, d.amb, None, d.mig,
         d.head)
    BY <1>3 DEF Is, Records
<1> QED BY <1>2, <1>4, Replayed DEF e, x

LEMMA OnAttemptStarted ==
    ASSUME NEW s, NEW d \in Records, NEW trigger \in Triggers, TriggerValid(d, trigger),
           d.rec = None, d.status = "RecoveryRequired", ~d.actor, ~d.has,
           d.gen # 0, d.next = d.gen + 1, d.ckpt # NoCkpt, d.ckpt.gen <= d.gen
    PROVE  Is(Replay(s, d, [kind |-> "AttemptStarted", trigger |-> trigger, prev |-> d.gen,
                            gen |-> d.gen + 1, c |-> d.ckpt.c]),
              d.status, d.gen + 1, d.gen + 2, FALSE, FALSE, d.ckpt, d.op, d.amb,
              [kind |-> "attempt", gen |-> d.gen + 1, trigger |-> trigger, at |-> d.head + 1], d.mig,
              d.head + 1)
<1> DEFINE k == d.gen + 1
           next == d.gen + 2
           a == [kind |-> "attempt", gen |-> k, trigger |-> trigger, at |-> d.head + 1]
           e == [kind |-> "AttemptStarted", trigger |-> trigger, prev |-> d.gen,
                 gen |-> k, c |-> d.ckpt.c]
           x == ReplayEffect(d, e)
<1>1. e.kind = "AttemptStarted" /\ e.trigger = trigger /\ e.prev = d.gen /\ e.gen = k
      /\ e.c = d.ckpt.c
    OBVIOUS
<1>2. k \in Nat \ {0} /\ next \in Nat \ {0} /\ k = d.gen + 1 /\ next = k + 1 /\ a \in Attempts
    BY DEF Records, Attempts
<1> HIDE DEF e
<1>3. ReplayAccepts(s, d, e)
    <2> HIDE DEF k, next, a
    <2> QED BY <1>1, <1>2 DEF ReplayAccepts
<1>4. x = [d EXCEPT !.rec = a, !.gen = k, !.next = next, !.actor = FALSE, !.has = FALSE]
    <2>1. next = e.gen + 1
        BY <1>1, <1>2
    <2> HIDE DEF k, next
    <2> QED BY <1>1, <2>1 DEF ReplayEffect
<1> HIDE DEF x, a, k, next
<1>5. Is(x, d.status, k, next, FALSE, FALSE, d.ckpt, d.op, d.amb, a, d.mig, d.head)
    BY <1>2, <1>4 DEF Is, Records
<1> QED BY <1>3, <1>5, Replayed DEF e, x, a, k, next

LEMMA OnCommitted ==
    ASSUME NEW s, NEW d \in Records, d.rec # None, d.rec.gen = d.gen, d.rec.at = d.head,
           d.status # "Closed", ~d.actor, ~d.has, d.ckpt # NoCkpt, d.ckpt.gen < d.gen,
           d.rec.trigger = "ambiguous" => d.amb > 0
    PROVE  Is(Replay(s, d, [kind |-> "Committed", trigger |-> d.rec.trigger, gen |-> d.gen,
                            c |-> d.ckpt.c]),
              "Ready", d.gen, d.gen, TRUE, TRUE, [d.ckpt EXCEPT !.gen = d.gen], d.op,
              d.amb - (IF d.rec.trigger = "ambiguous" THEN 1 ELSE 0), None, d.mig, d.head + 1)
<1> DEFINE t == d.rec.trigger
           amb == d.amb - (IF t = "ambiguous" THEN 1 ELSE 0)
           c == [d.ckpt EXCEPT !.gen = d.gen]
           e == [kind |-> "Committed", trigger |-> t, gen |-> d.gen, c |-> d.ckpt.c]
           x == ReplayEffect(d, e)
<1>1. e.kind = "Committed" /\ e.trigger = t /\ e.gen = d.gen /\ e.c = d.ckpt.c
    OBVIOUS
<1>2. amb \in Nat /\ d.ckpt \in [gen : Nat, c : States] /\ d.gen \in Nat \ {0}
    BY DEF Records, Checkpoints, Attempts
<1>3. c \in Checkpoints
    BY <1>2 DEF Checkpoints
<1> HIDE DEF e
<1>4. ReplayAccepts(s, d, e)
    BY <1>1 DEF ReplayAccepts
<1>5. x = [d EXCEPT !.ckpt = c, !.amb = amb, !.actor = TRUE, !.next = d.gen, !.has = TRUE,
                    !.status = "Ready", !.rec = None]
    BY <1>1 DEF ReplayEffect
<1> HIDE DEF x, c, amb
<1>6. Is(x, "Ready", d.gen, d.gen, TRUE, TRUE, c, d.op, amb, None, d.mig, d.head)
    BY <1>2, <1>3, <1>5 DEF Is, Records
<1> QED BY <1>4, <1>6, Replayed DEF e, x, c, amb

-----------------------------------------------------------------------------
(***************************************************************************)
(* The steps that append nothing.                                          *)
(***************************************************************************)

LEMMA ReserveKeeps ==
    ASSUME HostedInv, NEW s \in Sessions,
           \/ SubmitReserve(s)
           \/ \E trigger \in {"ambiguous", "lost"} : RecoverReserve(s, trigger)
    PROVE  HostedInv' /\ Kept(s)
<1>1. CASE SubmitReserve(s)
    <2> DEFINE p == [kind |-> "submit", head |-> live[s].head, what |-> None]
               w == IF worker[s] = NoWorker THEN Bearing(Blank, 0) ELSE worker[s]
    <2>1. Moves(s, live[s], disk[s], up[s], p, w, stage[s], retired[s])
        BY <1>1, Same DEF SubmitReserve, Reserve, Moves
    <2>2. w \in Workers
        BY Now DEF Workers, Bearing, Blank
    <2>3. p.kind = "submit"
        OBVIOUS
    <2>4. /\ Agree(live[s], disk[s]) /\ RecordInv(disk[s]) /\ live[s].status = "Ready"
          /\ stage[s] = "idle" /\ live[s].has = disk[s].has /\ ~Unfinished(live[s].mig)
          /\ live[s].head < MaxHead /\ live[s].rec = None /\ Fresh(disk[s], retired[s])
        BY <1>1, Now DEF SubmitReserve, Called, Consistent, RecordInv, Agree, Stages, Reserved, None
    <2>5. WorkerInv(live[s], Bearing(Blank, 0), stage[s], retired[s]) \/ worker[s] # NoWorker
        BY <1>1, <2>4, Now DEF SubmitReserve, WorkerInv, Bearing, RecordInv, Agree, Records, Saved
    <2>6. Consistent(live[s], disk[s], up[s], p, w, stage[s], retired[s])
        <3> HIDE DEF p
        <3> QED BY <1>1, <2>3, <2>4, <2>5, Now
              DEF SubmitReserve, Called, Consistent, Reserved
    <2>7. ~Spawned(w)
        BY <2>4, NotSpawned DEF Spawned, Bearing
    <2> HIDE DEF p, w
    <2> QED BY <2>1, <2>2, <2>3, <2>4, <2>6, <2>7, Now, Also, Framed
<1>2. ASSUME NEW trigger \in Triggers, RecoverReserve(s, trigger) PROVE HostedInv' /\ Kept(s)
    <2> DEFINE p == [kind |-> "recover", head |-> live[s].head, what |-> trigger]
    <2>1. Moves(s, live[s], disk[s], up[s], p, worker[s], stage[s], retired[s])
        BY <1>2, Same DEF RecoverReserve, Reserve, Moves
    <2>2. p.kind = "recover" /\ p.what = trigger /\ "kind" \in DOMAIN p
        OBVIOUS
    <2>3. Consistent(live[s], disk[s], up[s], p, worker[s], stage[s], retired[s])
        <3> HIDE DEF p
        <3> QED BY <1>2, <2>2, Now DEF RecoverReserve, Called, Consistent, Reserved, None
    <2> HIDE DEF p
    <2> QED BY <2>1, <2>2, <2>3, Now, Also, Framed
<1> QED BY <1>1, <1>2 DEF Triggers

LEMMA ReleaseKeeps ==
    ASSUME HostedInv, NEW s \in Sessions, SubmitRefused(s) \/ RecoverDropped(s)
    PROVE  HostedInv' /\ Kept(s)
<1>1. PICK w \in {worker[s], NoWorker} :
          Moves(s, live[s], disk[s], up[s], None, w, stage[s], retired[s])
    BY Same, Now DEF SubmitRefused, RecoverDropped, Release, Discard, Moves, Physical, DeadWorker
<1>2. w \in Workers /\ ~Alive(NoWorker)
    BY Now DEF Workers, Alive, NoWorker
<1>3. Consistent(live[s], disk[s], up[s], None, w, stage[s], retired[s])
    BY <1>2, Now DEF SubmitRefused, RecoverDropped, Unchanged, Consistent, Reserved, None
<1>4. None.kind = "none"
    BY DEF None
<1>5. ~Alive(w) \/ Bears(s, live[s], w, stage[s])
    BY <1>2, Also
<1>6. ~Spawned(w) \/ Restores(live[s], w, retired[s])
    BY Also, NotSpawned
<1> QED BY <1>1, <1>2, <1>3, <1>4, <1>5, <1>6, Now, Also, Framed

LEMMA SendKeeps ==
    ASSUME HostedInv, NEW s \in Sessions, Send(s)
    PROVE  HostedInv' /\ Kept(s)
<1>1. Moves(s, live[s], disk[s], up[s], prep[s], worker[s], "queued", retired[s])
    BY Same DEF Send, Moves
<1>2. Consistent(live[s], disk[s], up[s], prep[s], worker[s], "queued", retired[s])
    BY Now DEF Send, Consistent, Stages, WorkerInv, Records
<1> QED BY <1>1, <1>2, Now, Also, Framed

LEMMA SettleKeeps ==
    ASSUME HostedInv, NEW s \in Sessions, Settle(s)
    PROVE  HostedInv' /\ Kept(s)
<1> DEFINE w == [worker[s] EXCEPT !.c = Touched(@, s, live[s].gen)]
<1>1. Moves(s, live[s], disk[s], up[s], prep[s], w, "ran", retired[s])
    BY Same, Now DEF Settle, Moves
<1>2. worker[s] \in [is : {"alive"}, c : States \cup {Blank}, gen : Nat]
    BY Now DEF Settle, Workers, Alive, NoWorker, DeadWorker
<1>3. Touched(worker[s].c, s, live[s].gen) \in States
    <2>1. live[s].gen \in Nat /\ worker[s].c \in States \cup {Blank}
        BY <1>2, Now DEF Records
    <2>2. worker[s].c \in States => [worker[s].c EXCEPT !.v = @ + 1] \in States
        BY <2>1 DEF States
    <2>3. <<s, live[s].gen>> \in Sessions \X Nat
        BY <2>1
    <2>4. [lin |-> <<s, live[s].gen>>, v |-> 1] \in States
        BY <2>3 DEF States
    <2> QED BY <2>1, <2>2, <2>4 DEF Touched
<1>4. w \in Workers /\ w.gen = worker[s].gen /\ w.c = Touched(worker[s].c, s, live[s].gen)
    BY <1>2, <1>3 DEF Workers
<1>5. Consistent(live[s], disk[s], up[s], prep[s], w, "ran", retired[s])
    <2> HIDE DEF w
    <2> QED BY <1>4, Now DEF Settle, Consistent, Stages, WorkerInv, Records, RecordInv, Agree
<1>6. Bears(s, live[s], w, "ran")
    <2>1. worker[s].c = IF live[s].has THEN live[s].ckpt.c ELSE Blank
        BY Now DEF Settle, Consistent, WorkerInv
    <2> QED BY <1>4, <2>1 DEF Bears
<1> HIDE DEF w
<1>7. Carries(s, disk[s], disk[s])
    BY Also
<1>8. ~Spawned(w)
    BY <1>2 DEF Spawned, w
<1> QED BY ZenonT(40), <1>1, <1>4, <1>5, <1>6, <1>7, <1>8, Now, Framed

LEMMA PanicKeeps ==
    ASSUME HostedInv, NEW s \in Sessions, Panic(s)
    PROVE  HostedInv' /\ Kept(s)
<1> DEFINE n == Gone(worker[s], retired[s])
<1>1. Moves(s, live[s], disk[s], up[s], prep[s], DeadWorker, stage[s], n)
    BY Same, Now DEF Panic, Moves, Discard, Gone
<1>2. DeadWorker \in Workers /\ ~Alive(DeadWorker) /\ ~Spawned(DeadWorker)
    BY DEF Workers, Alive, Spawned, DeadWorker
<1>3. Fresh(disk[s], n)
    BY Now DEF Panic, Gone, Fresh, Consistent, Agree, WorkerInv, Records
<1>4. Consistent(live[s], disk[s], up[s], prep[s], DeadWorker, stage[s], n)
    BY <1>2, <1>3, Now DEF Panic, Consistent
<1> HIDE DEF n
<1> QED BY <1>1, <1>2, <1>4, Now, Also, Framed DEF n

LEMMA CrashKeeps ==
    ASSUME HostedInv, NEW s \in Sessions, Crash(s)
    PROVE  HostedInv' /\ Kept(s)
<1> DEFINE n == Gone(worker[s], retired[s])
<1>1. Moves(s, disk[s], disk[s], FALSE, None, NoWorker, "idle", n)
    BY Same, Now DEF Crash, Stop, Moves, Discard, Gone
<1>2. NoWorker \in Workers /\ None.kind = "none" /\ ~Spawned(NoWorker)
    BY DEF Workers, None, Spawned, NoWorker
<1>3. Fresh(disk[s], n)
    <2>1. Physical(worker[s]) => worker[s].gen <= disk[s].gen
        <3>1. CASE Alive(worker[s])
            BY <3>1, Now, NotSpawned DEF Consistent, Agree, WorkerInv, Records
        <3>2. CASE Spawned(worker[s])
            <4>1. up[s]
                BY <3>2, Now, NotSpawned DEF Consistent
            <4> QED BY <3>2, <4>1, Now, Also DEF Consistent, Agree, Restores, Records
        <3> QED BY <3>1, <3>2 DEF Physical, Alive, Spawned
    <2>2. disk[s].gen = 0 => n = retired[s]
        BY <2>1, Now DEF Gone, Records, Workers, Physical, NoWorker, DeadWorker
    <2> QED BY <2>1, <2>2, Now DEF Gone, Fresh, Consistent, Records
<1>4. Consistent(disk[s], disk[s], FALSE, None, NoWorker, "idle", n)
    BY <1>2, <1>3, Now DEF Consistent
<1> HIDE DEF n
<1> QED BY <1>1, <1>2, <1>4, Now, Also, Framed DEF n

-----------------------------------------------------------------------------
(***************************************************************************)
(* The steps that append one event.                                        *)
(***************************************************************************)

LEMMA CommitsOne ==
    ASSUME NEW s, NEW e, NEW y, Commit(s, <<e>>, y)
    PROVE  /\ disk' = [disk EXCEPT ![s] = Replay(s, disk[s], e)]
           /\ live' = [live EXCEPT ![s] = [y EXCEPT !.head = live[s].head + 1]]
<1>1. Len(<<e>>) = 1
    OBVIOUS
<1> QED BY <1>1, ReplayOne DEF Commit

LEMMA SubmitKeeps ==
    ASSUME HostedInv, NEW s \in Sessions, SubmitCommit(s)
    PROVE  HostedInv' /\ Kept(s)
<1> DEFINE g == IF live[s].gen # 0 THEN live[s].gen ELSE live[s].next
           f == ~live[s].actor
           e == [kind |-> "Accepted", gen |-> g, fresh |-> f]
           d == Replay(s, disk[s], e)
           y == LiveAccepted(live[s], g)
           r == [y EXCEPT !.head = live[s].head + 1]
<1>1. g \in Nat \ {0} /\ f \in BOOLEAN /\ live[s].head \in Nat /\ live[s].head + 1 \in Nat
    BY Now DEF Records
<1>2. /\ live[s].status = "Ready" /\ Agree(live[s], disk[s]) /\ RecordInv(disk[s])
      /\ IF disk[s].gen = 0 THEN g = disk[s].next
                            ELSE g = disk[s].gen /\ disk[s].actor /\ ~f
    BY Now DEF SubmitCommit, Unchanged, Consistent, Agree, RecordInv, Records
<1>3. Moves(s, r, d, up[s], None, worker[s], "sending", retired[s])
    <2>1. Commit(s, <<e>>, y)
        BY DEF SubmitCommit
    <2> HIDE DEF e, y
    <2>2. disk' = [disk EXCEPT ![s] = d] /\ live' = [live EXCEPT ![s] = r]
        BY <2>1, CommitsOne
    <2> QED BY <2>2, Same DEF SubmitCommit, Release, Moves
<1> HIDE DEF f
<1>4. y = [live[s] EXCEPT !.status = "Executing", !.op = "accepted", !.actor = TRUE, !.gen = g]
    BY ZenonT(40), <1>2, Now DEF LiveAccepted, Agree, RecordInv, Records
<1> HIDE DEF g, y
<1>5. Is(y, "Executing", g, live[s].next, TRUE, live[s].has, live[s].ckpt, "accepted",
         live[s].amb, live[s].rec, live[s].mig, live[s].head)
    BY ZenonT(40), <1>1, <1>4, Now DEF Is, Records
<1>6. Is(r, "Executing", g, live[s].next, TRUE, live[s].has, live[s].ckpt, "accepted",
         live[s].amb, live[s].rec, live[s].mig, live[s].head + 1)
    BY <1>1, <1>5, Advanced
<1>7. Is(d, "Executing", g, disk[s].next, TRUE, disk[s].has, disk[s].ckpt, "accepted",
         disk[s].amb, disk[s].rec, disk[s].mig, disk[s].head + 1)
    BY <1>1, <1>2, Now, OnAccepted DEF Agree
<1> HIDE DEF r, d
<1>8. Consistent(r, d, up[s], None, worker[s], "sending", retired[s])
    <2>1. RecordInv(d) /\ Fresh(d, retired[s])
        <3>1. Fresh(disk[s], retired[s]) /\ disk[s].rec = None /\ Saved(disk[s])
            BY <1>2, Now DEF Consistent, RecordInv, Agree
        <3>2. disk[s].ckpt # NoCkpt => disk[s].ckpt.gen \in Nat
            BY Now DEF Records, Checkpoints
        <3>3. disk[s].status = "Ready" /\ (disk[s].amb > 0 => disk[s].ckpt # NoCkpt)
            BY <1>2 DEF RecordInv, Agree
        <3>4. Fresh(d, retired[s])
            BY <1>1, <1>2, <1>7, <3>1, Now DEF Is, Records, Fresh
        <3>5. RecordInv(d)
            BY <1>1, <1>2, <1>7, <3>1, <3>2, <3>3, Now DEF Is, RecordInv, Records, Saved
        <3> QED BY <3>4, <3>5
    <2>2. /\ up[s] /\ prep[s].kind = "submit" /\ live[s].has = disk[s].has
          /\ live[s].rec = None /\ live[s].op = "none" /\ ~Unfinished(live[s].mig)
        BY <1>2, Now DEF SubmitCommit, Unchanged, Consistent, Agree, RecordInv, Stages, Reserved
    <2>3. Alive(worker[s]) => WorkerInv(r, worker[s], "sending", retired[s])
        <3>1. Alive(worker[s]) => WorkerInv(live[s], worker[s], stage[s], retired[s])
            BY <2>2, Now DEF Consistent
        <3>2. retired[s] \in Nat /\ (live[s].gen = 0 => retired[s] < g /\ ~live[s].has)
            BY <1>2, <2>2, Now DEF Consistent, Fresh, Agree, RecordInv
        <3>3. live[s].gen # 0 => g = live[s].gen
            BY <1>2 DEF Agree
        <3> QED BY <1>1, <1>2, <1>6, <2>2, <3>1, <3>2, <3>3 DEF Is, WorkerInv
    <2>4. Agree(r, d) /\ r.has = d.has /\ r.op = "accepted" /\ r.status = "Executing"
        <3>1. Agree(live[s], disk[s])
            BY <1>2
        <3> QED BY ZenonT(40), <1>6, <1>7, <2>2, <3>1 DEF Is, Agree
    <2>5. Reserved(r, None.kind) /\ None.kind = "none"
        BY <1>6, <2>2 DEF Is, Reserved, None
    <2> QED BY <2>1, <2>2, <2>3, <2>4, <2>5 DEF Consistent, Stages
<1>9. Carries(s, disk[s], d)
    <2>1. Numbers(disk[s]) /\ ~Moving(disk[s]) /\ disk[s].status = "Ready"
        BY <1>2, Now, Also, NotMoving DEF Agree
    <2>2. disk[s].head < MaxHead
        BY <1>2, Now DEF SubmitCommit, Unchanged, Consistent, Reserved, Agree
    <2>3. /\ disk[s] \in Records /\ d \in Records /\ disk[s].head \in Nat /\ disk[s].next \in Nat
          /\ d.mig = disk[s].mig /\ d.gen = g /\ d.ckpt = disk[s].ckpt /\ d.next = disk[s].next
          /\ d.head = disk[s].head + 1 /\ ~Moving(d)
        BY <1>7, Now DEF Is, Records, Moving
    <2>4. CASE disk[s].gen # 0
        BY <1>2, <2>1, <2>3, <2>4, CarriesOn DEF Numbers
    <2>5. CASE disk[s].gen = 0
        <3>1. g = disk[s].next /\ g # 0 /\ disk[s].ckpt = NoCkpt
            BY <1>1, <1>2, <2>5 DEF RecordInv
        <3>2. Numbers(d)
            BY <2>1, <2>2, <2>3, <3>1, SessionAssumption DEF Numbers
        <3>3. \A i \in Nat : Below(i, disk[s]) => Below(i, d)
            BY <2>3, <2>5, <3>1 DEF Below
        <3>4. Works(s, disk[s], d)
            BY <2>1, <2>3, <3>1 DEF Works, Steps
        <3> QED BY <2>3, <3>2, <3>3, <3>4 DEF Carries
    <2> QED BY <2>4, <2>5
<1>10. None.kind = "none"
    BY DEF None
<1>11. ~Spawned(worker[s])
    BY <1>2, Serving, Now, NotSpawned DEF SubmitCommit, Unchanged, RecordInv, Agree
<1> QED BY <1>3, <1>6, <1>7, <1>8, <1>9, <1>10, <1>11, Now, Framed DEF Is

LEMMA LiveFence ==
    ASSUME NEW r \in Records
    PROVE  Is(LiveFenced(r), IF r.has THEN "RecoveryRequired" ELSE "Ready",
              IF r.has THEN r.gen ELSE 0, r.gen + 1, FALSE, FALSE, r.ckpt, r.op, r.amb, r.rec, r.mig,
              r.head)
<1> DEFINE k == r.gen + 1
           gen == IF r.has THEN r.gen ELSE 0
           status == IF r.has THEN "RecoveryRequired" ELSE "Ready"
           y == LiveFenced(r)
<1>1. /\ k \in Nat \ {0} /\ gen \in Nat
      /\ status \in {"Ready", "Executing", "RecoveryRequired", "Migrating", "Migrated", "Closed"}
    BY DEF Records
<1>2. y = [r EXCEPT !.actor = FALSE, !.has = FALSE, !.next = k, !.gen = gen, !.status = status]
    BY DEF LiveFenced
<1> HIDE DEF k, gen, status, y
<1>3. Is(y, status, gen, k, FALSE, FALSE, r.ckpt, r.op, r.amb, r.rec, r.mig, r.head)
    BY <1>1, <1>2 DEF Is, Records
<1> QED BY <1>3 DEF k, gen, status, y

LEMMA OnFence ==
    ASSUME NEW s, NEW d \in Records, d.status # "Closed", d.gen # 0,
           NEW r, r.gen = d.gen, r.has = d.has
    PROVE  Is(Replay(s, d, FenceEvent(r)), IF d.has THEN "RecoveryRequired" ELSE "Ready",
              IF d.has THEN d.gen ELSE 0, d.gen + 1, FALSE, FALSE, d.ckpt, d.op, d.amb, d.rec, d.mig,
              d.head + 1)
<1>1. CASE d.has
    <2>1. FenceEvent(r) = [kind |-> "StateLost", prev |-> d.gen, next |-> d.gen + 1]
        BY <1>1 DEF FenceEvent
    <2> QED BY <1>1, <2>1, OnStateLost
<1>2. CASE ~d.has
    <2>1. FenceEvent(r) = [kind |-> "Retired", prev |-> d.gen, next |-> d.gen + 1]
        BY <1>2 DEF FenceEvent
    <2> QED BY <1>2, <2>1, OnRetired
<1> QED BY <1>1, <1>2

LEMMA SubmitFenceKeeps ==
    ASSUME HostedInv, NEW s \in Sessions, SubmitFence(s)
    PROVE  HostedInv' /\ Kept(s)
<1> DEFINE e == FenceEvent(live[s])
           d == Replay(s, disk[s], e)
           y == LiveFenced(live[s])
           r == [y EXCEPT !.head = live[s].head + 1]
           status == IF live[s].has THEN "RecoveryRequired" ELSE "Ready"
           gen == IF live[s].has THEN live[s].gen ELSE 0
<1>1. live[s].head + 1 \in Nat /\ live[s].gen + 1 \in Nat /\ live[s].gen \in Nat
    BY Now DEF Records
<1>2. /\ live[s].status = "Ready" /\ live[s].gen # 0 /\ stage[s] = "idle"
      /\ live[s].op = "none" /\ live[s].rec = None
      /\ Agree(live[s], disk[s]) /\ live[s].has = disk[s].has
    BY Now DEF SubmitFence, Called, Consistent, RecordInv, Agree, Stages, Records
<1>3. Moves(s, r, d, up[s], prep[s], worker[s], stage[s], retired[s])
    <2>1. Commit(s, <<e>>, y)
        BY DEF SubmitFence
    <2> HIDE DEF e, y
    <2>2. disk' = [disk EXCEPT ![s] = d] /\ live' = [live EXCEPT ![s] = r]
        BY <2>1, CommitsOne
    <2> QED BY <2>2, Same DEF SubmitFence, Moves
<1>4. Is(r, status, gen, live[s].gen + 1, FALSE, FALSE, live[s].ckpt, live[s].op, live[s].amb,
         live[s].rec, live[s].mig, live[s].head + 1)
    BY <1>1, Now, LiveFence, Advanced
<1>5. Is(d, status, gen, live[s].gen + 1, FALSE, FALSE, live[s].ckpt, live[s].op, live[s].amb,
         live[s].rec, live[s].mig, live[s].head + 1)
    BY <1>2, Now, OnFence DEF Agree
<1> HIDE DEF r, d, e, y
<1>6. Consistent(r, d, up[s], prep[s], worker[s], stage[s], retired[s])
    <2>1. RecordInv(d)
        BY <1>1, <1>2, <1>5, Now
           DEF SubmitFence, Called, Is, Consistent, RecordInv, Agree, Records, Saved
    <2>2. Fresh(d, retired[s])
        BY <1>1, <1>2, <1>5, Now DEF Is, Consistent, Agree, Records, Fresh
    <2>3. Agree(r, d) /\ r.has = d.has /\ r.op = "none" /\ r.rec = None
        BY <1>2, <1>4, <1>5 DEF Is, Agree
    <2>4. prep[s].kind = "none" /\ ~Alive(worker[s]) /\ up[s]
        BY DEF SubmitFence, Called, Alive, NoWorker, None
    <2>5. ~Unfinished(r.mig)
        BY <1>2, <1>4, <2>4, Serving DEF Is
    <2> QED BY <2>5, <1>2, <2>1, <2>2, <2>3, <2>4 DEF Consistent, Reserved, Stages
<1>7. Carries(s, disk[s], d)
    <2>1. /\ d \in Records /\ disk[s] \in Records /\ disk[s].head \in Nat /\ d.mig = disk[s].mig
          /\ d.gen \in {disk[s].gen, 0} /\ d.ckpt = disk[s].ckpt /\ disk[s].gen # 0
          /\ d.next = disk[s].gen + 1 /\ disk[s].head < d.head /\ ~Moving(d)
        BY <1>2, <1>5, Now DEF Is, Agree, Moving, Records
    <2> QED BY <1>2, <2>1, Serving, CarriesFence DEF SubmitFence, Called
<1>8. ~Spawned(worker[s])
    BY NotSpawned DEF SubmitFence
<1> QED BY <1>2, <1>3, <1>4, <1>5, <1>6, <1>7, <1>8, Now, Framed DEF Is

LEMMA StartKeeps ==
    ASSUME HostedInv, NEW s \in Sessions, Start(s)
    PROVE  HostedInv' /\ Kept(s)
<1> DEFINE e == [kind |-> "Started", gen |-> live[s].gen]
           d == Replay(s, disk[s], e)
           y == LiveStarted(live[s])
           r == [y EXCEPT !.head = live[s].head + 1]
           w == [worker[s] EXCEPT !.gen = live[s].gen]
<1>1. live[s].head + 1 \in Nat /\ live[s].gen \in Nat /\
      worker[s] \in [is : {"alive"}, c : States \cup {Blank}, gen : Nat]
    BY Now DEF Start, Records, Workers, Alive, NoWorker, DeadWorker
<1>2. /\ live[s].status = "Executing" /\ live[s].op = "accepted"
      /\ Agree(live[s], disk[s]) /\ live[s].has = disk[s].has
    BY Now DEF Start, Consistent, RecordInv, Agree, Stages, Records
<1>3. Moves(s, r, d, up[s], prep[s], w, "running", retired[s])
    <2>1. Commit(s, <<e>>, y)
        BY DEF Start
    <2> HIDE DEF e, y
    <2>2. disk' = [disk EXCEPT ![s] = d] /\ live' = [live EXCEPT ![s] = r]
        BY <2>1, CommitsOne
    <2> QED BY <2>2, Same DEF Start, Moves
<1>4. y = [live[s] EXCEPT !.op = "running"]
    BY DEF LiveStarted
<1> HIDE DEF y
<1>5. Is(y, live[s].status, live[s].gen, live[s].next, live[s].actor, live[s].has, live[s].ckpt,
         "running", live[s].amb, live[s].rec, live[s].mig, live[s].head)
    BY <1>4, Now DEF Is, Records
<1>6. Is(r, live[s].status, live[s].gen, live[s].next, live[s].actor, live[s].has, live[s].ckpt,
         "running", live[s].amb, live[s].rec, live[s].mig, live[s].head + 1)
    BY <1>1, <1>5, Advanced
<1>7. Is(d, live[s].status, live[s].gen, live[s].next, live[s].actor, live[s].has, live[s].ckpt,
         "running", live[s].amb, live[s].rec, live[s].mig, live[s].head + 1)
    BY <1>2, Now, OnStarted DEF Agree
<1>8. w \in Workers /\ Alive(w) /\ w.c = worker[s].c /\ w.gen = live[s].gen
    BY <1>1 DEF Workers, Alive
<1> HIDE DEF r, d, w
<1>9. Consistent(r, d, up[s], prep[s], w, "running", retired[s])
    <2>1. RecordInv(d) /\ Fresh(d, retired[s])
        BY <1>2, <1>7, Now DEF Start, Is, Consistent, RecordInv, Agree, Records, Saved, Fresh
    <2>2. WorkerInv(r, w, "running", retired[s])
        BY <1>2, <1>6, <1>8, Now DEF Start, Is, Consistent, RecordInv, Agree, WorkerInv, Records
    <2>3. /\ Agree(r, d) /\ r.has = d.has
          /\ r.op = "running" /\ r.status = "Executing"
        BY ZenonT(40), <1>2, <1>6, <1>7 DEF Is, Agree
    <2>4. Saved(r)
        <3>1. Saved(disk[s])
            BY <1>2, Now DEF Consistent, RecordInv, Agree
        <3> QED BY <1>2, <1>6, <3>1 DEF Is, Saved, Agree
    <2>5. up[s] /\ Reserved(live[s], prep[s].kind) /\ prep[s].kind # "recover"
        BY <1>2, Now DEF Start, Consistent, Reserved
    <2>6. Reserved(r, prep[s].kind)
        BY <1>2, <1>6, <2>5 DEF Is, Reserved
    <2> QED BY <2>1, <2>2, <2>3, <2>4, <2>5, <2>6 DEF Consistent, Stages
<1>10. Carries(s, disk[s], d)
    BY <1>2, <1>7, CarriesIs DEF Start
<1>11. ~Spawned(w)
    BY NotSpawned, Now DEF Start, Spawned, Alive, w, Workers, NoWorker, DeadWorker
<1> QED BY <1>3, <1>6, <1>7, <1>8, <1>9, <1>10, <1>11, Now, Framed DEF Is

LEMMA SaveKeeps ==
    ASSUME HostedInv, NEW s \in Sessions, SaveCheckpoint(s)
    PROVE  HostedInv' /\ Kept(s)
<1> DEFINE c == worker[s].c
           e == [kind |-> "Checkpointed", gen |-> live[s].gen, c |-> c]
           d == Replay(s, disk[s], e)
           y == LiveCheckpointed(live[s], c)
           r == [y EXCEPT !.head = live[s].head + 1]
           k == [gen |-> live[s].gen, c |-> c]
<1>1. live[s].head + 1 \in Nat /\ c \in States /\ k \in Checkpoints /\ live[s].gen \in Nat
    <2>1. /\ c = Touched(IF live[s].has THEN live[s].ckpt.c ELSE Blank, s, live[s].gen)
          /\ live[s].head + 1 \in Nat /\ live[s].gen \in Nat
          /\ live[s].has => live[s].ckpt # NoCkpt
        BY Now, Also DEF SaveCheckpoint, Bears, Records, Consistent, Saved
    <2>2. live[s].has => live[s].ckpt.c \in States
        BY <2>1, Now DEF Records, Checkpoints
    <2>3. Touched(Blank, s, live[s].gen) \in States
        <3>1. <<s, live[s].gen>> \in Sessions \X Nat
            BY <2>1
        <3> QED BY <3>1 DEF Touched, States
    <2>4. live[s].has => Touched(live[s].ckpt.c, s, live[s].gen) \in States
        BY <2>1, <2>2, TouchedKeeps
    <2>5. c \in States
        BY <2>1, <2>3, <2>4
    <2> QED BY <2>1, <2>5 DEF Checkpoints
<1>2. /\ live[s].status = "Executing" /\ live[s].op = "running"
      /\ Agree(live[s], disk[s]) /\ live[s].has = disk[s].has
    BY Now DEF SaveCheckpoint, Consistent, RecordInv, Agree, Stages, Records
<1>3. Moves(s, r, d, up[s], prep[s], worker[s], "saved", retired[s])
    <2>1. Commit(s, <<e>>, y)
        BY DEF SaveCheckpoint
    <2> HIDE DEF e, y
    <2>2. disk' = [disk EXCEPT ![s] = d] /\ live' = [live EXCEPT ![s] = r]
        BY <2>1, CommitsOne
    <2> QED BY <2>2, Same DEF SaveCheckpoint, Moves
<1>4. y = [live[s] EXCEPT !.ckpt = k]
    BY DEF LiveCheckpointed
<1>5. k.gen = live[s].gen /\ k.c = c /\ k # NoCkpt
    <2>1. "c" \in DOMAIN k /\ "c" \notin DOMAIN NoCkpt
        BY DEF NoCkpt
    <2> QED BY <2>1
<1> HIDE DEF y
<1>6. Is(d, live[s].status, live[s].gen, live[s].next, live[s].actor, TRUE, k,
         live[s].op, live[s].amb, live[s].rec, live[s].mig, live[s].head + 1)
    BY <1>1, <1>2, Now, OnCheckpointed DEF Agree
<1> HIDE DEF k, e
<1>7. Is(y, live[s].status, live[s].gen, live[s].next, live[s].actor, live[s].has, k,
         live[s].op, live[s].amb, live[s].rec, live[s].mig, live[s].head)
    BY <1>1, <1>4, Now DEF Is, Records
<1>8. Is(r, live[s].status, live[s].gen, live[s].next, live[s].actor, live[s].has, k,
         live[s].op, live[s].amb, live[s].rec, live[s].mig, live[s].head + 1)
    BY <1>1, <1>7, Advanced
<1> HIDE DEF r, d, c
<1>9. Consistent(r, d, up[s], prep[s], worker[s], "saved", retired[s])
    <2>1. RecordInv(d) /\ Fresh(d, retired[s])
        BY <1>1, <1>2, <1>5, <1>6, Now
           DEF SaveCheckpoint, Is, Consistent, RecordInv, Agree, Records, Saved, Fresh
    <2>2. WorkerInv(r, worker[s], "saved", retired[s])
        BY <1>2, <1>5, <1>8, Now
           DEF SaveCheckpoint, Is, Consistent, RecordInv, Agree, WorkerInv, Records, c
    <2>3. /\ Agree(r, d) /\ d.has /\ r.ckpt # NoCkpt
          /\ r.op = "running" /\ r.status = "Executing"
        BY ZenonT(40), <1>2, <1>5, <1>6, <1>8 DEF Is, Agree
    <2>4. up[s] /\ Reserved(live[s], prep[s].kind) /\ prep[s].kind # "recover"
        BY <1>2, Now DEF SaveCheckpoint, Consistent, Reserved
    <2>5. Reserved(r, prep[s].kind)
        BY <1>2, <1>8, <2>4 DEF Is, Reserved
    <2> QED BY <2>1, <2>2, <2>3, <2>4, <2>5 DEF Consistent, Stages
<1>10. Carries(s, disk[s], d)
    <2>1. /\ Numbers(disk[s]) /\ ~Moving(disk[s]) /\ disk[s].status # "Closed"
        BY <1>2, Serving DEF SaveCheckpoint
    <2>2. /\ d.gen = disk[s].gen /\ d.ckpt = k /\ d.head = disk[s].head + 1 /\ d.mig = disk[s].mig
          /\ d.next = disk[s].next /\ disk[s].ckpt = live[s].ckpt
          /\ disk[s].gen \in Nat /\ disk[s].next \in Nat /\ disk[s].head \in Nat /\ ~Moving(d)
        BY <1>2, <1>6, Now DEF Is, Agree, Records, Moving
    <2>3. Numbers(d)
        BY <1>5, <2>1, <2>2 DEF Numbers
    <2>4. \A g \in Nat : Below(g, disk[s]) => Below(g, d)
        BY <1>5, <2>2 DEF Below
    <2>5. Steps(s, disk[s], d)
        <3>1. c = Touched(IF live[s].has THEN live[s].ckpt.c ELSE Blank, s, live[s].gen)
            BY Also DEF SaveCheckpoint, Bears, c
        <3>2. Saved(live[s])
            BY Now DEF SaveCheckpoint, Consistent
        <3>3. CASE live[s].ckpt # NoCkpt
            <4>1. live[s].ckpt.c \in States
                BY <3>3, Now DEF Records, Checkpoints
            <4>2. c = [live[s].ckpt.c EXCEPT !.v = @ + 1]
                <5>1. c = Touched(live[s].ckpt.c, s, live[s].gen)
                    BY <3>1, <3>2, <3>3 DEF Saved
                <5> QED BY SMTT(30), <1>1, <4>1, <5>1, TouchedKeeps
            <4> QED BY <1>5, <2>2, <3>3, <4>2 DEF Steps
        <3>4. CASE live[s].ckpt = NoCkpt
            <4>1. c = [lin |-> <<s, disk[s].gen>>, v |-> 1]
                BY <1>2, <3>1, <3>2, <3>4 DEF Saved, Touched, Agree
            <4>2. disk[s].gen # 0
                BY <1>2, Now DEF Consistent, RecordInv, Agree
            <4>3. disk[s].gen \in 1..MaxHead
                BY <2>1, <2>2, <3>4, <4>2, SessionAssumption DEF Numbers
            <4> QED BY <1>5, <2>2, <3>4, <4>1, <4>3 DEF Steps
        <3> QED BY <3>3, <3>4
    <2>6. Works(s, disk[s], d)
        BY <2>1, <2>2, <2>5 DEF Works
    <2> QED BY <2>2, <2>3, <2>4, <2>6 DEF Carries
<1>11. ~Spawned(worker[s])
    BY NotSpawned DEF SaveCheckpoint
<1> QED BY ZenonT(40), <1>3, <1>6, <1>8, <1>9, <1>10, <1>11, Now, Framed DEF Is

LEMMA FailKeeps ==
    ASSUME HostedInv, NEW s \in Sessions, FailCheckpoint(s)
    PROVE  HostedInv' /\ Kept(s)
<1> DEFINE e == [kind |-> "CheckpointFailed", gen |-> live[s].gen]
           d == Replay(s, disk[s], e)
           y == LiveCheckpointFailed(live[s])
           r == [y EXCEPT !.head = live[s].head + 1]
<1>1. live[s].head + 1 \in Nat
    BY Now DEF Records
<1>2. /\ live[s].status = "Executing" /\ live[s].op = "running"
      /\ Agree(live[s], disk[s])
    BY Now DEF FailCheckpoint, Consistent, RecordInv, Agree, Stages, Records
<1>3. Moves(s, r, d, up[s], prep[s], worker[s], "unsaved", retired[s])
    <2>1. Commit(s, <<e>>, y)
        BY DEF FailCheckpoint
    <2> HIDE DEF e, y
    <2>2. disk' = [disk EXCEPT ![s] = d] /\ live' = [live EXCEPT ![s] = r]
        BY <2>1, CommitsOne
    <2> QED BY <2>2, Same DEF FailCheckpoint, Moves
<1>4. y = [live[s] EXCEPT !.status = "Executing", !.has = TRUE]
    BY DEF LiveCheckpointFailed
<1> HIDE DEF y
<1>5. Is(y, "Executing", live[s].gen, live[s].next, live[s].actor, TRUE, live[s].ckpt,
         live[s].op, live[s].amb, live[s].rec, live[s].mig, live[s].head)
    BY <1>4, Now DEF Is, Records
<1>6. Is(r, "Executing", live[s].gen, live[s].next, live[s].actor, TRUE, live[s].ckpt,
         live[s].op, live[s].amb, live[s].rec, live[s].mig, live[s].head + 1)
    BY <1>1, <1>5, Advanced
<1>7. Is(d, "Executing", live[s].gen, live[s].next, live[s].actor, TRUE, live[s].ckpt,
         live[s].op, live[s].amb, live[s].rec, live[s].mig, live[s].head + 1)
    BY <1>2, Now, OnCheckpointFailed DEF Agree
<1> HIDE DEF r, d
<1>8. Consistent(r, d, up[s], prep[s], worker[s], "unsaved", retired[s])
    <2>1. RecordInv(d) /\ Fresh(d, retired[s])
        BY <1>2, <1>7, Now
           DEF FailCheckpoint, Is, Consistent, RecordInv, Agree, Records, Saved, Fresh
    <2>2. WorkerInv(r, worker[s], "unsaved", retired[s])
        BY <1>2, <1>6, Now
           DEF FailCheckpoint, Is, Consistent, RecordInv, Agree, WorkerInv, Records
    <2>3. Agree(r, d) /\ r.has = d.has /\ r.op = "running" /\ r.status = "Executing"
        BY <1>2, <1>6, <1>7 DEF Is, Agree
    <2>4. Reserved(r, prep[s].kind) /\ prep[s].kind # "recover"
        BY <1>2, <1>6, Now DEF FailCheckpoint, Consistent, Reserved, Is
    <2> QED BY <2>1, <2>2, <2>3, <2>4 DEF Consistent, Stages, FailCheckpoint
<1>9. Carries(s, disk[s], d)
    BY <1>2, <1>7, CarriesIs DEF FailCheckpoint
<1>10. Bears(s, r, worker[s], "unsaved")
    <2>1. r.ckpt = live[s].ckpt
        BY <1>6 DEF Is
    <2>2. worker[s].c = Touched(IF live[s].has THEN live[s].ckpt.c ELSE Blank, s, live[s].gen)
        BY Also DEF FailCheckpoint, Bears
    <2>3. live[s].ckpt # NoCkpt => live[s].has /\ live[s].ckpt.c \in States
        BY Now DEF FailCheckpoint, Consistent, Saved, Records, Checkpoints
    <2>4. ASSUME live[s].ckpt # NoCkpt
          PROVE  worker[s].c # Blank /\ worker[s].c.lin = live[s].ckpt.c.lin
        <3>1. worker[s].c = Touched(live[s].ckpt.c, s, live[s].gen) /\ live[s].ckpt.c \in States
            BY <2>2, <2>3, <2>4
        <3>2. live[s].gen \in Nat
            BY Now DEF Records
        <3> QED BY <3>1, <3>2, TouchedKeeps
    <2> QED BY <2>1, <2>4 DEF Bears
<1>11. ~Spawned(worker[s])
    BY NotSpawned DEF FailCheckpoint
<1> QED BY ZenonT(40), <1>3, <1>6, <1>7, <1>8, <1>9, <1>10, <1>11, Now, Framed DEF Is

LEMMA LiveFinish ==
    ASSUME NEW r \in Records, NEW durable \in BOOLEAN, NEW touched \in BOOLEAN
    PROVE  Is(LiveFinished(r, durable, touched), IF durable THEN "Ready" ELSE "RecoveryRequired",
              r.gen, r.next, r.actor, (r.has \/ touched), r.ckpt, "none", r.amb, r.rec, r.mig, r.head)
<1> DEFINE y == LiveFinished(r, durable, touched)
           status == IF durable THEN "Ready" ELSE "RecoveryRequired"
<1>1. status \in {"Ready", "Executing", "RecoveryRequired", "Migrating", "Migrated", "Closed"}
    OBVIOUS
<1>2. y = [r EXCEPT !.status = status, !.has = @ \/ touched, !.op = "none"]
    BY DEF LiveFinished
<1> HIDE DEF y, status
<1>3. Is(y, status, r.gen, r.next, r.actor, (r.has \/ touched), r.ckpt, "none", r.amb, r.rec, r.mig,
         r.head)
    BY <1>1, <1>2 DEF Is, Records
<1> QED BY <1>3 DEF y, status

LEMMA FinishUntouchedKeeps ==
    ASSUME HostedInv, NEW s \in Sessions, FinishUntouched(s)
    PROVE  HostedInv' /\ Kept(s)
<1> DEFINE e == [kind |-> "Terminal", durable |-> TRUE, touched |-> FALSE]
           d == Replay(s, disk[s], e)
           y == LiveFinished(live[s], TRUE, FALSE)
           r == [y EXCEPT !.head = live[s].head + 1]
<1>1. live[s].head + 1 \in Nat
    BY Now DEF Records
<1>2. /\ live[s].status = "Executing" /\ live[s].op = "running"
      /\ Agree(live[s], disk[s]) /\ live[s].has = disk[s].has /\ Saved(live[s])
    BY Now DEF FinishUntouched, Consistent, RecordInv, Agree, Stages, Records
<1>3. Moves(s, r, d, up[s], prep[s], worker[s], "idle", retired[s])
    <2>1. Commit(s, <<e>>, y)
        BY DEF FinishUntouched
    <2> HIDE DEF e, y
    <2>2. stage' = [stage EXCEPT ![s] = "idle"] /\ UNCHANGED <<up, prep, worker, retired>>
        BY DEF FinishUntouched
    <2>3. disk' = [disk EXCEPT ![s] = d] /\ live' = [live EXCEPT ![s] = r]
        BY <2>1, CommitsOne
    <2> QED BY <2>2, <2>3, Same DEF Moves
<1>4. Is(y, "Ready", live[s].gen, live[s].next, live[s].actor, live[s].has, live[s].ckpt,
         "none", live[s].amb, live[s].rec, live[s].mig, live[s].head)
    <2>1. /\ (live[s].has \/ FALSE) = live[s].has
          /\ (IF TRUE THEN "Ready" ELSE "RecoveryRequired") = "Ready"
        BY Now DEF Records
    <2> QED BY <2>1, Now, LiveFinish
<1>5. Is(r, "Ready", live[s].gen, live[s].next, live[s].actor, live[s].has, live[s].ckpt,
         "none", live[s].amb, live[s].rec, live[s].mig, live[s].head + 1)
    BY <1>1, <1>4, Advanced
<1>6. Is(d, "Ready", live[s].gen, live[s].next, live[s].actor, live[s].has, live[s].ckpt,
         "none", live[s].amb, live[s].rec, live[s].mig, live[s].head + 1)
    <2>1. /\ (disk[s].has \/ FALSE) = live[s].has
          /\ (IF TRUE THEN "Ready" ELSE "RecoveryRequired") = "Ready"
        BY <1>2, Now DEF Records
    <2> QED BY ZenonT(40), <1>2, <2>1, Now, OnTerminal DEF Agree
<1> HIDE DEF r, d, y
<1>7. Consistent(r, d, up[s], prep[s], worker[s], "idle", retired[s])
    <2>1. RecordInv(d) /\ Fresh(d, retired[s])
        BY <1>2, <1>6, Now
           DEF FinishUntouched, Is, Consistent, RecordInv, Agree, Records, Saved, Fresh
    <2>2. WorkerInv(r, worker[s], "idle", retired[s])
        BY <1>2, <1>5, Now
           DEF FinishUntouched, Is, Consistent, RecordInv, Agree, WorkerInv, Records
    <2>3. Agree(r, d) /\ r.has = d.has /\ r.op = "none"
        BY <1>2, <1>5, <1>6 DEF Is, Agree
    <2>4. Reserved(r, prep[s].kind) /\ prep[s].kind # "recover"
        BY <1>2, <1>5, Now DEF FinishUntouched, Consistent, Reserved, Is
    <2> QED BY <2>1, <2>2, <2>3, <2>4 DEF Consistent, Stages, FinishUntouched
<1>8. Carries(s, disk[s], d)
    BY <1>2, <1>6, CarriesIs DEF FinishUntouched
<1>9. ~Spawned(worker[s])
    BY NotSpawned DEF FinishUntouched
<1> QED BY <1>3, <1>5, <1>6, <1>7, <1>8, <1>9, Now, Framed DEF Is

LEMMA FinishKeeps ==
    ASSUME HostedInv, NEW s \in Sessions, Finish(s)
    PROVE  HostedInv' /\ Kept(s)
<1> DEFINE durable == stage[s] = "saved"
           status == IF durable THEN "Ready" ELSE "RecoveryRequired"
           e == [kind |-> "Terminal", durable |-> durable, touched |-> TRUE]
           d == Replay(s, disk[s], e)
           y == LiveFinished(live[s], durable, TRUE)
           r == [y EXCEPT !.head = live[s].head + 1]
<1>1. live[s].head + 1 \in Nat /\ durable \in BOOLEAN
    BY Now DEF Records
<1>2. /\ live[s].status = "Executing" /\ live[s].op = "running"
      /\ Agree(live[s], disk[s])
      /\ durable => live[s].ckpt # NoCkpt /\ live[s].ckpt.c = worker[s].c
    BY Now DEF Finish, Consistent, RecordInv, Agree, Stages, Records, WorkerInv
<1>3. Moves(s, r, d, up[s], prep[s], worker[s], "idle", retired[s])
    <2>1. Commit(s, <<e>>, y)
        BY DEF Finish
    <2> HIDE DEF e, y
    <2>2. stage' = [stage EXCEPT ![s] = "idle"] /\ UNCHANGED <<up, prep, worker, retired>>
        BY DEF Finish
    <2>3. disk' = [disk EXCEPT ![s] = d] /\ live' = [live EXCEPT ![s] = r]
        BY <2>1, CommitsOne
    <2> QED BY <2>2, <2>3, Same DEF Moves
<1>4. Is(y, status, live[s].gen, live[s].next, live[s].actor, TRUE, live[s].ckpt,
         "none", live[s].amb, live[s].rec, live[s].mig, live[s].head)
    <2>1. (live[s].has \/ TRUE) = TRUE
        OBVIOUS
    <2> HIDE DEF durable
    <2> QED BY <1>1, <2>1, Now, LiveFinish
<1>5. Is(r, status, live[s].gen, live[s].next, live[s].actor, TRUE, live[s].ckpt,
         "none", live[s].amb, live[s].rec, live[s].mig, live[s].head + 1)
    BY <1>1, <1>4, Advanced
<1>6. Is(d, status, live[s].gen, live[s].next, live[s].actor, TRUE, live[s].ckpt,
         "none", live[s].amb, live[s].rec, live[s].mig, live[s].head + 1)
    <2>1. (disk[s].has \/ TRUE) = TRUE
        OBVIOUS
    <2> HIDE DEF durable
    <2> QED BY ZenonT(40), <1>1, <1>2, <2>1, Now, OnTerminal DEF Agree
<1> HIDE DEF r, d, y, durable
<1>7. Consistent(r, d, up[s], prep[s], worker[s], "idle", retired[s])
    <2>1. RecordInv(d) /\ Fresh(d, retired[s])
        BY <1>2, <1>6, Now
           DEF Finish, Is, Consistent, RecordInv, Agree, Records, Saved, Fresh
    <2>2. WorkerInv(r, worker[s], "idle", retired[s])
        BY SMTT(30), <1>2, <1>5, Now
           DEF Finish, Is, Consistent, RecordInv, Agree, WorkerInv, Records
    <2>3. Agree(r, d) /\ r.has = d.has /\ r.op = "none"
        BY <1>2, <1>5, <1>6 DEF Is, Agree
    <2>4. Reserved(r, prep[s].kind) /\ prep[s].kind # "recover"
        BY <1>2, <1>5, Now DEF Finish, Consistent, Reserved, Is
    <2> QED BY <2>1, <2>2, <2>3, <2>4 DEF Consistent, Stages, Finish
<1>8. Carries(s, disk[s], d)
    <2>1. status \in {"Ready", "Executing", "RecoveryRequired", "Closed"}
        OBVIOUS
    <2> HIDE DEF status
    <2> QED BY <1>2, <1>6, <2>1, CarriesIs DEF Finish
<1>9. ~Spawned(worker[s])
    BY NotSpawned DEF Finish
<1> QED BY <1>3, <1>5, <1>6, <1>7, <1>8, <1>9, Now, Framed DEF Is

LEMMA LiveResets ==
    ASSUME NEW r \in Records
    PROVE  /\ LiveReset(r).next = (IF r.gen # 0 THEN r.gen + 1 ELSE r.next)
           /\ Is(LiveReset(r), "Ready", 0, IF r.gen # 0 THEN r.gen + 1 ELSE r.next, FALSE, FALSE,
                 NoCkpt, r.op, r.amb, r.rec, Overtaken(r.mig), r.head)
<1> DEFINE next == IF r.gen # 0 THEN r.gen + 1 ELSE r.next
           mig == Overtaken(r.mig)
           y == LiveReset(r)
<1>1. y = [r EXCEPT !.actor = FALSE, !.gen = 0, !.next = next, !.has = FALSE, !.ckpt = NoCkpt,
                    !.status = "Ready", !.mig = mig]
    BY DEF LiveReset
<1>2. next \in Nat \ {0}
    BY DEF Records
<1>3. mig \in {NoMig} \cup Transitions
    BY OvertakenIs
<1> HIDE DEF next, mig, y
<1>4. Is(y, "Ready", 0, next, FALSE, FALSE, NoCkpt, r.op, r.amb, r.rec, mig, r.head)
    BY <1>1, <1>2, <1>3 DEF Is, Records, Checkpoints
<1>5. y.next = next
    BY <1>4 DEF Is
<1> QED BY <1>4, <1>5 DEF next, mig, y

LEMMA ResetKeeps ==
    ASSUME HostedInv, NEW s \in Sessions, ResetSession(s)
    PROVE  HostedInv' /\ Kept(s)
<1> DEFINE y == LiveReset(live[s])
           next == IF live[s].gen # 0 THEN live[s].gen + 1 ELSE live[s].next
           e == [kind |-> "Reset", prev |-> live[s].gen, next |-> next]
           d == Replay(s, disk[s], e)
           r == [y EXCEPT !.head = live[s].head + 1]
           n == Gone(worker[s], retired[s])
<1>1. live[s].head + 1 \in Nat /\ next \in Nat \ {0} /\ live[s].gen \in Nat
    BY Now DEF Records
<1>2. /\ live[s].status \in {"Ready", "RecoveryRequired"} /\ live[s].op = "none"
      /\ Agree(live[s], disk[s]) /\ stage[s] = "idle" /\ prep[s].kind = "none"
      /\ live[s].rec = None /\ live[s].amb = 0
    BY Now DEF ResetSession, Called, Consistent, RecordInv, Agree, Stages, Records, Reserved, None
<1>13. /\ Overtaken(live[s].mig) = live[s].mig /\ Overtaken(disk[s].mig) = live[s].mig
       /\ ~Spawned(worker[s]) /\ Physical(worker[s]) = Alive(worker[s])
    <2>1. ~Unfinished(live[s].mig) /\ ~Unfinished(disk[s].mig)
        BY <1>2, Serving DEF ResetSession, Called
    <2> QED BY <1>2, <2>1, Now, NotSpawned, OvertakenIs DEF Agree
<1>4. y.next = next
    BY Now, LiveResets
<1>5. Moves(s, r, d, up[s], prep[s], NoWorker, stage[s], n)
    <2>1. Commit(s, <<e>>, y)
        BY <1>4 DEF ResetSession
    <2> HIDE DEF e, y
    <2>2. disk' = [disk EXCEPT ![s] = d] /\ live' = [live EXCEPT ![s] = r]
        BY <2>1, CommitsOne
    <2> QED BY <2>2, Same DEF ResetSession, Discard, Gone, Moves
<1>6. Is(y, "Ready", 0, next, FALSE, FALSE, NoCkpt, live[s].op, live[s].amb, live[s].rec, live[s].mig,
         live[s].head)
    BY <1>13, Now, LiveResets
<1> HIDE DEF y, next
<1>7. Is(r, "Ready", 0, next, FALSE, FALSE, NoCkpt, live[s].op, live[s].amb, live[s].rec, live[s].mig,
         live[s].head + 1)
    BY <1>1, <1>6, Advanced
<1>8. Is(d, "Ready", 0, next, FALSE, FALSE, NoCkpt, live[s].op, live[s].amb, live[s].rec, live[s].mig,
         live[s].head + 1)
    BY <1>1, <1>2, <1>13, Now, OnReset DEF Agree
<1> HIDE DEF r, d, e
<1>9. Consistent(r, d, up[s], prep[s], NoWorker, stage[s], n)
    <2>1. RecordInv(d)
        BY <1>2, <1>8 DEF Is, RecordInv, Saved
    <2>2. n < next
        BY <1>1, <1>2, <1>13, Now
           DEF ResetSession, Called, Consistent, Fresh, WorkerInv, Agree, Gone, Records, next
    <2>3. Fresh(d, n)
        BY <1>8, <2>2 DEF Is, Fresh
    <2>4. Agree(r, d) /\ r.has = d.has /\ r.op = "none" /\ r.rec = None
        BY <1>2, <1>7, <1>8 DEF Is, Agree
    <2>5. up[s] /\ ~Alive(NoWorker)
        BY DEF ResetSession, Called, Alive, NoWorker
    <2>6. ~Unfinished(r.mig)
        BY <1>2, <1>7, <2>5, Serving DEF Is
    <2> QED BY <2>6, <1>2, <2>1, <2>3, <2>4, <2>5 DEF Consistent, Reserved, Stages
<1>10. NoWorker \in Workers /\ n \in Nat
    BY Now DEF Workers
<1>11. Carries(s, disk[s], d)
    <2>1. /\ Numbers(disk[s]) /\ ~Moving(disk[s]) /\ disk[s].status # "Closed"
        BY <1>2, Serving DEF ResetSession, Called
    <2>2. /\ d.gen = 0 /\ d.ckpt = NoCkpt /\ d.head = disk[s].head + 1 /\ d.mig = disk[s].mig
          /\ d.next = IF disk[s].gen # 0 THEN disk[s].gen + 1 ELSE disk[s].next
          /\ disk[s].gen \in Nat /\ disk[s].next \in Nat /\ disk[s].head \in Nat /\ ~Moving(d)
        BY <1>2, <1>8, Now DEF Is, Agree, Records, Moving, next
    <2>3. Numbers(d)
        BY <2>1, <2>2 DEF Numbers
    <2>4. \A g \in Nat : Below(g, disk[s]) => Below(g, d)
        BY <2>2 DEF Below
    <2>5. Works(s, disk[s], d)
        BY <2>1, <2>2 DEF Works, Steps
    <2> QED BY <2>2, <2>3, <2>4, <2>5 DEF Carries
<1> HIDE DEF n
<1>12. ~Alive(NoWorker) /\ ~Spawned(NoWorker)
    BY DEF Alive, Spawned, NoWorker
<1> QED BY <1>5, <1>7, <1>8, <1>9, <1>10, <1>11, <1>12, Now, Framed DEF Is

LEMMA CloseKeeps ==
    ASSUME HostedInv, NEW s \in Sessions, CloseSession(s)
    PROVE  HostedInv' /\ Kept(s)
<1> DEFINE y == LiveClosed(live[s])
           e == [kind |-> "Closed"]
           d == Replay(s, disk[s], e)
           r == [y EXCEPT !.head = live[s].head + 1]
           n == Gone(worker[s], retired[s])
<1>1. live[s].head + 1 \in Nat
    BY Now DEF Records
<1>2. /\ live[s].status \notin {"Closed", "Migrating"} /\ live[s].op = "none"
      /\ Agree(live[s], disk[s]) /\ stage[s] = "idle" /\ prep[s].kind = "none"
      /\ live[s].rec = None /\ live[s].has = disk[s].has
    BY Now DEF CloseSession, Called, Consistent, RecordInv, Agree, Stages, Records, Reserved, None
<1>12. /\ ~Unfinished(live[s].mig) /\ Overtaken(disk[s].mig) = live[s].mig
       /\ ~Spawned(worker[s]) /\ Physical(worker[s]) = Alive(worker[s])
    <2>1. ~Unfinished(live[s].mig)
        BY <1>2, Now DEF CloseSession, Called, Consistent, Reserved
    <2> QED BY <1>2, <2>1, Now, NotSpawned, OvertakenIs DEF Agree
<1>3. y = [live[s] EXCEPT !.status = "Closed"]
    BY DEF LiveClosed
<1>4. Moves(s, r, d, up[s], prep[s], NoWorker, stage[s], n)
    <2>1. Commit(s, <<e>>, y)
        BY DEF CloseSession
    <2> HIDE DEF e, y
    <2>2. disk' = [disk EXCEPT ![s] = d] /\ live' = [live EXCEPT ![s] = r]
        BY <2>1, CommitsOne
    <2> QED BY <2>2, Same DEF CloseSession, Discard, Gone, Moves
<1> HIDE DEF y
<1>5. Is(y, "Closed", live[s].gen, live[s].next, live[s].actor, live[s].has, live[s].ckpt,
         live[s].op, live[s].amb, live[s].rec, live[s].mig, live[s].head)
    BY <1>3, Now DEF Is, Records
<1>6. Is(r, "Closed", live[s].gen, live[s].next, live[s].actor, live[s].has, live[s].ckpt,
         live[s].op, live[s].amb, live[s].rec, live[s].mig, live[s].head + 1)
    BY <1>1, <1>5, Advanced
<1>7. Is(d, "Closed", live[s].gen, live[s].next, live[s].actor, live[s].has, live[s].ckpt,
         live[s].op, live[s].amb, live[s].rec, live[s].mig, live[s].head + 1)
    BY <1>2, <1>12, Now, OnClosed DEF Agree
<1> HIDE DEF r, d, e
<1>8. Consistent(r, d, up[s], prep[s], NoWorker, stage[s], n)
    <2>1. RecordInv(d)
        BY <1>2, <1>7, Now DEF CloseSession, Called, Is, RecordInv, Consistent, Agree, Saved
    <2>2. Fresh(d, n)
        BY <1>2, <1>7, <1>12, Now
           DEF CloseSession, Called, Is, Consistent, Fresh, WorkerInv, Agree, Gone, Records
    <2>3. Agree(r, d) /\ r.has = d.has /\ r.op = "none" /\ r.rec = None
        BY <1>2, <1>6, <1>7 DEF Is, Agree
    <2>4. up[s] /\ ~Alive(NoWorker)
        BY DEF CloseSession, Called, Alive, NoWorker
    <2>5. ~Unfinished(r.mig) /\ r.status = "Closed"
        BY <1>6, <1>12 DEF Is
    <2> QED BY <1>2, <2>1, <2>2, <2>3, <2>4, <2>5 DEF Consistent, Reserved, Stages
<1>9. NoWorker \in Workers /\ n \in Nat
    BY Now DEF Workers
<1>10. Carries(s, disk[s], d)
    <2>1. CASE live[s].status \in {"Ready", "Executing", "RecoveryRequired"}
        BY <1>2, <1>7, <2>1, CarriesIs DEF CloseSession, Called
    <2>2. CASE live[s].status = "Migrated"
        <3>1. /\ d.gen = disk[s].gen /\ d.ckpt = disk[s].ckpt /\ d.head = disk[s].head + 1
              /\ d.mig = disk[s].mig /\ d.next = disk[s].next /\ d.actor = disk[s].actor
              /\ disk[s].gen \in Nat /\ disk[s].next \in Nat /\ disk[s].head \in Nat
              /\ d.status = "Closed" /\ disk[s].status = "Migrated"
            BY <1>2, <1>7, <2>2, Now DEF Is, Agree, Records
        <3>2. Numbers(d)
            BY <3>1, Also DEF Numbers
        <3>3. \A g \in Nat : Below(g, disk[s]) => Below(g, d)
            BY <3>1 DEF Below
        <3>4. Works(s, disk[s], d)
            BY <3>1 DEF Works
        <3> QED BY <3>1, <3>2, <3>3, <3>4 DEF Carries
    <2> QED BY <2>1, <2>2, Now DEF CloseSession, Records
<1> HIDE DEF n
<1>11. ~Alive(NoWorker) /\ ~Spawned(NoWorker)
    BY DEF Alive, Spawned, NoWorker
<1> QED BY <1>4, <1>6, <1>7, <1>8, <1>9, <1>10, <1>11, Now, Framed DEF Is

LEMMA LiveRefuse ==
    ASSUME NEW r \in Records
    PROVE  Is(LiveRefused(r), "RecoveryRequired", r.gen, r.next, r.actor, r.has, r.ckpt, r.op,
              r.amb, None, r.mig, r.head)
<1> DEFINE y == LiveRefused(r)
<1>1. y = [r EXCEPT !.status = "RecoveryRequired", !.rec = None]
    BY DEF LiveRefused
<1> HIDE DEF y
<1>2. Is(y, "RecoveryRequired", r.gen, r.next, r.actor, r.has, r.ckpt, r.op, r.amb, None, r.mig, r.head)
    BY <1>1 DEF Is, Records
<1> QED BY <1>2 DEF y

LEMMA RefusedKeeps ==
    ASSUME HostedInv, NEW s \in Sessions, RecoverRefused(s)
    PROVE  HostedInv' /\ Kept(s)
<1> DEFINE y == LiveRefused(live[s])
           e == [kind |-> "Refused", gen |-> 0]
           d == Replay(s, disk[s], e)
           r == [y EXCEPT !.head = live[s].head + 1]
<1>1. live[s].head + 1 \in Nat
    BY Now DEF Records
<1>2. /\ live[s].status = "RecoveryRequired" /\ live[s].op = "none" /\ stage[s] = "idle"
      /\ Agree(live[s], disk[s]) /\ live[s].rec = None /\ live[s].has = disk[s].has
    BY Now DEF RecoverRefused, Unchanged, Consistent, RecordInv, Agree, Stages, Records, Reserved
<1>3. Moves(s, r, d, up[s], None, worker[s], stage[s], retired[s])
    <2>1. Commit(s, <<e>>, y)
        BY DEF RecoverRefused
    <2> HIDE DEF e, y
    <2>2. disk' = [disk EXCEPT ![s] = d] /\ live' = [live EXCEPT ![s] = r]
        BY <2>1, CommitsOne
    <2> QED BY <2>2, Same DEF RecoverRefused, Release, Moves
<1>4. Is(r, "RecoveryRequired", live[s].gen, live[s].next, live[s].actor, live[s].has,
         live[s].ckpt, live[s].op, live[s].amb, None, live[s].mig, live[s].head + 1)
    BY <1>1, Now, LiveRefuse, Advanced
<1>5. Is(d, "RecoveryRequired", live[s].gen, live[s].next, live[s].actor, live[s].has,
         live[s].ckpt, live[s].op, live[s].amb, None, live[s].mig, live[s].head + 1)
    BY <1>2, Now, OnRefused DEF Agree
<1> HIDE DEF r, d, e, y
<1>6. Consistent(r, d, up[s], None, worker[s], stage[s], retired[s])
    <2>1. RecordInv(d) /\ Fresh(d, retired[s])
        BY <1>2, <1>5, Now DEF RecoverRefused, Unchanged, Is, RecordInv, Consistent, Agree, Fresh
    <2>2. Alive(worker[s]) => WorkerInv(r, worker[s], stage[s], retired[s])
        BY <1>2, <1>4, Now DEF RecoverRefused, Unchanged, Is, Consistent, WorkerInv
    <2>3. Agree(r, d) /\ r.has = d.has /\ r.op = "none" /\ r.rec = None
        BY <1>2, <1>4, <1>5 DEF Is, Agree
    <2>4. up[s] /\ None.kind = "none"
        BY DEF RecoverRefused, Unchanged, None
    <2>5. ~Unfinished(r.mig)
        BY <1>2, <1>4, <2>4, Serving DEF Is
    <2> QED BY <1>2, <2>1, <2>2, <2>3, <2>4, <2>5 DEF Consistent, Reserved, Stages
<1>7. Carries(s, disk[s], d)
    BY <1>2, <1>5, CarriesIs DEF RecoverRefused, Unchanged
<1>8. None.kind = "none"
    BY DEF None
<1>9. ~Spawned(worker[s])
    BY <1>2, Serving, NotSpawned DEF RecoverRefused, Unchanged
<1> QED BY <1>2, <1>3, <1>4, <1>5, <1>6, <1>7, <1>8, <1>9, Now, Framed DEF Is

LEMMA AttemptKeeps ==
    ASSUME HostedInv, NEW s \in Sessions, RecoverAttempt(s)
    PROVE  HostedInv' /\ Kept(s)
<1> DEFINE t == prep[s].what
           k == live[s].gen + 1
           next == live[s].gen + 2
           a == [kind |-> "attempt", gen |-> k, trigger |-> t, at |-> live[s].head + 1]
           y == LiveAttempted(live[s], t)
           e == [kind |-> "AttemptStarted", trigger |-> t, prev |-> live[s].gen, gen |-> k,
                 c |-> live[s].ckpt.c]
           d == Replay(s, disk[s], e)
           r == [y EXCEPT !.head = live[s].head + 1]
           p == [prep[s] EXCEPT !.kind = "restore"]
           n == Gone(worker[s], retired[s])
           w == Restoring(live[s].ckpt.c, k)
<1>1. /\ live[s].status = "RecoveryRequired" /\ live[s].op = "none" /\ stage[s] = "idle"
      /\ Agree(live[s], disk[s]) /\ live[s].rec = None /\ live[s].has = disk[s].has
      /\ t \in Triggers /\ "kind" \in DOMAIN prep[s] /\ live[s].gen # 0
      /\ live[s].ckpt # NoCkpt /\ live[s].next = live[s].gen + 1
    BY Now DEF RecoverAttempt, Unchanged, Consistent, RecordInv, Agree, Stages, Records, Reserved
<1>2. /\ live[s].head + 1 \in Nat /\ live[s].gen \in Nat \ {0}
      /\ k \in Nat \ {0} /\ next \in Nat \ {0} /\ a \in Attempts
    BY <1>1, Now DEF Records, Attempts
<1>3. ~live[s].actor /\ ~live[s].has /\ live[s].ckpt.gen <= live[s].gen
    BY <1>1, <1>2, Now DEF Consistent, RecordInv, Agree, Records
<1>4. p.kind = "restore" /\ a.gen = k /\ a.at = live[s].head + 1 /\ a.trigger = t /\ a # None
    <2>1. a.kind # None.kind
        BY DEF None
    <2> QED BY <1>1, <2>1
<1>5. t = "ambiguous" => live[s].amb > 0
    BY DEF RecoverAttempt, TriggerValid
<1>15. ~Spawned(worker[s]) /\ Physical(worker[s]) = Alive(worker[s])
    BY <1>1, Serving, NotSpawned DEF RecoverAttempt, Unchanged
<1>16. /\ w \in Workers /\ ~Alive(w) /\ w.gen = k /\ w.c = live[s].ckpt.c
    <2>1. live[s].ckpt.c \in States
        BY <1>1, Now DEF Records, Checkpoints
    <2> QED BY <1>2, <2>1 DEF Restoring, Alive, Workers
<1>6. Moves(s, r, d, up[s], p, w, stage[s], n)
    <2>1. Commit(s, <<e>>, y)
        BY DEF RecoverAttempt
    <2> HIDE DEF e, y
    <2>2. disk' = [disk EXCEPT ![s] = d] /\ live' = [live EXCEPT ![s] = r]
        BY <2>1, CommitsOne
    <2> QED BY <2>2, Same DEF RecoverAttempt, Discard, Gone, Moves
<1>7. Is(d, live[s].status, k, next, FALSE, FALSE, live[s].ckpt, live[s].op, live[s].amb, a, live[s].mig,
         live[s].head + 1)
    <2>1. TriggerValid(disk[s], t)
        BY <1>1, Now DEF RecoverAttempt, TriggerValid, Agree
    <2> QED BY <1>1, <1>3, <2>1, Now, OnAttemptStarted DEF Agree
<1>8. y = [live[s] EXCEPT !.actor = FALSE, !.gen = k, !.next = next, !.has = FALSE, !.rec = a]
    BY DEF LiveAttempted
<1> HIDE DEF a, k, next, y, e, t, w
<1>9. Is(y, live[s].status, k, next, FALSE, FALSE, live[s].ckpt, live[s].op, live[s].amb, a, live[s].mig,
         live[s].head)
    BY ZenonT(40), <1>2, <1>8, Now DEF Is, Records
<1>10. Is(r, live[s].status, k, next, FALSE, FALSE, live[s].ckpt, live[s].op, live[s].amb, a, live[s].mig,
          live[s].head + 1)
    BY <1>2, <1>9, Advanced
<1> HIDE DEF r, d, p
<1>11. Consistent(r, d, up[s], p, w, stage[s], n)
    <2>1. k = live[s].gen + 1 /\ next = k + 1 /\ live[s].ckpt.gen < k /\ live[s].ckpt.gen <= k
        <3>1. live[s].ckpt.gen \in Nat
            BY <1>1, Now DEF Records, Checkpoints
        <3> QED BY <1>2, <1>3, <3>1 DEF k, next
    <2>2. RecordInv(d)
        BY <1>1, <1>2, <1>4, <1>5, <1>7, <2>1 DEF Is, RecordInv, Saved
    <2>3. n < k
        BY <1>1, <1>2, <1>15, <2>1, Now
           DEF RecoverAttempt, Unchanged, Consistent, Fresh, WorkerInv, Agree, Gone
    <2>4. Fresh(d, n)
        BY <1>2, <1>7, <2>3, Now DEF Is, Fresh
    <2>5. Agree(r, d) /\ r.has = d.has /\ r.op = "none" /\ r.rec = a
        BY <1>1, <1>7, <1>10 DEF Is, Agree
    <2>6. up[s]
        BY DEF RecoverAttempt, Unchanged
    <2>7. r.status = "RecoveryRequired" /\ ~Unfinished(r.mig)
        BY <1>1, <1>10, <2>6, Serving DEF Is
    <2> QED BY <1>1, <1>4, <1>16, <2>2, <2>4, <2>5, <2>6, <2>7 DEF Consistent, Reserved, Stages
<1>12. n \in Nat /\ n < k
    BY <1>1, <1>2, <1>15, Now
       DEF RecoverAttempt, Unchanged, Consistent, Fresh, WorkerInv, Agree, Gone, k
<1> HIDE DEF n
<1>13. Carries(s, disk[s], d)
    <2>1. /\ Numbers(disk[s]) /\ ~Moving(disk[s]) /\ disk[s].status = "RecoveryRequired"
          /\ Agree(live[s], disk[s])
        BY <1>1, Serving DEF RecoverAttempt, Unchanged
    <2>2. /\ d.mig = disk[s].mig /\ d.ckpt = disk[s].ckpt /\ d.gen = disk[s].gen + 1
          /\ d.next = disk[s].gen + 2 /\ d.head = disk[s].head + 1 /\ ~Moving(d)
          /\ disk[s].gen \in Nat \ {0} /\ disk[s].head \in Nat /\ disk[s].ckpt # NoCkpt
        BY <1>1, <1>2, <1>7, <2>1, Now DEF Is, Agree, Records, Moving, k, next
    <2>3. Numbers(d)
        BY <2>1, <2>2 DEF Numbers
    <2>4. \A g \in Nat : Below(g, disk[s]) => Below(g, d)
        BY <2>2 DEF Below
    <2>5. Steps(s, disk[s], d)
        BY <2>2 DEF Steps
    <2> QED BY <2>1, <2>2, <2>3, <2>4, <2>5 DEF Carries, Works
<1>14. Restores(r, w, n)
    BY <1>4, <1>10, <1>12, <1>16 DEF Restores, Is
<1> QED BY <1>4, <1>6, <1>7, <1>10, <1>11, <1>12, <1>13, <1>14, <1>16, Now, Framed DEF Is

LEMMA RecoverCommitKeeps ==
    ASSUME HostedInv, NEW s \in Sessions, RecoverCommit(s)
    PROVE  HostedInv' /\ Kept(s)
<1> DEFINE t == live[s].rec.trigger
           amb == live[s].amb - (IF t = "ambiguous" THEN 1 ELSE 0)
           c == [live[s].ckpt EXCEPT !.gen = live[s].gen]
           y == LiveRecovered(live[s])
           e == [kind |-> "Committed", trigger |-> t, gen |-> live[s].gen, c |-> live[s].ckpt.c]
           d == Replay(s, disk[s], e)
           r == [y EXCEPT !.head = live[s].head + 1]
           w == Bearing(worker[s].c, worker[s].gen)
<1>1. /\ live[s].status = "RecoveryRequired" /\ live[s].op = "none" /\ stage[s] = "idle"
      /\ Agree(live[s], disk[s]) /\ live[s].rec # None /\ live[s].has = disk[s].has
      /\ ~live[s].actor /\ ~live[s].has /\ live[s].rec.gen = live[s].gen
      /\ live[s].rec.at = live[s].head /\ live[s].ckpt # NoCkpt
      /\ live[s].ckpt.gen < live[s].gen /\ (t = "ambiguous" => live[s].amb > 0)
    BY Now DEF RecoverCommit, Attempting, Consistent, RecordInv, Agree, Stages, Records
<1>2. /\ live[s].head + 1 \in Nat /\ live[s].gen \in Nat \ {0} /\ amb \in Nat
      /\ live[s].ckpt \in [gen : Nat, c : States]
    BY <1>1, Now DEF Records, Attempts, Checkpoints
<1>3. c \in Checkpoints /\ c.gen = live[s].gen /\ c.c = live[s].ckpt.c /\ c # NoCkpt
    <2>1. c \in [gen : Nat, c : States]
        BY <1>2
    <2>2. "c" \in DOMAIN c /\ "c" \notin DOMAIN NoCkpt
        BY <1>2 DEF NoCkpt
    <2> QED BY <1>2, <2>1, <2>2 DEF Checkpoints
<1>13. worker[s].c = live[s].ckpt.c /\ worker[s].gen = live[s].gen /\ retired[s] < live[s].gen
    <2>1. Spawned(worker[s]) /\ ~Unfinished(live[s].mig)
        BY <1>1, Serving DEF RecoverCommit, Attempting, Spawned
    <2> QED BY <2>1, Also DEF Restores
<1>4. w \in Workers /\ w.c = live[s].ckpt.c /\ w.gen = live[s].gen /\ Alive(w) /\ ~Spawned(w)
    BY <1>2, <1>13 DEF Workers, Bearing, Alive, Spawned
<1>5. Moves(s, r, d, up[s], None, w, stage[s], retired[s])
    <2>1. Commit(s, <<e>>, y)
        BY DEF RecoverCommit
    <2> HIDE DEF e, y
    <2>2. disk' = [disk EXCEPT ![s] = d] /\ live' = [live EXCEPT ![s] = r]
        BY <2>1, CommitsOne
    <2> QED BY <2>2, Same DEF RecoverCommit, Release, Moves
<1>6. Is(d, "Ready", live[s].gen, live[s].gen, TRUE, TRUE, c, live[s].op, amb, None, live[s].mig,
         live[s].head + 1)
    BY <1>1, Now, OnCommitted DEF Agree
<1>7. y = [live[s] EXCEPT !.rec = None, !.actor = TRUE, !.next = live[s].gen, !.ckpt = c,
                          !.has = TRUE, !.status = "Ready", !.amb = amb]
    BY DEF LiveRecovered
<1> HIDE DEF y, c, amb, e, w
<1>8. Is(y, "Ready", live[s].gen, live[s].gen, TRUE, TRUE, c, live[s].op, amb, None, live[s].mig,
         live[s].head)
    BY ZenonT(40), <1>2, <1>3, <1>7, Now DEF Is, Records
<1>9. Is(r, "Ready", live[s].gen, live[s].gen, TRUE, TRUE, c, live[s].op, amb, None, live[s].mig,
         live[s].head + 1)
    BY <1>2, <1>8, Advanced
<1> HIDE DEF r, d
<1>10. Consistent(r, d, up[s], None, w, stage[s], retired[s])
    <2>1. RecordInv(d)
        BY <1>1, <1>2, <1>3, <1>6 DEF Is, RecordInv, Saved
    <2>2. Fresh(d, retired[s]) /\ retired[s] < live[s].gen
        BY <1>2, <1>6, <1>13, Now DEF Fresh, Is
    <2>3. ~Unfinished(r.mig)
        BY <1>1, <1>9, Serving DEF Is, RecoverCommit, Attempting
    <2>4. WorkerInv(r, w, stage[s], retired[s])
        BY <1>1, <1>2, <1>3, <1>4, <1>9, <2>2, <2>3 DEF WorkerInv, Is
    <2>5. Agree(r, d) /\ r.has = d.has /\ r.op = "none" /\ r.rec = None
        BY <1>1, <1>6, <1>9 DEF Is, Agree
    <2>6. up[s] /\ None.kind = "none"
        BY DEF RecoverCommit, Attempting, None
    <2> QED BY <1>1, <2>1, <2>2, <2>4, <2>5, <2>6, <2>3 DEF Consistent, Reserved, Stages
<1>11. Carries(s, disk[s], d)
    <2>1. /\ Numbers(disk[s]) /\ ~Moving(disk[s]) /\ disk[s].status = "RecoveryRequired"
          /\ Agree(live[s], disk[s])
        BY <1>1, Serving DEF RecoverCommit, Attempting
    <2>2. /\ d.mig = disk[s].mig /\ d.ckpt = c /\ d.gen = disk[s].gen
          /\ d.next = disk[s].gen /\ d.head = disk[s].head + 1 /\ ~Moving(d)
          /\ disk[s].gen \in Nat \ {0} /\ disk[s].head \in Nat /\ disk[s].ckpt # NoCkpt
          /\ c.c = disk[s].ckpt.c
        BY <1>1, <1>2, <1>3, <1>6, <2>1, Now DEF Is, Agree, Records, Moving
    <2>3. Numbers(d)
        BY <1>3, <2>1, <2>2 DEF Numbers
    <2>4. \A g \in Nat : Below(g, disk[s]) => Below(g, d)
        BY <1>3, <2>2 DEF Below
    <2>5. Steps(s, disk[s], d)
        BY <1>3, <2>2 DEF Steps
    <2> QED BY <2>1, <2>2, <2>3, <2>4, <2>5 DEF Carries, Works
<1>12. None.kind = "none"
    BY DEF None
<1> QED BY <1>1, <1>4, <1>5, <1>6, <1>9, <1>10, <1>11, <1>12, Now, Framed DEF Is

LEMMA RecoverFailKeeps ==
    ASSUME HostedInv, NEW s \in Sessions, RecoverFail(s)
    PROVE  HostedInv' /\ Kept(s)
<1> DEFINE y == LiveRefused(live[s])
           e == [kind |-> "Refused", gen |-> live[s].gen]
           d == Replay(s, disk[s], e)
           r == [y EXCEPT !.head = live[s].head + 1]
           n == Gone(worker[s], retired[s])
<1>1. /\ live[s].status = "RecoveryRequired" /\ live[s].op = "none" /\ stage[s] = "idle"
      /\ Agree(live[s], disk[s]) /\ live[s].rec # None /\ live[s].has = disk[s].has
      /\ live[s].rec.gen = live[s].gen /\ live[s].rec.at = live[s].head /\ ~Alive(worker[s])
    BY Now DEF RecoverFail, Attempting, Consistent, RecordInv, Agree, Stages, Records, WorkerInv
<1>2. live[s].head + 1 \in Nat /\ live[s].gen \in Nat \ {0}
    BY <1>1, Now DEF Records, Attempts
<1>9. NoWorker \in Workers /\ ~Alive(NoWorker) /\ ~Spawned(NoWorker) /\ n \in Nat
    BY Now, NotSpawned DEF Workers
<1>10. n <= live[s].gen
    <2>1. Physical(worker[s]) => Spawned(worker[s])
        BY <1>1 DEF Physical, Alive, Spawned
    <2>2. Physical(worker[s]) => worker[s].gen = live[s].gen
        BY <2>1, Also DEF Restores
    <2>3. retired[s] <= live[s].gen
        BY <1>1, <1>2, Now DEF RecoverFail, Attempting, Consistent, Agree, Fresh
    <2> QED BY <1>2, <2>2, <2>3, Now DEF Gone
<1>3. Moves(s, r, d, up[s], None, NoWorker, stage[s], n)
    <2>1. Commit(s, <<e>>, y)
        BY DEF RecoverFail
    <2> HIDE DEF e, y
    <2>2. disk' = [disk EXCEPT ![s] = d] /\ live' = [live EXCEPT ![s] = r]
        BY <2>1, CommitsOne
    <2> QED BY <2>2, Same DEF RecoverFail, Release, Discard, Gone, Moves
<1>4. Is(r, "RecoveryRequired", live[s].gen, live[s].next, live[s].actor, live[s].has,
         live[s].ckpt, live[s].op, live[s].amb, None, live[s].mig, live[s].head + 1)
    BY <1>2, Now, LiveRefuse, Advanced
<1>5. Is(d, "RecoveryRequired", live[s].gen, live[s].next, live[s].actor, live[s].has,
         live[s].ckpt, live[s].op, live[s].amb, None, live[s].mig, live[s].head + 1)
    BY <1>1, <1>2, Now, OnRefused DEF Agree
<1> HIDE DEF r, d, e, y, n
<1>6. Consistent(r, d, up[s], None, NoWorker, stage[s], n)
    <2>1. RecordInv(d)
        BY <1>1, <1>5, Now DEF RecoverFail, Attempting, Is, RecordInv, Consistent, Agree
    <2>2. Fresh(d, n)
        BY <1>2, <1>5, <1>10 DEF Is, Fresh
    <2>3. Agree(r, d) /\ r.has = d.has /\ r.op = "none" /\ r.rec = None
        BY <1>1, <1>4, <1>5 DEF Is, Agree
    <2>4. up[s] /\ None.kind = "none"
        BY DEF RecoverFail, Attempting, None
    <2>5. ~Unfinished(r.mig)
        BY <1>1, <1>4, <2>4, Serving DEF Is
    <2> QED BY <1>1, <1>9, <2>1, <2>2, <2>3, <2>4, <2>5 DEF Consistent, Reserved, Stages
<1>7. Carries(s, disk[s], d)
    BY <1>1, <1>5, CarriesIs DEF RecoverFail, Attempting
<1>8. None.kind = "none"
    BY DEF None
<1> QED BY <1>1, <1>3, <1>4, <1>5, <1>6, <1>7, <1>8, <1>9, Now, Framed DEF Is

-----------------------------------------------------------------------------
(***************************************************************************)
(* The steps that append two events, and may stop in between.              *)
(***************************************************************************)

\* An operation that never started is interrupted without doubt.
LEMMA OnInterruption ==
    ASSUME NEW s, NEW d \in Records, d.status # "Closed", d.op # "none"
    PROVE  /\ Is(Replay(s, d, InterruptedEvent(FALSE)), "Ready", d.gen, d.next, d.actor, d.has,
                 d.ckpt, "none", d.amb, d.rec, d.mig, d.head + 1)
           /\ Is(Replay(s, d, InterruptedEvent(TRUE)), "RecoveryRequired", d.gen, d.next, d.actor,
                 d.has, d.ckpt, "none", d.amb + 1, d.rec, d.mig, d.head + 1)
<1>1. ASSUME NEW a \in BOOLEAN
      PROVE  Is(Replay(s, d, InterruptedEvent(a)), IF a THEN "RecoveryRequired" ELSE "Ready",
                d.gen, d.next, d.actor, d.has, d.ckpt, "none", d.amb + (IF a THEN 1 ELSE 0),
                d.rec, d.mig, d.head + 1)
    BY OnInterrupted DEF InterruptedEvent
<1>2. Is(Replay(s, d, InterruptedEvent(FALSE)), "Ready", d.gen, d.next, d.actor, d.has, d.ckpt,
         "none", d.amb, d.rec, d.mig, d.head + 1)
    <2>1. Is(Replay(s, d, InterruptedEvent(FALSE)), IF FALSE THEN "RecoveryRequired" ELSE "Ready",
             d.gen, d.next, d.actor, d.has, d.ckpt, "none", d.amb + (IF FALSE THEN 1 ELSE 0),
             d.rec, d.mig, d.head + 1)
        BY <1>1
    <2>2. d.amb + (IF FALSE THEN 1 ELSE 0) = d.amb
        BY DEF Records
    <2> QED BY <2>1, <2>2
<1>3. Is(Replay(s, d, InterruptedEvent(TRUE)), "RecoveryRequired", d.gen, d.next, d.actor, d.has,
         d.ckpt, "none", d.amb + 1, d.rec, d.mig, d.head + 1)
    <2>1. Is(Replay(s, d, InterruptedEvent(TRUE)), IF TRUE THEN "RecoveryRequired" ELSE "Ready",
             d.gen, d.next, d.actor, d.has, d.ckpt, "none", d.amb + (IF TRUE THEN 1 ELSE 0),
             d.rec, d.mig, d.head + 1)
        BY <1>1
    <2> QED BY <2>1
<1> QED BY <1>2, <1>3

LEMMA StopKeeps ==
    ASSUME HostedInv, NEW s \in Sessions, NEW d \in Records, Stop(s, d),
           RecordInv(d), Fresh(d, Gone(worker[s], retired[s])), Carries(s, disk[s], d)
    PROVE  HostedInv' /\ Kept(s)
<1> DEFINE n == Gone(worker[s], retired[s])
<1>1. Moves(s, d, d, FALSE, None, NoWorker, "idle", n)
    BY DEF Stop, Moves, Discard, Gone
<1>2. NoWorker \in Workers /\ n \in Nat
    BY Now DEF Workers
<1>3. Consistent(d, d, FALSE, None, NoWorker, "idle", n)
    BY DEF Consistent
<1> HIDE DEF n
<1>4. ~Alive(NoWorker) /\ ~Spawned(NoWorker) /\ None.kind = "none"
    BY DEF Alive, Spawned, NoWorker, None
<1> QED BY <1>1, <1>2, <1>3, <1>4, Framed

\* The events that end the actor of an operation.
LEMMA Fences ==
    ASSUME HostedInv, NEW s \in Sessions, up[s], live[s].gen # 0,
           live[s].status \in {"Ready", "Executing", "RecoveryRequired"},
           NEW status \in {"Ready", "RecoveryRequired"}, NEW gen \in {live[s].gen, 0},
           NEW actor, NEW has, NEW op, NEW amb, NEW rec, NEW d, NEW head \in Nat,
           head > live[s].head,
           Is(d, status, gen, live[s].gen + 1, actor, has, live[s].ckpt, op, amb, rec,
              live[s].mig, head)
    PROVE  Carries(s, disk[s], d)
<1>1. /\ Numbers(disk[s]) /\ ~Moving(disk[s]) /\ disk[s].status # "Closed"
      /\ Agree(live[s], disk[s])
    BY Serving
<1>2. /\ disk[s] \in Records /\ d \in Records /\ disk[s].head \in Nat
      /\ d.mig = disk[s].mig /\ d.gen \in {disk[s].gen, 0} /\ d.ckpt = disk[s].ckpt
      /\ d.next = disk[s].gen + 1 /\ d.head > disk[s].head /\ ~Moving(d) /\ disk[s].gen # 0
    BY <1>1, Now DEF Is, Agree, Records, Moving
<1> QED BY <1>1, <1>2, CarriesFence

LEMMA InterruptKeeps ==
    ASSUME HostedInv, NEW s \in Sessions, InterruptBeforeStart(s)
    PROVE  HostedInv' /\ Kept(s)
<1> DEFINE e1 == InterruptedEvent(FALSE)
           e2 == FenceEvent(live[s])
           d1 == Replay(s, disk[s], e1)
           d == Replay(s, d1, e2)
           status == IF live[s].has THEN "RecoveryRequired" ELSE "Ready"
           gen == IF live[s].has THEN live[s].gen ELSE 0
<1>1. /\ live[s].status = "Executing" /\ live[s].op = "accepted" /\ stage[s] = "sending"
      /\ Agree(live[s], disk[s]) /\ live[s].rec = None /\ live[s].has = disk[s].has
      /\ live[s].gen # 0 /\ live[s].actor /\ up[s] /\ ~Alive(worker[s])
      /\ ~(live[s].amb > 0 /\ live[s].ckpt = NoCkpt)
      /\ Saved(live[s]) /\ (live[s].ckpt # NoCkpt => live[s].ckpt.gen <= live[s].gen)
    BY Now DEF InterruptBeforeStart, Consistent, RecordInv, Agree, Stages, Records, Saved
<1>2. /\ live[s].head \in Nat /\ live[s].head + 1 \in Nat /\ live[s].head + 2 \in Nat
      /\ live[s].head + 2 = live[s].head + 1 + 1 /\ live[s].gen \in Nat /\ live[s].gen + 1 \in Nat
      /\ gen \in Nat
    BY Now DEF Records
<1>3. Is(d1, "Ready", live[s].gen, live[s].next, live[s].actor, live[s].has, live[s].ckpt,
         "none", live[s].amb, live[s].rec, live[s].mig, live[s].head + 1)
    BY <1>1, Now, OnInterruption DEF Agree
<1>4. RecordInv(d1) /\ Gone(worker[s], retired[s]) = retired[s] /\ Fresh(d1, retired[s])
    <2> HIDE DEF d1
    <2>1. RecordInv(d1)
        BY <1>1, <1>2, <1>3, Now DEF Is, RecordInv, Consistent, Agree, Saved
    <2>2. Fresh(d1, retired[s])
        BY <1>1, <1>2, <1>3, Now DEF Is, Consistent, Agree, Fresh
    <2>3. ~Physical(worker[s])
        BY <1>1, Serving, NotSpawned
    <2> QED BY <2>1, <2>2, <2>3 DEF Gone
<1>5. CASE Stop(s, d1)
    <2> HIDE DEF d1
    <2>1. Carries(s, disk[s], d1)
        BY <1>1, <1>3, CarriesIs
    <2> QED BY <1>3, <1>4, <1>5, <2>1, StopKeeps DEF Is
<1>6. CASE /\ Commit(s, <<e1, e2>>, [LiveFenced(live[s]) EXCEPT !.op = "none"])
           /\ Discard(s, NoWorker)
           /\ stage' = [stage EXCEPT ![s] = "idle"]
           /\ UNCHANGED <<up, prep, isolated>>
    <2> DEFINE x == LiveFenced(live[s])
               y == [x EXCEPT !.op = "none"]
               r == [y EXCEPT !.head = live[s].head + 2]
    <2>1. Moves(s, r, d, up[s], prep[s], NoWorker, "idle", retired[s])
        <3>1. Commit(s, <<e1, e2>>, y)
            BY <1>6
        <3> HIDE DEF e1, e2, y
        <3>2. Len(<<e1, e2>>) = 2 /\ ReplayAll(s, disk[s], <<e1, e2>>) = d
            BY ReplayTwo
        <3> HIDE DEF d
        <3>3. disk' = [disk EXCEPT ![s] = d] /\ live' = [live EXCEPT ![s] = r]
            BY <3>1, <3>2 DEF Commit
        <3> QED BY <1>4, <1>6, <3>3, Same DEF Moves, Discard, Gone
    <2>2. Is(d, status, gen, live[s].gen + 1, FALSE, FALSE, live[s].ckpt, "none", live[s].amb,
             live[s].rec, live[s].mig, live[s].head + 1 + 1)
        <3> HIDE DEF d1
        <3>1. /\ d1 \in Records /\ d1.status # "Closed" /\ d1.gen = live[s].gen
              /\ d1.has = live[s].has /\ d1.ckpt = live[s].ckpt /\ d1.op = "none"
              /\ d1.amb = live[s].amb /\ d1.rec = live[s].rec /\ d1.mig = live[s].mig
              /\ d1.head = live[s].head + 1
            BY <1>3 DEF Is
        <3> QED BY <1>1, <3>1, OnFence
    <2>3. Is(x, status, gen, live[s].gen + 1, FALSE, FALSE, live[s].ckpt, live[s].op,
             live[s].amb, live[s].rec, live[s].mig, live[s].head)
        BY Now, LiveFence
    <2> HIDE DEF x, d, d1
    <2>4. Is(y, status, gen, live[s].gen + 1, FALSE, FALSE, live[s].ckpt, "none",
             live[s].amb, live[s].rec, live[s].mig, live[s].head)
        BY <2>3 DEF Is, Records
    <2> HIDE DEF y
    <2>5. Is(r, status, gen, live[s].gen + 1, FALSE, FALSE, live[s].ckpt, "none",
             live[s].amb, live[s].rec, live[s].mig, live[s].head + 2)
        BY <1>2, <2>4, Advanced
    <2> HIDE DEF r
    <2>6. RecordInv(d) /\ Fresh(d, retired[s])
        <3>1. RecordInv(d)
            BY <1>1, <1>2, <2>2 DEF Is, RecordInv, Saved
        <3>2. Fresh(d, retired[s])
            BY <1>1, <1>2, <2>2, Now DEF Is, Consistent, Agree, Fresh
        <3> QED BY <3>1, <3>2
    <2>7. Agree(r, d) /\ r.has = d.has /\ r.op = "none" /\ r.rec = None
        BY ZenonT(40), <1>1, <1>2, <2>2, <2>5 DEF Is, Agree
    <2>8. Reserved(r, prep[s].kind) /\ prep[s].kind # "recover" /\ ~Alive(NoWorker)
        <3>1. prep[s].kind = "none"
            BY <1>1, Now, Serving DEF Consistent, Reserved
        <3>2. ~Unfinished(r.mig)
            BY <1>1, <2>5, Serving DEF Is
        <3> QED BY <2>7, <3>1, <3>2 DEF Reserved, Alive, NoWorker
    <2>9. Consistent(r, d, up[s], prep[s], NoWorker, "idle", retired[s])
        BY <1>1, <2>6, <2>7, <2>8 DEF Consistent, Stages
    <2>10. NoWorker \in Workers /\ ~Spawned(NoWorker)
        BY DEF Workers, Spawned, NoWorker
    <2>11. Carries(s, disk[s], d)
        <3>1. /\ status \in {"Ready", "RecoveryRequired"} /\ gen \in {live[s].gen, 0}
              /\ live[s].head + 1 + 1 \in Nat /\ live[s].head + 1 + 1 > live[s].head
            BY <1>2
        <3> HIDE DEF status, gen
        <3> QED BY <1>1, <2>2, <3>1, Fences
    <2> QED BY <2>1, <2>2, <2>5, <2>8, <2>9, <2>10, <2>11, Now, Framed DEF Is
<1> QED BY <1>5, <1>6 DEF InterruptBeforeStart

LEMMA LoseKeeps ==
    ASSUME HostedInv, NEW s \in Sessions, LoseActor(s)
    PROVE  HostedInv' /\ Kept(s)
<1> DEFINE k == live[s].gen + 1
           amb == live[s].amb + 1
           e1 == [kind |-> "StateLost", prev |-> live[s].gen, next |-> k]
           e2 == InterruptedEvent(TRUE)
           d1 == Replay(s, disk[s], e1)
           d == Replay(s, d1, e2)
           n == Gone(worker[s], retired[s])
<1>1. /\ live[s].status = "Executing" /\ live[s].op = "running" /\ stage[s] = "running"
      /\ Agree(live[s], disk[s]) /\ live[s].rec = None /\ live[s].has = disk[s].has
      /\ live[s].gen # 0 /\ up[s]
      /\ (live[s].ckpt # NoCkpt => live[s].ckpt.gen <= live[s].gen)
    BY Now DEF LoseActor, Consistent, RecordInv, Agree, Stages, Records
<1>2. /\ live[s].head \in Nat /\ live[s].head + 1 \in Nat /\ live[s].head + 2 \in Nat
      /\ live[s].head + 2 = live[s].head + 1 + 1 /\ live[s].gen \in Nat /\ k \in Nat \ {0}
      /\ amb \in Nat
    BY Now DEF Records
<1>3. Is(d1, "RecoveryRequired", live[s].gen, k, FALSE, FALSE, live[s].ckpt,
         live[s].op, live[s].amb, live[s].rec, live[s].mig, live[s].head + 1)
    BY <1>1, Now, OnStateLost DEF Agree
<1>4. n <= live[s].gen /\ n \in Nat /\ ~Unfinished(live[s].mig)
    BY <1>1, <1>2, Now, NotSpawned, Serving DEF LoseActor, Consistent, WorkerInv, Gone
<1>5. CASE Stop(s, d1)
    <2> HIDE DEF d1, k, n
    <2>1. RecordInv(d1)
        BY <1>1, <1>2, <1>3 DEF Is, RecordInv, Saved, k
    <2>2. Fresh(d1, n)
        BY <1>1, <1>3, <1>4 DEF Is, Fresh
    <2>3. Carries(s, disk[s], d1)
        <3>1. k = live[s].gen + 1 /\ live[s].head + 1 > live[s].head
            BY <1>2 DEF k
        <3> QED BY <1>1, <1>2, <1>3, <3>1, Fences
    <2> QED BY <1>3, <1>5, <2>1, <2>2, <2>3, StopKeeps DEF Is, n
<1>6. CASE /\ Commit(s, <<e1, e2>>, LiveLost(live[s]))
           /\ Discard(s, NoWorker)
           /\ stage' = [stage EXCEPT ![s] = "idle"]
           /\ UNCHANGED <<up, prep, isolated>>
    <2> DEFINE y == LiveLost(live[s])
               r == [y EXCEPT !.head = live[s].head + 2]
    <2>1. Moves(s, r, d, up[s], prep[s], NoWorker, "idle", n)
        <3>1. Commit(s, <<e1, e2>>, y)
            BY <1>6
        <3> HIDE DEF e1, e2, y
        <3>2. Len(<<e1, e2>>) = 2 /\ ReplayAll(s, disk[s], <<e1, e2>>) = d
            BY ReplayTwo
        <3> HIDE DEF d
        <3>3. disk' = [disk EXCEPT ![s] = d] /\ live' = [live EXCEPT ![s] = r]
            BY <3>1, <3>2 DEF Commit
        <3> QED BY <1>6, <3>3, Same DEF Moves, Discard, Gone
    <2>2. Is(d, "RecoveryRequired", live[s].gen, k, FALSE, FALSE, live[s].ckpt,
             "none", amb, live[s].rec, live[s].mig, live[s].head + 1 + 1)
        <3> HIDE DEF d1, k
        <3>1. /\ d1 \in Records /\ d1.status # "Closed" /\ d1.gen = live[s].gen
              /\ d1.next = k /\ d1.actor = FALSE
              /\ d1.has = FALSE /\ d1.ckpt = live[s].ckpt /\ d1.op # "none"
              /\ d1.amb = live[s].amb /\ d1.rec = live[s].rec /\ d1.mig = live[s].mig
              /\ d1.head = live[s].head + 1
            BY <1>1, <1>3 DEF Is
        <3> QED BY <1>1, <3>1, OnInterruption
    <2>3. y = [live[s] EXCEPT !.actor = FALSE, !.next = k, !.has = FALSE,
                              !.status = "RecoveryRequired", !.op = "none", !.amb = amb]
        BY DEF LiveLost
    <2> HIDE DEF d, d1, y, k, amb, n
    <2>4. Is(y, "RecoveryRequired", live[s].gen, k, FALSE, FALSE, live[s].ckpt, "none", amb,
             live[s].rec, live[s].mig, live[s].head)
        BY ZenonT(40), <1>2, <2>3, Now DEF Is, Records
    <2>5. Is(r, "RecoveryRequired", live[s].gen, k, FALSE, FALSE, live[s].ckpt, "none", amb,
             live[s].rec, live[s].mig, live[s].head + 2)
        BY <1>2, <2>4, Advanced
    <2> HIDE DEF r
    <2>6. RecordInv(d) /\ Fresh(d, n)
        <3>1. RecordInv(d)
            BY <1>1, <1>2, <2>2 DEF Is, RecordInv, Saved, k
        <3>2. Fresh(d, n)
            BY <1>1, <1>2, <1>4, <2>2 DEF Is, Fresh
        <3> QED BY <3>1, <3>2
    <2>7. Agree(r, d) /\ r.has = d.has /\ r.op = "none" /\ r.rec = None
        BY ZenonT(40), <1>1, <1>2, <2>2, <2>5 DEF Is, Agree
    <2>8. Reserved(r, prep[s].kind) /\ prep[s].kind # "recover" /\ ~Alive(NoWorker)
        <3>1. prep[s].kind = "none"
            BY <1>1, Now, Serving DEF Consistent, Reserved
        <3>2. ~Unfinished(r.mig)
            BY <1>1, <2>5, Serving DEF Is
        <3> QED BY <2>7, <3>1, <3>2 DEF Reserved, Alive, NoWorker
    <2>9. Consistent(r, d, up[s], prep[s], NoWorker, "idle", n)
        BY <1>1, <2>6, <2>7, <2>8 DEF Consistent, Stages
    <2>10. NoWorker \in Workers /\ ~Spawned(NoWorker)
        BY DEF Workers, Spawned, NoWorker
    <2>11. Carries(s, disk[s], d)
        <3>1. /\ k = live[s].gen + 1 /\ live[s].head + 1 + 1 > live[s].head
              /\ live[s].head + 1 + 1 \in Nat
            BY <1>2 DEF k
        <3> QED BY <1>1, <2>2, <3>1, Fences
    <2> QED BY <1>4, <2>1, <2>2, <2>5, <2>8, <2>9, <2>10, <2>11, Now, Framed DEF Is
<1> QED BY <1>5, <1>6 DEF LoseActor

-----------------------------------------------------------------------------
(***************************************************************************)
(* What a migration transition makes of a record.                          *)
(***************************************************************************)
MovesTo(m) ==
    CASE m.phase \in {"Prepared", "Installing", "Installed", "Activating", "ActivationFailed"} ->
           "Migrating"
      [] m.phase = "Fenced" -> "Migrated"
      [] m.phase = "Activated" \/ (m.phase = "Aborted" /\ m.actor) -> "Ready"
      [] OTHER -> "RecoveryRequired"

Allocates(m) ==
    IF \/ m.phase \in {"Installing", "Activating", "InstallFailed", "ActivationFailed", "Fenced",
                       "Cancelled"}
       \/ m.phase = "Aborted" /\ ~m.actor
    THEN m.gen + 1 ELSE m.gen

Brings(m) ==
    \/ m.phase \in {"Prepared", "Installed", "Activated"}
    \/ m.phase = "Aborted" /\ m.actor

Placed(d, m) ==
    CASE m.phase \in {"Prepared", "Installed", "Activated"} -> [gen |-> m.gen, c |-> m.plan.c]
      [] m.phase = "Cancelled" -> m.prev
      [] OTHER -> d.ckpt

LEMMA Applied ==
    ASSUME NEW d \in Records, NEW m \in Transitions, m.gen # 0
    PROVE  Is(ApplyMigration(d, m), MovesTo(m), m.gen, Allocates(m), m.actor, Brings(m),
              Placed(d, m), d.op, d.amb, d.rec, m, d.head)
<1> DEFINE x == ApplyMigration(d, m)
           status == MovesTo(m)
           next == Allocates(m)
           has == Brings(m)
           ckpt == Placed(d, m)
<1>1. x = [d EXCEPT !.gen = m.gen, !.actor = m.actor, !.has = has, !.next = next,
                    !.status = status, !.ckpt = ckpt, !.mig = m]
    BY DEF ApplyMigration, MovesTo, Allocates, Brings, Placed
<1>2. m.gen \in Nat /\ m.actor \in BOOLEAN /\ m.prev \in Checkpoints /\ m.plan.c \in States
    BY DEF Transitions, Plans
<1>3. status \in {"Ready", "RecoveryRequired", "Migrating", "Migrated"}
    BY DEF MovesTo
<1>4. next \in Nat \ {0} /\ has \in BOOLEAN
    BY <1>2 DEF Allocates, Brings
<1>5. ckpt \in Checkpoints
    <2>1. [gen |-> m.gen, c |-> m.plan.c] \in Checkpoints
        BY <1>2 DEF Checkpoints
    <2>2. d.ckpt \in Checkpoints
        BY DEF Records
    <2> QED BY <1>2, <2>1, <2>2 DEF Placed
<1> HIDE DEF x, status, next, has, ckpt
<1>6. Is(x, status, m.gen, next, m.actor, has, ckpt, d.op, d.amb, d.rec, m, d.head)
    BY <1>1, <1>2, <1>3, <1>4, <1>5 DEF Is, Records
<1> QED BY <1>6 DEF x, status, next, has, ckpt

LEMMA OnMigration ==
    ASSUME NEW s, NEW d \in Records, d.status # "Closed", NEW m \in Transitions, m.gen # 0,
           MigrationValid(s, d, m)
    PROVE  Is(Replay(s, d, [kind |-> "Migration", m |-> m]), MovesTo(m), m.gen, Allocates(m),
              m.actor, Brings(m), Placed(d, m), d.op, d.amb, d.rec, m, d.head + 1)
<1> DEFINE e == [kind |-> "Migration", m |-> m]
           x == ApplyMigration(d, m)
<1>1. e.kind = "Migration" /\ e.m = m
    OBVIOUS
<1> HIDE DEF e
<1>2. ReplayAccepts(s, d, e)
    BY <1>1 DEF ReplayAccepts
<1>3. ReplayEffect(d, e) = x
    BY <1>1 DEF ReplayEffect
<1>4. d # Unreadable
    BY DEF Records, Unreadable
<1>5. Replay(s, d, e) = [x EXCEPT !.head = @ + 1]
    BY <1>2, <1>3, <1>4 DEF Replay
<1>6. Is(x, MovesTo(m), m.gen, Allocates(m), m.actor, Brings(m), Placed(d, m), d.op, d.amb,
         d.rec, m, d.head)
    BY Applied
<1> HIDE DEF x
<1>7. x.head = d.head /\ d.head + 1 \in Nat
    BY <1>6 DEF Is, Records
<1>8. Replay(s, d, e) = [x EXCEPT !.head = d.head + 1]
    BY <1>5, <1>7
<1> QED BY <1>6, <1>7, <1>8, Advanced DEF e

-----------------------------------------------------------------------------
(***************************************************************************)
(* A restart.  A session that is no migration endpoint has one thing to    *)
(* repair, or an interrupted operation and then its actor.                 *)
(***************************************************************************)

LEMMA Unblocked ==
    ASSUME NEW d, ~BlocksExecution(d.mig.phase), d.mig.phase # "Overtaken"
    PROVE  Classified(d) = FenceLostActor(InterruptPending(RefuseAttempt([es |-> <<>>, r |-> d])))
BY DEF Classified

LEMMA RepairsAttempt ==
    ASSUME NEW d \in Records, RecordInv(d), d.rec # None,
           ~BlocksExecution(d.mig.phase), d.mig.phase # "Overtaken"
    PROVE  /\ Classified(d).es = <<[kind |-> "Refused", gen |-> d.rec.gen]>>
           /\ Is(Classified(d).r, "RecoveryRequired", d.gen, d.next, FALSE, FALSE, d.ckpt, d.op,
                 d.amb, None, d.mig, d.head + 1)
<1> DEFINE y == [LiveRefused(d) EXCEPT !.actor = FALSE, !.has = FALSE]
           z == [y EXCEPT !.head = @ + 1]
           e == [kind |-> "Refused", gen |-> d.rec.gen]
           p == [es |-> <<e>>, r |-> z]
<1>1. RefuseAttempt([es |-> <<>>, r |-> d]) = p
    BY DEF RefuseAttempt, Repaired
<1>2. Is(y, "RecoveryRequired", d.gen, d.next, FALSE, FALSE, d.ckpt, d.op, d.amb, None, d.mig, d.head)
    <2> DEFINE x == LiveRefused(d)
    <2>1. Is(x, "RecoveryRequired", d.gen, d.next, d.actor, d.has, d.ckpt, d.op, d.amb, None, d.mig,
             d.head)
        BY LiveRefuse
    <2> HIDE DEF x
    <2>2. y = [x EXCEPT !.actor = FALSE, !.has = FALSE]
        BY DEF x
    <2> HIDE DEF y
    <2> QED BY <2>1, <2>2 DEF Is, Records
<1> HIDE DEF y
<1>3. Is(z, "RecoveryRequired", d.gen, d.next, FALSE, FALSE, d.ckpt, d.op, d.amb, None, d.mig,
         d.head + 1)
    <2>1. y.head = d.head /\ d.head + 1 \in Nat
        BY <1>2 DEF Is, Records
    <2> QED BY <1>2, <2>1, Advanced
<1> HIDE DEF z
<1>4. p.r = z /\ p.es = <<e>>
    OBVIOUS
<1> HIDE DEF p
<1>5. InterruptPending(p) = p
    BY <1>3, <1>4 DEF InterruptPending, Is, RecordInv
<1>6. FenceLostActor(p) = p
    BY <1>3, <1>4 DEF FenceLostActor, Is
<1> QED BY <1>1, <1>3, <1>4, <1>5, <1>6, Unblocked

\* FenceLostActor's condition.
LosesActor(r) ==
    /\ r.actor /\ r.gen # 0
    /\ r.status = "Ready" \/ (r.status = "RecoveryRequired" /\ r.has)

LEMMA RepairsNothing ==
    ASSUME NEW es, NEW r, ~LosesActor(r)
    PROVE  FenceLostActor([es |-> es, r |-> r]) = [es |-> es, r |-> r]
<1> DEFINE p == [es |-> es, r |-> r]
<1>1. p.r = r
    OBVIOUS
<1> HIDE DEF p
<1>2. FenceLostActor(p) = p
    BY <1>1 DEF FenceLostActor, LosesActor
<1> QED BY <1>2 DEF p

LEMMA RepairsFence ==
    ASSUME NEW es, NEW r \in Records, LosesActor(r)
    PROVE  /\ FenceLostActor([es |-> es, r |-> r]).es = Append(es, FenceEvent(r))
           /\ Is(FenceLostActor([es |-> es, r |-> r]).r,
                 IF r.has THEN "RecoveryRequired" ELSE "Ready", IF r.has THEN r.gen ELSE 0,
                 r.gen + 1, FALSE, FALSE, r.ckpt, r.op, r.amb, r.rec, r.mig, r.head + 1)
<1> DEFINE p == [es |-> es, r |-> r]
           q == FenceLostActor(p)
           status == IF r.has THEN "RecoveryRequired" ELSE "Ready"
           gen == IF r.has THEN r.gen ELSE 0
           y == LiveFenced(r)
           z == [y EXCEPT !.head = @ + 1]
           e == FenceEvent(r)
<1>1. p.es = es /\ p.r = r
    OBVIOUS
<1> HIDE DEF p
<1>2. q = [es |-> Append(es, e), r |-> z]
    BY <1>1 DEF FenceLostActor, LosesActor, Repaired
<1>3. Is(y, status, gen, r.gen + 1, FALSE, FALSE, r.ckpt, r.op, r.amb, r.rec, r.mig, r.head)
    BY LiveFence
<1> HIDE DEF y, status, gen
<1>4. y.head = r.head /\ r.head + 1 \in Nat
    BY <1>3 DEF Is, Records
<1>5. z = [y EXCEPT !.head = r.head + 1]
    BY <1>4
<1>6. Is(z, status, gen, r.gen + 1, FALSE, FALSE, r.ckpt, r.op, r.amb, r.rec, r.mig, r.head + 1)
    BY <1>3, <1>4, <1>5, Advanced
<1> HIDE DEF z, q, e
<1>7. q.es = Append(es, e) /\ q.r = z
    BY <1>2
<1> QED BY <1>6, <1>7 DEF e, q, p, status, gen

LEMMA Pair ==
    ASSUME NEW a, NEW b
    PROVE  /\ Append(<<a>>, b) = <<a, b>> /\ Len(<<a, b>>) = 2 /\ SubSeq(<<a, b>>, 1, 1) = <<a>>
           /\ Append(<<>>, a) = <<a>>
<1> DEFINE S == {a, b}
           x == Append(<<a>>, b)
           y == SubSeq(<<a, b>>, 1, 1)
<1>1. /\ <<a>> \in Seq(S) /\ <<a, b>> \in Seq(S) /\ Len(<<a>>) = 1 /\ Len(<<a, b>>) = 2
      /\ <<a>>[1] = a /\ <<a, b>>[1] = a /\ <<a, b>>[2] = b
    OBVIOUS
<1>2. x \in Seq(S) /\ Len(x) = 2 /\ x[1] = a /\ x[2] = b
    BY <1>1
<1>3. y \in Seq(S) /\ Len(y) = 1 /\ y[1] = a
    BY <1>1
<1>4. Append(<<>>, a) = <<a>>
    OBVIOUS
<1> HIDE DEF x, y
<1>5. x = <<a, b>>
    <2>1. \A i \in 1..Len(x) : x[i] = <<a, b>>[i]
        BY <1>1, <1>2
    <2> QED BY <1>1, <1>2, <2>1, SeqEqual
<1>6. y = <<a>>
    <2>1. \A i \in 1..Len(y) : y[i] = <<a>>[i]
        BY <1>1, <1>3
    <2> QED BY <1>1, <1>3, <2>1, SeqEqual
<1> QED BY <1>1, <1>4, <1>5, <1>6 DEF x, y

\* The record once its pending operation is interrupted, which is ambiguous if a.
Pending(d, a) ==
    [[d EXCEPT !.op = "none", !.amb = @ + (IF a THEN 1 ELSE 0),
               !.status = IF a THEN "RecoveryRequired" ELSE "Ready"] EXCEPT !.head = @ + 1]

LEMMA RepairsPending ==
    ASSUME NEW d \in Records, RecordInv(d), d.rec = None,
           ~BlocksExecution(d.mig.phase), d.mig.phase # "Overtaken"
    PROVE  LET a == d.op = "running"
               p == [es |-> <<InterruptedEvent(a)>>, r |-> Pending(d, a)]
           IN /\ d.op = "none" => Classified(d) = FenceLostActor([es |-> <<>>, r |-> d])
              /\ d.op # "none" => Classified(d) = FenceLostActor(p)
<1> DEFINE a == d.op = "running"
           p == [es |-> <<InterruptedEvent(a)>>, r |-> Pending(d, a)]
           p0 == [es |-> <<>>, r |-> d]
<1>1. p0.r = d /\ p0.es = <<>>
    OBVIOUS
<1>2. RefuseAttempt(p0) = p0
    BY <1>1 DEF RefuseAttempt
<1>3. d.op = "none" => InterruptPending(p0) = p0
    BY <1>1 DEF InterruptPending
<1>4. d.op # "none" => InterruptPending(p0) = p
    <2>1. d.op # "none" => d.status # "Closed"
        BY DEF RecordInv
    <2>2. Append(p0.es, InterruptedEvent(a)) = <<InterruptedEvent(a)>>
        BY <1>1
    <2> HIDE DEF p0
    <2> QED BY <1>1, <2>1, <2>2 DEF InterruptPending, Repaired, Pending
<1> QED BY <1>2, <1>3, <1>4, Unblocked

LEMMA PendingIs ==
    ASSUME NEW d \in Records, NEW a \in BOOLEAN
    PROVE  Is(Pending(d, a), IF a THEN "RecoveryRequired" ELSE "Ready", d.gen, d.next, d.actor,
              d.has, d.ckpt, "none", d.amb + (IF a THEN 1 ELSE 0), d.rec, d.mig, d.head + 1)
<1> DEFINE status == IF a THEN "RecoveryRequired" ELSE "Ready"
           amb == d.amb + (IF a THEN 1 ELSE 0)
           y == [d EXCEPT !.op = "none", !.amb = amb, !.status = status]
           z == [y EXCEPT !.head = @ + 1]
<1>1. amb \in Nat /\ status \in {"Ready", "Executing", "RecoveryRequired", "Migrating", "Migrated", "Closed"}
    BY DEF Records
<1>2. Pending(d, a) = z
    BY DEF Pending
<1> HIDE DEF amb, status
<1>3. Is(y, status, d.gen, d.next, d.actor, d.has, d.ckpt, "none", amb, d.rec, d.mig, d.head)
    BY <1>1 DEF Is, Records
<1> HIDE DEF y
<1>4. Is(z, status, d.gen, d.next, d.actor, d.has, d.ckpt, "none", amb, d.rec, d.mig, d.head + 1)
    <2>1. y.head = d.head /\ d.head + 1 \in Nat
        BY <1>3 DEF Is, Records
    <2> QED BY <1>3, <2>1, Advanced
<1> QED BY <1>2, <1>4 DEF status, amb

LEMMA UpKeeps ==
    ASSUME HostedInv, NEW s \in Sessions, ~up[s], NEW r \in Records, NEW d \in Records,
           live' = [live EXCEPT ![s] = r], disk' = [disk EXCEPT ![s] = d],
           up' = [up EXCEPT ![s] = TRUE], UNCHANGED <<prep, worker, retired, stage>>,
           RecordInv(d), Fresh(d, retired[s]),
           Agree(r, d), r.status # "Migrating" => r.has = d.has, r.op = "none", r.rec = None,
           ~Unfinished(r.mig), Carries(s, disk[s], d)
    PROVE  HostedInv' /\ Kept(s)
<1>1. prep[s] = None /\ worker[s] = NoWorker /\ stage[s] = "idle"
    BY Now DEF Consistent
<1>2. Moves(s, r, d, TRUE, prep[s], worker[s], stage[s], retired[s])
    BY Same DEF Moves
<1>3. None.kind = "none" /\ ~Alive(NoWorker) /\ ~Spawned(NoWorker)
    BY DEF None, Alive, Spawned, NoWorker
<1>4. Consistent(r, d, TRUE, prep[s], worker[s], stage[s], retired[s])
    BY <1>1, <1>3 DEF Consistent, Reserved, Stages
<1> QED BY <1>1, <1>2, <1>3, <1>4, Now, Framed

LEMMA SetAsideKeeps ==
    ASSUME HostedInv, NEW s \in Sessions, ~up[s], NEW d \in Records, SetAside(s, d),
           RecordInv(d), Fresh(d, retired[s]), Carries(s, disk[s], d)
    PROVE  HostedInv' /\ Kept(s)
<1>1. prep[s] = None /\ worker[s] = NoWorker /\ stage[s] = "idle"
    BY Now DEF Consistent
<1>2. Moves(s, d, d, FALSE, prep[s], worker[s], stage[s], retired[s])
    BY Same DEF Moves, SetAside
<1>3. ~Alive(NoWorker) /\ ~Spawned(NoWorker)
    BY DEF Alive, Spawned, NoWorker
<1>4. Consistent(d, d, FALSE, prep[s], worker[s], stage[s], retired[s])
    BY <1>1 DEF Consistent
<1> QED BY <1>1, <1>2, <1>3, <1>4, Now, Framed

\* What a restart that appended es and made record r has done, when it gets through.
Restarted(s, es, r) ==
    /\ live' = [live EXCEPT ![s] = r] /\ disk' = [disk EXCEPT ![s] = ReplayAll(s, disk[s], es)]
    /\ up' = [up EXCEPT ![s] = TRUE] /\ UNCHANGED <<prep, worker, retired, stage>>

\* A migration endpoint has no actor after a restart, and refuses the restore
\* it was waiting for.
LEMMA RestartMigrating ==
    ASSUME HostedInv, NEW s \in Sessions, ~up[s], BlocksExecution(disk[s].mig.phase),
           Restarted(s, Classified(disk[s]).es, Classified(disk[s]).r)
    PROVE  HostedInv' /\ Kept(s)
<1> DEFINE d == disk[s]
           m == RepairedMigration(d.mig)
           es == Classified(disk[s]).es
           r == Classified(disk[s]).r
<1>1. /\ d \in Records /\ RecordInv(d) /\ Fresh(d, retired[s]) /\ ~up[s] /\ retired[s] \in Nat
      /\ Travels(d) /\ Numbers(d) /\ Homed(s, d) /\ Carries(s, d, d)
    BY Now, Also DEF Consistent, HostedInv, SessionInv
<1>2. /\ d.gen \in Nat /\ d.head \in Nat /\ d.head + 1 \in Nat /\ d.gen # 0
      /\ d.op = "none" /\ d.rec = None /\ d.mig \in Transitions /\ d.mig.gen = d.gen
      /\ d.mig # NoMig
    BY <1>1 DEF Records, Travels, RecordInv, NoMig, BlocksExecution
<1>3. Restarted(s, es, r)
    OBVIOUS
<1>4. CASE ~Unfinished(d.mig)
    <2> DEFINE p == [es |-> <<>>, r |-> d]
               q == [p EXCEPT !.r.actor = FALSE, !.r.has = FALSE]
               x == [d EXCEPT !.actor = FALSE, !.has = FALSE]
    <2>1. Classified(d) = q
        BY <1>4 DEF Classified, BlocksExecution
    <2>2. q.es = <<>> /\ q.r = x
        OBVIOUS
    <2>3. es = <<>> /\ r = x
        BY <2>1, <2>2
    <2>4. Restarted(s, es, r) /\ ReplayAll(s, d, es) = d
        BY <1>3, <2>3, ReplayNone
    <2> HIDE DEF es
    <2>5. Is(r, d.status, d.gen, d.next, FALSE, FALSE, d.ckpt, d.op, d.amb, d.rec, d.mig, d.head)
        <3> HIDE DEF r
        <3> QED BY <1>1, <2>3 DEF Is, Records
    <2> HIDE DEF r
    <2>6. d.status # "Migrating" => d.actor = FALSE /\ d.has = FALSE
        BY <1>1 DEF Travels, Moving, RecordInv, Records
    <2>7. Agree(r, d) /\ (r.status # "Migrating" => r.has = d.has)
        BY <1>1, <2>5, <2>6 DEF Is, Agree
    <2>8. r \in Records /\ r.op = "none" /\ r.rec = None /\ ~Unfinished(r.mig)
        BY <1>2, <1>4, <2>5 DEF Is
    <2> QED BY <1>1, <2>4, <2>7, <2>8, UpKeeps DEF Restarted
<1>5. CASE Unfinished(d.mig)
    <2> DEFINE phase == IF d.mig.phase = "Installing" THEN "InstallFailed" ELSE "ActivationFailed"
               e == [kind |-> "Migration", m |-> m]
               y == ApplyMigration(d, m)
               z == [y EXCEPT !.head = @ + 1]
               p == [es |-> <<>>, r |-> d]
               q == [es |-> <<e>>, r |-> z]
               w == [q EXCEPT !.r.actor = FALSE, !.r.has = FALSE]
               x == Replay(s, d, e)
    <2>1. m = [d.mig EXCEPT !.phase = phase, !.actor = FALSE]
        BY DEF RepairedMigration
    <2>2. /\ m \in Transitions /\ m.phase = phase /\ m.actor = FALSE /\ m.plan = d.mig.plan
          /\ m.gen = d.gen /\ m.prev = d.mig.prev
        <3> HIDE DEF m
        <3> QED BY <1>2, <2>1 DEF Transitions, Phases
    <2>3. p.es = <<>> /\ p.r = d /\ Append(<<>>, e) = <<e>>
        BY Pair
    <2>4. Classified(d) = w
        <3>1. Repaired(p, e, y) = q
            <4> HIDE DEF e, y, p
            <4> QED BY <2>3 DEF Repaired
        <3>2. d.mig.phase # "Overtaken"
            BY <1>5 DEF Unfinished
        <3> QED BY <1>5, <3>1, <3>2 DEF Classified
    <2> HIDE DEF m
    <2>5. es = <<e>> /\ r = [z EXCEPT !.actor = FALSE, !.has = FALSE]
        <3>1. w.es = <<e>> /\ w.r = [z EXCEPT !.actor = FALSE, !.has = FALSE]
            <4> HIDE DEF e, z
            <4> QED OBVIOUS
        <3> QED BY <2>4, <3>1
    <2>6. Restarted(s, es, r) /\ ReplayAll(s, d, es) = x
        <3>1. ReplayAll(s, d, es) = x
            BY <2>5, ReplayOne
        <3> QED BY <1>3, <3>1
    <2>7. d.mig.phase \in {"Installing", "Activating"} /\ d.status = "Migrating" /\ ~d.actor
        BY <1>1, <1>5 DEF Unfinished, Travels, BlocksExecution, Moving
    <2>8. MigrationValid(s, d, m)
        <3>1. s = m.plan.dst
            BY <1>1, <1>2, <2>2, <2>7 DEF Homed, Home, AtSource
        <3>2. m.prev # NoCkpt /\ m.prev.gen = m.plan.dgen
            BY <1>1, <2>2, <2>7 DEF Travels, BlocksExecution, AtSource
        <3> QED BY <1>2, <2>2, <2>7, <3>1, <3>2 DEF MigrationValid, AtSource
    <2> DEFINE status == IF d.mig.phase = "Installing" THEN "RecoveryRequired" ELSE "Migrating"
    <2>9. /\ MovesTo(m) = status /\ Allocates(m) = d.gen + 1 /\ Brings(m) = FALSE
          /\ Placed(d, m) = d.ckpt
        BY <2>2, <2>7 DEF MovesTo, Allocates, Brings, Placed
    <2>10. Is(x, status, d.gen, d.gen + 1, FALSE, FALSE, d.ckpt, d.op, d.amb, d.rec, m, d.head + 1)
        BY <1>1, <1>2, <2>2, <2>7, <2>8, <2>9, OnMigration
    <2>11. Is(y, status, d.gen, d.gen + 1, FALSE, FALSE, d.ckpt, d.op, d.amb, d.rec, m, d.head)
        BY <1>1, <1>2, <2>2, <2>9, Applied
    <2> HIDE DEF y, status
    <2>12. Is(z, status, d.gen, d.gen + 1, FALSE, FALSE, d.ckpt, d.op, d.amb, d.rec, m, d.head + 1)
        <3>1. y.head = d.head
            BY <2>11 DEF Is
        <3> QED BY <1>2, <2>11, <3>1, Advanced
    <2> HIDE DEF z, x, r, es
    <2>13. Is(r, status, d.gen, d.gen + 1, FALSE, FALSE, d.ckpt, d.op, d.amb, d.rec, m, d.head + 1)
        BY <2>5, <2>12 DEF Is, Records
    <2>14. RecordInv(x) /\ Fresh(x, retired[s]) /\ ~Unfinished(m)
        <3>1. ~Unfinished(m)
            BY <2>2 DEF Unfinished
        <3>2. RecordInv(x)
            BY <1>1, <1>2, <2>7, <2>10 DEF Is, RecordInv, status
        <3>3. Fresh(x, retired[s])
            BY <1>1, <1>2, <2>10, <3>1 DEF Is, Fresh
        <3> QED BY <3>1, <3>2, <3>3
    <2>15. Agree(r, x) /\ r.has = x.has /\ r.op = "none" /\ r.rec = None /\ ~Unfinished(r.mig)
        BY <1>2, <2>10, <2>13, <2>14 DEF Is, Agree
    <2>16. Carries(s, d, x)
        <3>1. Numbers(x)
            BY <1>1, <1>2, <2>10 DEF Is, Numbers
        <3>2. \A g \in Nat : Below(g, d) => Below(g, x)
            BY <1>2, <2>10 DEF Is, Below
        <3>3. Repairs(d, x)
            BY <1>5, <2>10 DEF Is, Repairs, status, m
        <3>4. d.head <= x.head
            BY <1>2, <2>10 DEF Is
        <3> QED BY <3>1, <3>2, <3>3, <3>4 DEF Carries
    <2>17. r \in Records /\ x \in Records
        BY <2>10, <2>13 DEF Is
    <2> QED BY <1>1, <2>6, <2>14, <2>15, <2>16, <2>17, UpKeeps DEF Restarted
<1> QED BY <1>4, <1>5

\* The first of two repairs ends the operation the journal left open.
LEMMA Interrupts ==
    ASSUME HostedInv, NEW s \in Sessions, ~up[s], ~BlocksExecution(disk[s].mig.phase),
           disk[s].rec = None, disk[s].op # "none",
           NEW a \in BOOLEAN, a <=> disk[s].op = "running"
    PROVE  LET d == disk[s]
               x == Replay(s, d, InterruptedEvent(a))
           IN /\ Is(x, IF a THEN "RecoveryRequired" ELSE "Ready", d.gen, d.next, d.actor, d.has,
                    d.ckpt, "none", d.amb + (IF a THEN 1 ELSE 0), d.rec, d.mig, d.head + 1)
              /\ RecordInv(x) /\ Fresh(x, retired[s]) /\ Carries(s, d, x) /\ ~Moving(x)
<1> DEFINE d == disk[s]
           x == Replay(s, d, InterruptedEvent(a))
           status == IF a THEN "RecoveryRequired" ELSE "Ready"
           amb == d.amb + (IF a THEN 1 ELSE 0)
<1>1. /\ d \in Records /\ RecordInv(d) /\ Fresh(d, retired[s]) /\ retired[s] \in Nat
      /\ Travels(d) /\ Numbers(d) /\ d.status # "Closed"
    BY Now, Also DEF Consistent, RecordInv
<1>2. Is(x, status, d.gen, d.next, d.actor, d.has, d.ckpt, "none", amb, d.rec, d.mig, d.head + 1)
    BY <1>1, OnInterrupted DEF InterruptedEvent
<1>3. /\ d.gen \in Nat /\ d.head \in Nat /\ d.next \in Nat /\ d.amb \in Nat /\ amb \in Nat
      /\ (~a => d.op = "accepted") /\ d.has \in BOOLEAN /\ d.actor \in BOOLEAN
    BY <1>1 DEF Records
<1> HIDE DEF x, amb
<1>4. RecordInv(x)
    <2>1. ~a => d.status = "Executing" /\ d.amb = amb /\ ~(d.amb > 0 /\ d.ckpt = NoCkpt)
        BY <1>1, <1>3 DEF RecordInv, amb
    <2> QED BY <1>1, <1>2, <1>3, <2>1 DEF Is, RecordInv, Saved
<1>5. Fresh(x, retired[s])
    BY <1>1, <1>2, <1>3 DEF Is, Fresh
<1>6. Carries(s, d, x) /\ ~Moving(x)
    <2>1. x \in Records /\ ~Moving(x) /\ x.next <= x.head /\ d.head <= x.head /\ ~Moving(d)
        BY <1>1, <1>2, <1>3 DEF Is, Moving, Numbers, Travels
    <2> QED BY <1>1, <1>2, <1>3, <2>1, CarriesOn DEF Is
<1> QED BY <1>2, <1>4, <1>5, <1>6 DEF x, amb

LEMMA RestartedKeeps ==
    ASSUME HostedInv, NEW s \in Sessions, ~up[s], disk[s].mig.phase # "Overtaken",
           Restarted(s, Classified(disk[s]).es, Classified(disk[s]).r)
    PROVE  HostedInv' /\ Kept(s)
<1> DEFINE d == disk[s]
           es == Classified(disk[s]).es
           r == Classified(disk[s]).r
<1>1. /\ d \in Records /\ RecordInv(d) /\ Fresh(d, retired[s]) /\ ~up[s]
      /\ retired[s] \in Nat
    BY Now DEF Consistent
<1>2. /\ d.gen \in Nat /\ d.head \in Nat /\ d.head + 1 \in Nat /\ d.amb \in Nat
      /\ d.has \in BOOLEAN /\ d.actor \in BOOLEAN
    BY <1>1 DEF Records
<1>3. Restarted(s, es, r)
    OBVIOUS
<1>4. ASSUME NEW e, es = <<e>> PROVE Restarted(s, es, r) /\ ReplayAll(s, d, es) = Replay(s, d, e)
    <2>1. ReplayAll(s, d, es) = Replay(s, d, e)
        BY <1>4, ReplayOne
    <2> QED BY <1>3, <2>1
<1>5. Travels(d) /\ Numbers(d) /\ Homed(s, d) /\ Carries(s, d, d)
    BY Also DEF HostedInv, SessionInv
<1>6. ASSUME ~BlocksExecution(d.mig.phase)
      PROVE  ~Moving(d) /\ ~Unfinished(d.mig)
    BY <1>5, <1>6 DEF Travels, BlocksExecution, Unfinished
<1>7. CASE BlocksExecution(d.mig.phase)
    BY <1>7, RestartMigrating
<1>8. CASE d.rec # None /\ ~BlocksExecution(d.mig.phase)
    <2> DEFINE e == [kind |-> "Refused", gen |-> d.rec.gen]
               x == Replay(s, d, e)
    <2>1. es = <<e>> /\ Is(r, "RecoveryRequired", d.gen, d.next, FALSE, FALSE, d.ckpt, d.op,
                           d.amb, None, d.mig, d.head + 1)
        BY <1>1, <1>8, RepairsAttempt
    <2>2. Restarted(s, es, r) /\ ReplayAll(s, d, es) = x
        BY <1>4, <2>1
    <2>3. /\ d.rec.gen \in Nat \ {0} /\ d.rec.gen = d.gen /\ d.rec.at = d.head /\ ~d.actor /\ ~d.has
          /\ d.status # "Closed" /\ d.op = "none"
        BY <1>1, <1>8 DEF RecordInv, Records, Attempts
    <2>4. Is(x, "RecoveryRequired", d.gen, d.next, d.actor, d.has, d.ckpt, d.op, d.amb, None, d.mig,
             d.head + 1)
        BY <1>1, <1>8, <2>3, OnRefused
    <2> HIDE DEF x, r, es, e
    <2>5. RecordInv(x)
        BY <1>1, <2>3, <2>4 DEF Is, RecordInv
    <2>6. Fresh(x, retired[s])
        BY <1>1, <2>3, <2>4 DEF Is, Fresh
    <2>7. Agree(r, x) /\ r.has = x.has /\ r.op = "none" /\ r.rec = None
        BY <1>2, <2>1, <2>3, <2>4 DEF Is, Agree
    <2>8. Carries(s, d, x) /\ ~Unfinished(r.mig)
        <3>1. x \in Records /\ ~Moving(x) /\ x.next <= x.head /\ d.head <= x.head
            BY <1>1, <1>5, <2>4 DEF Is, Moving, Numbers, Records
        <3> QED BY <1>1, <1>8, <1>5, <1>6, <2>1, <2>3, <2>4, <3>1, CarriesOn DEF Is, Records
    <2> QED BY <1>1, <2>1, <2>2, <2>4, <2>5, <2>6, <2>7, <2>8, UpKeeps DEF Restarted, Is
<1>9. CASE ~BlocksExecution(d.mig.phase) /\ d.rec = None /\ d.op = "none" /\ ~LosesActor(d)
    <2>1. es = <<>> /\ r = d
        <3>1. Classified(d) = FenceLostActor([es |-> <<>>, r |-> d])
            BY <1>1, <1>9, RepairsPending
        <3>2. FenceLostActor([es |-> <<>>, r |-> d]) = [es |-> <<>>, r |-> d]
            BY <1>9, RepairsNothing
        <3> QED BY <3>1, <3>2
    <2>2. Restarted(s, es, r) /\ ReplayAll(s, d, es) = d
        BY <1>3, <2>1, ReplayNone
    <2> HIDE DEF r, es
    <2> QED BY <1>1, <1>9, <1>5, <1>6, <2>1, <2>2, UpKeeps DEF Restarted, Agree
<1>10. CASE ~BlocksExecution(d.mig.phase) /\ d.rec = None /\ d.op = "none" /\ LosesActor(d)
    <2> DEFINE e == FenceEvent(d)
               x == Replay(s, d, e)
               status == IF d.has THEN "RecoveryRequired" ELSE "Ready"
               gen == IF d.has THEN d.gen ELSE 0
    <2>1. es = <<e>> /\ Is(r, status, gen, d.gen + 1, FALSE, FALSE, d.ckpt, d.op, d.amb, d.rec, d.mig,
                           d.head + 1)
        <3>1. Classified(d) = FenceLostActor([es |-> <<>>, r |-> d])
            BY <1>1, <1>10, RepairsPending
        <3>2. Append(<<>>, e) = <<e>>
            BY Pair
        <3> QED BY <1>1, <1>10, <3>1, <3>2, RepairsFence
    <2>2. Restarted(s, es, r) /\ ReplayAll(s, d, es) = x
        BY <1>4, <2>1
    <2>3. d.gen # 0 /\ d.status # "Closed"
        BY <1>10 DEF LosesActor
    <2>4. Is(x, status, gen, d.gen + 1, FALSE, FALSE, d.ckpt, d.op, d.amb, d.rec, d.mig, d.head + 1)
        BY <1>1, <2>3, OnFence
    <2> HIDE DEF x, r, es, e
    <2>5. RecordInv(x)
        BY <1>1, <1>2, <1>10, <2>3, <2>4 DEF Is, RecordInv, Saved, LosesActor
    <2>6. Fresh(x, retired[s])
        BY <1>1, <1>2, <1>10, <2>3, <2>4 DEF Is, Fresh
    <2>7. Agree(r, x) /\ r.has = x.has /\ r.op = "none" /\ r.rec = None
        BY <1>10, <2>1, <2>4 DEF Is, Agree
    <2>8. Carries(s, d, x) /\ ~Unfinished(r.mig)
        <3>1. x \in Records /\ ~Moving(x) /\ d.head < x.head
            BY <1>2, <2>4 DEF Is, Moving
        <3> QED BY <1>1, <1>10, <1>5, <1>6, <2>1, <2>3, <2>4, <3>1, CarriesFence DEF Is
    <2> QED BY <1>1, <2>1, <2>2, <2>4, <2>5, <2>6, <2>7, <2>8, UpKeeps DEF Restarted, Is
<1>11. CASE ~BlocksExecution(d.mig.phase) /\ d.rec = None /\ d.op # "none"
    <2> DEFINE a == d.op = "running"
               q == Pending(d, a)
               e1 == InterruptedEvent(a)
               d1 == Replay(s, d, e1)
               status == IF a THEN "RecoveryRequired" ELSE "Ready"
               amb == d.amb + (IF a THEN 1 ELSE 0)
    <2>1. Is(q, status, d.gen, d.next, d.actor, d.has, d.ckpt, "none", amb, d.rec, d.mig, d.head + 1)
        <3>1. a \in BOOLEAN
            OBVIOUS
        <3> HIDE DEF a
        <3> QED BY <1>1, <3>1, PendingIs
    <2>2. /\ Is(d1, status, d.gen, d.next, d.actor, d.has, d.ckpt, "none", amb, d.rec, d.mig, d.head + 1)
          /\ RecordInv(d1) /\ Fresh(d1, retired[s]) /\ Carries(s, d, d1)
        <3>1. a \in BOOLEAN /\ (a <=> d.op = "running")
            OBVIOUS
        <3> HIDE DEF a
        <3> QED BY <1>11, <3>1, Interrupts
    <2>3. Classified(d) = FenceLostActor([es |-> <<e1>>, r |-> q])
        BY <1>1, <1>11, RepairsPending
    <2> HIDE DEF q, e1, d1
    <2>4. amb \in Nat /\ (~a => d.op = "accepted")
        BY <1>1, <1>2, <1>11 DEF Records
    <2> HIDE DEF amb, a
    <2>7. ~Unfinished(d.mig)
        BY <1>6, <1>11
    <2>8. CASE ~LosesActor(q)
        <3>1. es = <<e1>> /\ r = q
            <4>1. FenceLostActor([es |-> <<e1>>, r |-> q]) = [es |-> <<e1>>, r |-> q]
                BY <2>8, RepairsNothing
            <4> QED BY <2>3, <4>1
        <3>2. Restarted(s, es, r) /\ ReplayAll(s, d, es) = d1
            BY <1>4, <3>1 DEF d1
        <3> HIDE DEF es, r
        <3>3. Agree(r, d1) /\ r.has = d1.has /\ r.op = "none" /\ r.rec = None
            BY <1>11, <2>1, <2>2, <3>1 DEF Is, Agree
        <3>4. r \in Records /\ d1 \in Records
            BY <2>1, <2>2, <3>1 DEF Is
        <3>5. ~Unfinished(r.mig)
            BY <2>1, <2>7, <3>1 DEF Is
        <3> QED BY <1>1, <2>2, <3>2, <3>3, <3>4, <3>5, UpKeeps DEF Restarted
    <2>9. CASE LosesActor(q)
        <3> DEFINE e2 == FenceEvent(q)
                   x == Replay(s, d1, e2)
                   back == IF d.has THEN "RecoveryRequired" ELSE "Ready"
                   gen == IF d.has THEN d.gen ELSE 0
        <3>1. es = <<e1, e2>> /\ Is(r, back, gen, d.gen + 1, FALSE, FALSE, d.ckpt, "none", amb,
                                    d.rec, d.mig, d.head + 1 + 1)
            <4>1. Append(<<e1>>, e2) = <<e1, e2>>
                BY Pair
            <4>2. /\ q \in Records /\ q.has = d.has /\ q.gen = d.gen /\ q.ckpt = d.ckpt
                  /\ q.op = "none" /\ q.amb = amb /\ q.rec = d.rec /\ q.mig = d.mig
                  /\ q.head = d.head + 1
                BY <2>1 DEF Is
            <4> QED BY ZenonT(40), <2>3, <2>9, <4>1, <4>2, RepairsFence
        <3>2. d1.gen # 0 /\ d1.status # "Closed" /\ q.gen = d1.gen /\ q.has = d1.has
            BY <2>1, <2>2, <2>9 DEF Is, LosesActor
        <3>3. Is(x, back, gen, d.gen + 1, FALSE, FALSE, d.ckpt, "none", amb, d.rec, d.mig,
                 d.head + 1 + 1)
            <4>1. /\ d1 \in Records /\ d1.has = d.has /\ d1.gen = d.gen /\ d1.ckpt = d.ckpt
                  /\ d1.op = "none" /\ d1.amb = amb /\ d1.rec = d.rec /\ d1.mig = d.mig
                  /\ d1.head = d.head + 1
                BY <2>2 DEF Is
            <4> QED BY <3>2, <4>1, OnFence
        <3>4. ReplayAll(s, d, es) = x
            BY <3>1, ReplayTwo DEF d1
        <3> HIDE DEF x, r, es, e2
        <3>5. RecordInv(x)
            <4>1. d.gen # 0 /\ (~d.has => d.ckpt = NoCkpt)
                BY <1>1, <1>2, <1>11, <2>1, <2>4, <2>9
                   DEF RecordInv, Saved, LosesActor, Is
            <4>2. d.ckpt # NoCkpt => d.ckpt.gen <= d.gen
                BY <1>1 DEF RecordInv
            <4>3. ~d.has => ~(amb > 0 /\ d.ckpt = NoCkpt)
                BY <2>1, <2>2, <2>9 DEF Is, LosesActor, RecordInv
            <4> QED BY <1>2, <1>11, <3>3, <4>1, <4>2, <4>3 DEF Is, RecordInv, Saved
        <3>6. Fresh(x, retired[s])
            BY <1>1, <1>2, <1>11, <2>2, <3>2, <3>3 DEF Is, Fresh
        <3>7. Agree(r, x) /\ r.has = x.has /\ r.op = "none" /\ r.rec = None
            BY <1>11, <3>1, <3>3 DEF Is, Agree
        <3>8. r \in Records /\ x \in Records
            BY <3>1, <3>3 DEF Is
        <3>9. Carries(s, d, x) /\ ~Unfinished(r.mig)
            <4>1. ~Moving(x) /\ d.head < x.head /\ d.gen # 0 /\ d.status # "Closed"
                BY <1>1, <1>2, <1>11, <2>2, <3>2, <3>3 DEF Is, Moving, RecordInv
            <4> QED BY <1>1, <1>11, <1>5, <1>6, <2>7, <3>1, <3>3, <3>8, <4>1, CarriesFence
                       DEF Is
        <3> QED BY <1>1, <1>3, <3>4, <3>5, <3>6, <3>7, <3>8, <3>9, UpKeeps DEF Restarted
    <2> QED BY <2>8, <2>9
<1> QED BY <1>8, <1>9, <1>10, <1>11, <1>7

\* What a session has to repair when it starts: nothing, or one or two records,
\* of which the first ends an operation.
LEMMA Shapes ==
    ASSUME NEW d \in Records, RecordInv(d), Travels(d)
    PROVE  LET es == Classified(d).es
           IN \/ es = <<>>
              \/ (Moving(d) => Unfinished(d.mig)) /\ \E e : es = <<e>>
              \/ /\ ~BlocksExecution(d.mig.phase) /\ d.rec = None /\ d.op # "none"
                 /\ \E e : es = <<InterruptedEvent(d.op = "running"), e>>
<1> DEFINE es == Classified(d).es
           p == [es |-> <<>>, r |-> d]
<1>1. p.es = <<>> /\ p.r = d
    OBVIOUS
<1>2. CASE d.mig.phase = "Overtaken"
    BY <1>2 DEF Classified
<1>3. CASE BlocksExecution(d.mig.phase) /\ ~Unfinished(d.mig)
    <2> DEFINE q == [p EXCEPT !.r.actor = FALSE, !.r.has = FALSE]
    <2>1. Classified(d) = q
        BY <1>3 DEF Classified, BlocksExecution
    <2>2. q.es = <<>>
        OBVIOUS
    <2> QED BY <2>1, <2>2
<1>4. CASE Unfinished(d.mig)
    <2> DEFINE m == RepairedMigration(d.mig)
               e == [kind |-> "Migration", m |-> m]
               y == ApplyMigration(d, m)
               q == Repaired(p, e, y)
               w == [q EXCEPT !.r.actor = FALSE, !.r.has = FALSE]
    <2>1. Classified(d) = w
        BY <1>4 DEF Classified, Unfinished, BlocksExecution
    <2> HIDE DEF e, y, p
    <2>2. q = [es |-> <<e>>, r |-> [y EXCEPT !.head = @ + 1]]
        BY <1>1, Pair DEF Repaired
    <2>3. w.es = <<e>>
        BY <2>2
    <2> HIDE DEF w
    <2> QED BY <1>4, <2>1, <2>3
<1>5. CASE ~BlocksExecution(d.mig.phase) /\ d.mig.phase # "Overtaken" /\ d.rec # None
    <2>1. es = <<[kind |-> "Refused", gen |-> d.rec.gen]>>
        BY <1>5, RepairsAttempt
    <2> QED BY <1>5, <2>1 DEF Travels
<1>6. CASE /\ ~BlocksExecution(d.mig.phase) /\ d.mig.phase # "Overtaken"
           /\ d.rec = None /\ d.op = "none"
    <2>1. Classified(d) = FenceLostActor(p)
        BY <1>6, RepairsPending
    <2>2. ~Moving(d)
        BY <1>6 DEF Travels
    <2>3. CASE LosesActor(d)
        <3>1. es = <<FenceEvent(d)>>
            BY <2>1, <2>3, RepairsFence, Pair
        <3> QED BY <2>2, <3>1
    <2>4. CASE ~LosesActor(d)
        BY <2>1, <2>4, RepairsNothing
    <2> QED BY <2>3, <2>4
<1>7. CASE /\ ~BlocksExecution(d.mig.phase) /\ d.mig.phase # "Overtaken"
           /\ d.rec = None /\ d.op # "none"
    <2> DEFINE a == d.op = "running"
               e1 == InterruptedEvent(a)
               q == Pending(d, a)
    <2>1. Classified(d) = FenceLostActor([es |-> <<e1>>, r |-> q])
        BY <1>7, RepairsPending
    <2>2. q \in Records
        <3>1. a \in BOOLEAN
            OBVIOUS
        <3> HIDE DEF a
        <3> QED BY <3>1, PendingIs DEF Is
    <2>3. ~Moving(d)
        BY <1>7 DEF Travels
    <2> HIDE DEF q, e1
    <2>4. CASE LosesActor(q)
        <3>1. es = <<e1, FenceEvent(q)>>
            BY <2>1, <2>2, <2>4, RepairsFence, Pair
        <3> QED BY <1>7, <3>1 DEF e1
    <2>5. CASE ~LosesActor(q)
        <3>1. es = <<e1>>
            BY <2>1, <2>5, RepairsNothing
        <3> QED BY <2>3, <3>1
    <2> QED BY <2>4, <2>5
<1> QED BY <1>2, <1>3, <1>4, <1>5, <1>6, <1>7

\* What the journal holds when the node goes no further than n of its repairs.
LEMMA Broken ==
    ASSUME HostedInv, NEW s \in Sessions, ~up[s],
           NEW n \in 0..(Len(Classified(disk[s]).es) - 1)
    PROVE  LET x == ReplayAll(s, disk[s], SubSeq(Classified(disk[s]).es, 1, n))
           IN /\ x \in Records /\ RecordInv(x) /\ Fresh(x, retired[s]) /\ Carries(s, disk[s], x)
              /\ Moving(x) => Unfinished(x.mig)
<1> DEFINE d == disk[s]
           es == Classified(d).es
           x == ReplayAll(s, d, SubSeq(es, 1, n))
<1>1. /\ d \in Records /\ RecordInv(d) /\ Fresh(d, retired[s]) /\ Travels(d)
      /\ Carries(s, d, d)
    BY Now, Also DEF Consistent
<1>2. CASE es = <<>>
    <2>1. Len(es) = 0
        BY <1>2
    <2> QED BY <2>1
<1>3. CASE (Moving(d) => Unfinished(d.mig)) /\ \E e : es = <<e>>
    <2>1. Len(es) = 1
        BY <1>3
    <2> HIDE DEF es
    <2>2. n = 0 /\ SubSeq(es, 1, 0) = <<>>
        <3>1. n = 0
            BY <2>1 DEF es
        <3>2. PICK e : es = <<e>>
            BY <1>3
        <3>3. SubSeq(<<e>>, 1, 0) = <<>>
            OBVIOUS
        <3> QED BY <3>1, <3>2, <3>3
    <2>3. x = d
        BY <2>2, ReplayNone
    <2> QED BY <1>1, <1>3, <2>3 DEF es
<1>4. CASE /\ ~BlocksExecution(d.mig.phase) /\ d.rec = None /\ d.op # "none"
           /\ \E e : es = <<InterruptedEvent(d.op = "running"), e>>
    <2> DEFINE a == d.op = "running"
               e1 == InterruptedEvent(a)
    <2>1. PICK e2 : es = <<e1, e2>>
        BY <1>4
    <2>2. a \in BOOLEAN /\ (a <=> d.op = "running")
        OBVIOUS
    <2> HIDE DEF a
    <2>3. n = 0 \/ n = 1
        <3>1. Len(es) = 2
            BY <2>1, Pair
        <3> HIDE DEF es
        <3> QED BY <3>1 DEF es
    <2> HIDE DEF e1
    <2>4. CASE n = 0
        <3>1. SubSeq(<<e1, e2>>, 1, 0) = <<>>
            OBVIOUS
        <3>2. x = d
            BY <2>1, <2>4, <3>1, ReplayNone
        <3>3. ~Moving(d)
            BY <1>1, <1>4 DEF Travels
        <3> QED BY <1>1, <3>2, <3>3
    <2>5. CASE n = 1
        <3>1. x = Replay(s, d, e1)
            BY <2>1, <2>5, Pair, ReplayOne
        <3> HIDE DEF x, es
        <3> QED BY <1>4, <2>2, <3>1, Interrupts DEF Is, e1, x, es
    <2> QED BY <2>3, <2>4, <2>5
<1> QED BY <1>1, <1>2, <1>3, <1>4, Shapes

LEMMA StartKeepsHosted ==
    ASSUME HostedInv, NEW s \in Sessions, Restart(s) \/ Isolate(s)
    PROVE  HostedInv' /\ Kept(s)
<1> DEFINE d == disk[s]
           es == Classified(d).es
           B(n) == ReplayAll(s, d, SubSeq(es, 1, n))
<1>1. /\ ~up[s] /\ worker[s] = NoWorker /\ d \in Records /\ RecordInv(d) /\ Fresh(d, retired[s])
      /\ Carries(s, d, d) /\ retired[s] \in Nat
    BY Now, Also DEF Restart, Isolate, Starting, Consistent
<1>2. Gone(worker[s], retired[s]) = retired[s]
    BY <1>1 DEF Gone, Physical, NoWorker
<1>3. \A n \in 0..(Len(es) - 1) :
        B(n) \in Records /\ RecordInv(B(n)) /\ Fresh(B(n), retired[s]) /\ Carries(s, d, B(n))
    BY <1>1, Broken
<1>4. \A n \in 1..(Len(es) - 1) : n \in 0..(Len(es) - 1)
    OBVIOUS
<1> HIDE DEF B
<1>5. CASE d.mig.phase # "Overtaken" /\ Restarted(s, es, Classified(d).r)
    BY <1>1, <1>5, RestartedKeeps
<1>6. CASE \E n \in 1..(Len(es) - 1) : Stop(s, B(n))
    BY <1>2, <1>3, <1>4, <1>6, StopKeeps
<1>7. CASE SetAside(s, d) \/ \E n \in 0..(Len(es) - 1) : SetAside(s, B(n))
    BY <1>1, <1>3, <1>7, SetAsideKeeps
<1> QED BY <1>5, <1>6, <1>7 DEF Restart, Isolate, Restarted, B

-----------------------------------------------------------------------------
(***************************************************************************)
(* The steps of an isolated session.                                       *)
(***************************************************************************)

LEMMA AsideNow ==
    ASSUME HostedInv, AsideInv, NEW s \in Sessions, CalledAside(s)
    PROVE  /\ ~up[s] /\ live[s] = disk[s] /\ disk[s] \in Records /\ RecordInv(disk[s])
           /\ Fresh(disk[s], retired[s]) /\ Numbers(disk[s])
           /\ ~Unfinished(disk[s].mig) => ~Moving(disk[s]) /\ Overtaken(disk[s].mig) = disk[s].mig
<1>1. ~up[s] /\ (Moving(disk[s]) => Unfinished(disk[s].mig))
    BY DEF AsideInv, Aside, CalledAside
<1> QED BY <1>1, Now, Also, OvertakenIs DEF Consistent

LEMMA IsolatedIs ==
    ASSUME NEW d \in Records
    PROVE  LET r == Isolated(d)
           IN /\ r.status # "Closed" => d.status # "Closed"
              /\ r.op = d.op
              /\ r.status = "RecoveryRequired" =>
                   /\ d.status # "Closed" /\ d.rec = None
                   /\ Is(r, "RecoveryRequired", d.gen, IF d.gen # 0 THEN d.gen + 1 ELSE d.next,
                         FALSE, d.has, d.ckpt, d.op, d.amb, d.rec, d.mig, d.head)
<1> DEFINE r == Isolated(d)
           next == IF d.gen # 0 THEN d.gen + 1 ELSE d.next
<1>1. next \in Nat \ {0}
    BY DEF Records
<1>2. CASE d.status = "Closed"
    BY <1>2 DEF Isolated
<1>3. CASE d.status # "Closed" /\ d.rec # None
    <2> DEFINE q == [d EXCEPT !.actor = FALSE, !.has = FALSE, !.status = "Quarantined"]
    <2>1. q.op = d.op /\ q.status = "Quarantined"
        BY DEF Records
    <2>2. r = q
        BY <1>3 DEF Isolated
    <2> QED BY <1>3, <2>1, <2>2
<1>4. CASE d.status # "Closed" /\ d.rec = None
    <2>1. r = [d EXCEPT !.actor = FALSE, !.next = next, !.status = "RecoveryRequired"]
        BY <1>4 DEF Isolated
    <2> HIDE DEF r, next
    <2>2. Is(r, "RecoveryRequired", d.gen, next, FALSE, d.has, d.ckpt, d.op, d.amb, d.rec, d.mig,
             d.head)
        BY <1>1, <2>1 DEF Is, Records
    <2>3. r.op = d.op
        BY <2>2 DEF Is
    <2> QED BY <1>4, <2>2, <2>3 DEF r, next
<1> QED BY <1>2, <1>3, <1>4

LEMMA ResetIsolatedKeeps ==
    ASSUME HostedInv, AsideInv, NEW s \in Sessions, ResetIsolated(s)
    PROVE  HostedInv' /\ Kept(s)
<1> DEFINE d == disk[s]
           q == Isolated(d)
           next == IF d.gen # 0 THEN d.gen + 1 ELSE d.next
           mig == Overtaken(d.mig)
           e == [kind |-> "Reset", prev |-> d.gen, next |-> next]
           y == LiveReset(q)
           r == [y EXCEPT !.head = d.head + 1]
           x == Replay(s, d, e)
<1>1. /\ ~up[s] /\ live[s] = d /\ d \in Records /\ RecordInv(d)
      /\ Fresh(d, retired[s]) /\ Numbers(d)
      /\ ~Unfinished(d.mig) => ~Moving(d) /\ mig = d.mig
    BY AsideNow DEF ResetIsolated
<1>2. /\ d.status # "Closed" /\ d.rec = None
      /\ Is(q, "RecoveryRequired", d.gen, next, FALSE, d.has, d.ckpt, d.op, d.amb, d.rec, d.mig,
            d.head)
    BY <1>1, IsolatedIs DEF ResetIsolated
<1> HIDE DEF q
<1>3. q \in Records /\ q.gen = d.gen /\ q.next = next /\ q.mig = d.mig /\ q.op = d.op
      /\ q.amb = d.amb /\ q.rec = d.rec /\ q.head = d.head
    BY <1>2 DEF Is
<1>4. /\ d.gen \in Nat /\ d.next \in Nat \ {0} /\ next \in Nat \ {0} /\ d.head \in Nat
      /\ d.head + 1 \in Nat /\ d.op = "none" /\ d.amb = 0 /\ retired[s] \in Nat
      /\ mig \in {NoMig} \cup Transitions /\ ~Unfinished(mig)
    <2>1. q.op = "none" /\ q.amb = 0
        BY DEF ResetIsolated, q
    <2>2. d.gen \in Nat /\ d.next \in Nat \ {0} /\ d.head \in Nat /\ d.mig \in {NoMig} \cup Transitions
        BY <1>1 DEF Records
    <2>3. mig \in {NoMig} \cup Transitions /\ ~Unfinished(mig)
        BY <1>1, OvertakenIs
    <2>4. retired[s] \in Nat
        BY Now
    <2> HIDE DEF mig
    <2> QED BY <1>3, <2>1, <2>2, <2>3, <2>4
<1>5. (IF q.gen # 0 THEN q.gen + 1 ELSE q.next) = next
    BY <1>3
<1>6. y.next = next /\ Is(y, "Ready", 0, next, FALSE, FALSE, NoCkpt, d.op, d.amb, d.rec, mig, d.head)
    BY <1>3, <1>5, LiveResets
<1> HIDE DEF y, next, mig
<1>7. Is(r, "Ready", 0, next, FALSE, FALSE, NoCkpt, d.op, d.amb, d.rec, mig, d.head + 1)
    BY <1>4, <1>6, Advanced
<1>8. Is(x, "Ready", 0, next, FALSE, FALSE, NoCkpt, d.op, d.amb, d.rec, mig, d.head + 1)
    BY <1>1, <1>2, <1>4, OnReset DEF mig
<1>9. disk' = [disk EXCEPT ![s] = x] /\ live' = [live EXCEPT ![s] = r]
    <2>1. Commit(s, <<e>>, y)
        BY <1>3, <1>6 DEF ResetIsolated, q, y
    <2> HIDE DEF e
    <2>2. disk' = [disk EXCEPT ![s] = x] /\ live' = [live EXCEPT ![s] = [y EXCEPT !.head = live[s].head + 1]]
        BY <2>1, CommitsOne
    <2> QED BY <1>1, <2>2
<1> HIDE DEF r, x, e
<1>10. RecordInv(x)
    BY <1>2, <1>4, <1>8 DEF Is, RecordInv, Saved
<1>11. Fresh(x, retired[s])
    BY <1>1, <1>4, <1>8 DEF Is, Fresh, next
<1>12. Agree(r, x) /\ r.has = x.has /\ r.op = "none" /\ r.rec = None /\ ~Unfinished(r.mig)
    BY <1>2, <1>4, <1>7, <1>8 DEF Is, Agree
<1>13. Carries(s, d, x)
    <2>1. Numbers(x)
        BY <1>1, <1>4, <1>8 DEF Is, Numbers, next
    <2>2. \A g \in Nat : Below(g, d) => Below(g, x)
        BY <1>4, <1>8 DEF Is, Below, next
    <2>3. CASE Unfinished(d.mig)
        <3>1. Overtakes(d, x)
            BY <1>8, <2>3 DEF Is, Overtakes, mig
        <3> QED BY <1>4, <1>8, <2>1, <2>2, <3>1 DEF Is, Carries
    <2>4. CASE ~Unfinished(d.mig)
        <3>1. Works(s, d, x)
            BY <1>1, <1>2, <1>8, <2>4 DEF Is, Works, Steps, Moving
        <3> QED BY <1>4, <1>8, <2>1, <2>2, <3>1 DEF Is, Carries
    <2> QED BY <2>3, <2>4
<1>14. r \in Records /\ x \in Records
    BY <1>7, <1>8 DEF Is
<1> QED BY <1>1, <1>9, <1>10, <1>11, <1>12, <1>13, <1>14, UpKeeps DEF ResetIsolated

LEMMA CloseIsolatedKeeps ==
    ASSUME HostedInv, AsideInv, NEW s \in Sessions, CloseIsolated(s)
    PROVE  HostedInv' /\ Kept(s) /\ ~Moving(disk'[s])
<1> DEFINE d == disk[s]
           x == Replay(s, d, [kind |-> "Closed"])
           mig == Overtaken(d.mig)
<1>1. /\ ~up[s] /\ d \in Records /\ RecordInv(d) /\ Fresh(d, retired[s]) /\ Numbers(d)
      /\ ~Unfinished(d.mig) => ~Moving(d) /\ mig = d.mig
    BY AsideNow DEF CloseIsolated
<1>2. d.status # "Closed" /\ d.op = "none" /\ d.head \in Nat /\ d.gen \in Nat /\ d.next \in Nat
    BY <1>1, IsolatedIs DEF CloseIsolated, Records
<1>3. SetAside(s, x)
    BY DEF CloseIsolated
<1>4. Is(x, "Closed", d.gen, d.next, d.actor, d.has, d.ckpt, d.op, d.amb, None, mig, d.head + 1)
    BY <1>1, <1>2, OnClosed
<1> HIDE DEF x, mig
<1>5. RecordInv(x)
    BY <1>1, <1>2, <1>4 DEF Is, RecordInv, Saved
<1>6. Fresh(x, retired[s])
    BY <1>1, <1>4 DEF Is, Fresh
<1>7. Carries(s, d, x)
    <2>1. Numbers(x)
        BY <1>1, <1>2, <1>4 DEF Is, Numbers
    <2>2. \A g \in Nat : Below(g, d) => Below(g, x)
        BY <1>2, <1>4 DEF Is, Below
    <2>3. CASE Unfinished(d.mig)
        <3>1. Overtakes(d, x)
            BY <1>4, <2>3 DEF Is, Overtakes, mig
        <3> QED BY <1>2, <1>4, <2>1, <2>2, <3>1 DEF Is, Carries
    <2>4. CASE ~Unfinished(d.mig)
        <3>1. Works(s, d, x)
            BY <1>1, <1>2, <1>4, <2>4 DEF Is, Works, Steps, Moving
        <3> QED BY <1>2, <1>4, <2>1, <2>2, <3>1 DEF Is, Carries
    <2> QED BY <2>3, <2>4
<1>8. x \in Records /\ ~Moving(x)
    BY <1>4 DEF Is, Moving
<1>9. disk'[s] = x
    BY <1>3 DEF SetAside, HostedInv, Types
<1> QED BY <1>1, <1>3, <1>5, <1>6, <1>7, <1>8, <1>9, SetAsideKeeps

LEMMA RefuseIsolatedKeeps ==
    ASSUME HostedInv, AsideInv, NEW s \in Sessions, NEW trigger, RefuseIsolated(s, trigger)
    PROVE  HostedInv' /\ Kept(s) /\ ~Moving(disk'[s])
<1> DEFINE d == disk[s]
           q == Isolated(d)
           x == Replay(s, d, [kind |-> "Refused", gen |-> 0])
<1>1. ~up[s] /\ d \in Records /\ RecordInv(d) /\ Fresh(d, retired[s]) /\ Numbers(d)
    BY AsideNow DEF RefuseIsolated
<1>2. /\ d.status # "Closed" /\ d.rec = None /\ q.gen = d.gen /\ q.ckpt = d.ckpt /\ q.amb = d.amb
    BY <1>1, IsolatedIs DEF RefuseIsolated, Is
<1>3. d.ckpt = NoCkpt /\ d.amb > 0
    BY <1>1, <1>2 DEF RefuseIsolated, TriggerValid, RecordInv
<1>4. d.status = "RecoveryRequired"
    BY <1>1, <1>2, <1>3 DEF RecordInv
<1>5. SetAside(s, x)
    BY DEF RefuseIsolated
<1>6. Is(x, "RecoveryRequired", d.gen, d.next, d.actor, d.has, d.ckpt, d.op, d.amb, None, d.mig,
         d.head + 1)
    BY <1>1, <1>2, OnRefused
<1>7. d.head \in Nat /\ d.gen \in Nat /\ d.next \in Nat
    BY <1>1 DEF Records
<1> HIDE DEF x, q
<1>8. RecordInv(x)
    BY <1>1, <1>2, <1>4, <1>6 DEF Is, RecordInv, Saved
<1>9. Fresh(x, retired[s])
    BY <1>1, <1>6 DEF Is, Fresh
<1>10. Carries(s, d, x)
    <2>1. /\ x \in Records /\ ~Moving(d) /\ ~Moving(x) /\ d.head <= x.head /\ x.next <= x.head
          /\ x.mig = d.mig /\ x.gen = d.gen /\ x.ckpt = d.ckpt /\ d.next <= x.next
        BY <1>1, <1>4, <1>6, <1>7 DEF Is, Moving, Numbers
    <2> QED BY <1>1, <1>2, <2>1, CarriesOn
<1>11. x \in Records /\ ~Moving(x)
    BY <1>6 DEF Is, Moving
<1>12. disk'[s] = x
    BY <1>5 DEF SetAside, HostedInv, Types
<1> QED BY <1>1, <1>5, <1>8, <1>9, <1>10, <1>11, <1>12, SetAsideKeeps

LEMMA HostedStutters ==
    ASSUME HostedInv, UNCHANGED <<live, disk, up, prep, worker, stage, retired>>
    PROVE  HostedInv'
<1>1. Types'
    BY DEF HostedInv, Types
<1>2. ASSUME NEW s \in Sessions PROVE SessionInv(s)'
    <2>1. SessionInv(s)
        BY DEF HostedInv
    <2> QED BY <2>1 DEF SessionInv
<1> QED BY <1>1, <1>2 DEF HostedInv

LEMMA RecoverIsolatedKeeps ==
    ASSUME HostedInv, AsideInv, NEW s \in Sessions, NEW trigger, RecoverIsolated(s, trigger)
    PROVE  HostedInv' /\ Kept(s)
<1>1. UNCHANGED <<live, disk, up, prep, worker, stage, retired>>
    BY DEF RecoverIsolated
<1>2. HostedInv'
    BY <1>1, HostedStutters
<1> QED BY <1>1, <1>2, Also DEF Kept

-----------------------------------------------------------------------------
(***************************************************************************)
(* The invariant holds, and what follows from it.                          *)
(***************************************************************************)

LEMMA InitHosted == Init => HostedInv /\ AsideInv
<1> SUFFICES ASSUME Init PROVE HostedInv /\ AsideInv
    OBVIOUS
<1>1. Opened \in Records
    BY DEF Opened, Records, Checkpoints
<1>2. /\ Opened.status = "Ready" /\ Opened.gen = 0 /\ Opened.next = 1 /\ ~Opened.actor
      /\ ~Opened.has /\ Opened.ckpt = NoCkpt /\ Opened.op = "none" /\ Opened.rec = None
      /\ Opened.mig = NoMig /\ Opened.head = 1 /\ Opened.mig.phase = "none"
    BY DEF Opened, NoMig
<1>3. /\ NoWorker \in Workers /\ ~Alive(NoWorker) /\ ~Spawned(NoWorker) /\ None.kind = "none"
      /\ Opened.amb = 0
    BY DEF Workers, NoWorker, Alive, Spawned, None, Opened
<1>4. Types
    BY <1>1, <1>3 DEF Init, Types
<1>5. Consistent(Opened, Opened, TRUE, None, NoWorker, "idle", 0)
    BY <1>2, <1>3
       DEF Consistent, RecordInv, Fresh, Agree, Saved, Stages, Reserved, Unfinished
<1>6. ASSUME NEW s \in Sessions PROVE SessionInv(s)
    <2>1. Travels(Opened) /\ Numbers(Opened) /\ Homed(s, Opened)
        BY <1>2 DEF Travels, Numbers, Homed, BlocksExecution, Moving
    <2> QED BY <1>3, <1>5, <2>1 DEF Init, SessionInv
<1>7. AsideInv
    BY DEF Init, AsideInv, Aside
<1> QED BY <1>4, <1>6, <1>7 DEF HostedInv

LEMMA StepKeepsHosted ==
    ASSUME HostedInv, AsideInv, NEW s \in Sessions, SessionStep(s)
    PROVE  HostedInv' /\ Kept(s)
<1>1. CASE RuntimeStep(s)
    BY <1>1, ReleaseKeeps, SubmitKeeps, SendKeeps, InterruptKeeps, StartKeeps,
       FinishUntouchedKeeps, LoseKeeps, SettleKeeps, SaveKeeps, FailKeeps, FinishKeeps,
       RefusedKeeps, AttemptKeeps, RecoverCommitKeeps, RecoverFailKeeps DEF RuntimeStep
<1>2. CASE ClientStep(s)
    BY <1>2, ReserveKeeps, SubmitFenceKeeps, ResetKeeps, CloseKeeps, ResetIsolatedKeeps,
       CloseIsolatedKeeps, RefuseIsolatedKeeps, RecoverIsolatedKeeps DEF ClientStep
<1>3. CASE FaultStep(s)
    BY <1>3, PanicKeeps, CrashKeeps, StartKeepsHosted DEF FaultStep
<1>4. CASE Restart(s)
    BY <1>4, StartKeepsHosted
<1> QED BY <1>1, <1>2, <1>3, <1>4 DEF SessionStep

LEMMA AsideFramed ==
    ASSUME AsideInv, NEW s \in Sessions, NEW i, isolated' = [isolated EXCEPT ![s] = i],
           \A t \in Sessions \ {s} : disk'[t] = disk[t] /\ up'[t] = up[t],
           i = "no" \/ (~up'[s] /\ (Moving(disk'[s]) => Unfinished(disk'[s].mig)))
    PROVE  AsideInv'
<1>1. isolated' = [t \in Sessions |-> isolated'[t]] /\ isolated'[s] = i
    BY DEF AsideInv
<1>2. Aside(s)'
    BY <1>1 DEF Aside
<1>3. ASSUME NEW t \in Sessions, t # s PROVE Aside(t)'
    <2>1. isolated'[t] = isolated[t] /\ disk'[t] = disk[t] /\ up'[t] = up[t] /\ Aside(t)
        BY <1>3 DEF AsideInv
    <2> QED BY <2>1 DEF Aside
<1> QED BY <1>1, <1>2, <1>3 DEF AsideInv

\* A step of a session in service.
LEMMA InService ==
    ASSUME NEW s \in Sessions,
           \/ RuntimeStep(s) \/ SubmitReserve(s) \/ SubmitFence(s) \/ ResetSession(s)
           \/ CloseSession(s) \/ Panic(s)
           \/ \E trigger \in {"ambiguous", "lost"} : RecoverReserve(s, trigger)
    PROVE  up[s] /\ (isolated' = isolated \/ isolated' = [isolated EXCEPT ![s] = "no"])
<1>1. CASE SubmitRefused(s) \/ SubmitCommit(s) \/ RecoverDropped(s) \/ RecoverRefused(s)
           \/ RecoverAttempt(s)
    BY <1>1 DEF SubmitRefused, SubmitCommit, RecoverDropped, RecoverRefused, RecoverAttempt,
                Unchanged
<1>2. CASE Send(s) \/ Start(s) \/ FinishUntouched(s) \/ Settle(s) \/ Finish(s)
    BY <1>2 DEF Send, Start, FinishUntouched, Settle, Finish
<1>3. CASE InterruptBeforeStart(s)
    BY <1>3 DEF InterruptBeforeStart, Stop
<1>4. CASE LoseActor(s)
    BY <1>4 DEF LoseActor, Stop
<1>5. CASE SaveCheckpoint(s)
    BY <1>5 DEF SaveCheckpoint, Stop
<1>6. CASE FailCheckpoint(s)
    BY <1>6 DEF FailCheckpoint, Stop
<1>7. CASE RecoverCommit(s) \/ RecoverFail(s)
    BY <1>7 DEF RecoverCommit, RecoverFail, Attempting
<1>8. CASE SubmitReserve(s) \/ SubmitFence(s) \/ ResetSession(s) \/ CloseSession(s)
           \/ \E trigger \in {"ambiguous", "lost"} : RecoverReserve(s, trigger)
    BY <1>8 DEF SubmitReserve, SubmitFence, ResetSession, CloseSession, RecoverReserve, Called
<1>9. CASE Panic(s)
    BY <1>9 DEF Panic
<1> QED BY <1>1, <1>2, <1>3, <1>4, <1>5, <1>6, <1>7, <1>8, <1>9 DEF RuntimeStep

LEMMA StepKeepsAside ==
    ASSUME HostedInv, AsideInv, NEW s \in Sessions, SessionStep(s)
    PROVE  AsideInv'
<1>1. \A t \in Sessions \ {s} : disk'[t] = disk[t] /\ up'[t] = up[t]
    BY StepKeepsHosted DEF Kept
<1>2. isolated = [isolated EXCEPT ![s] = isolated[s]]
    BY DEF AsideInv
<1>3. up[s] => isolated[s] = "no"
    BY DEF AsideInv, Aside
<1>4. CASE up[s] /\ (isolated' = isolated \/ isolated' = [isolated EXCEPT ![s] = "no"])
    BY <1>1, <1>2, <1>3, <1>4, AsideFramed
<1>5. ASSUME NEW d, SetAside(s, d), ~up[s], Moving(d) => Unfinished(d.mig) PROVE AsideInv'
    <2>1. disk'[s] = d /\ up' = up /\ isolated' = [isolated EXCEPT ![s] = "isolated"]
        BY <1>5 DEF SetAside, HostedInv, Types
    <2> QED BY <1>1, <1>5, <2>1, AsideFramed
<1>6. CASE Crash(s)
    BY <1>1, <1>6, AsideFramed DEF Crash, Stop
<1>7. CASE ResetIsolated(s)
    BY <1>1, <1>7, AsideFramed DEF ResetIsolated
<1>8. CASE CloseIsolated(s)
    <2>1. PICK d : SetAside(s, d)
        BY <1>8 DEF CloseIsolated
    <2>2. disk'[s] = d /\ ~up[s] /\ ~Moving(d)
        BY <1>8, <2>1, AsideNow, CloseIsolatedKeeps DEF SetAside, HostedInv, Types, CloseIsolated
    <2> QED BY <1>5, <2>1, <2>2
<1>9. CASE \E trigger \in {"ambiguous", "lost"} : RefuseIsolated(s, trigger)
    <2>1. PICK d : SetAside(s, d)
        BY <1>9 DEF RefuseIsolated
    <2>2. disk'[s] = d /\ ~up[s] /\ ~Moving(d)
        BY <1>9, <2>1, AsideNow, RefuseIsolatedKeeps DEF SetAside, HostedInv, Types, RefuseIsolated
    <2> QED BY <1>5, <2>1, <2>2
<1>10. CASE \E trigger \in {"ambiguous", "lost"} : RecoverIsolated(s, trigger)
    <2>1. PICK i : isolated' = [isolated EXCEPT ![s] = i]
        BY <1>10 DEF RecoverIsolated
    <2>2. up'[s] = up[s] /\ disk'[s] = disk[s] /\ isolated[s] # "no"
        BY <1>10 DEF RecoverIsolated, CalledAside
    <2> QED BY <1>1, <2>1, <2>2, AsideFramed DEF AsideInv, Aside
<1>11. CASE Isolate(s)
    <2>1. PICK n \in 0..(Len(Classified(disk[s]).es) - 1) :
             SetAside(s, ReplayAll(s, disk[s], SubSeq(Classified(disk[s]).es, 1, n)))
        BY <1>11 DEF Isolate
    <2>2. ~up[s]
        BY <1>11 DEF Isolate, Starting
    <2> QED BY <1>5, <2>1, <2>2, Broken
<1>12. CASE Restart(s)
    <2>1. ~up[s] /\ isolated[s] = "no"
        BY <1>12 DEF Restart, Starting
    <2>2. CASE isolated' = isolated
        BY <1>1, <1>2, <2>1, <2>2, AsideFramed
    <2>3. CASE isolated' = [isolated EXCEPT ![s] = "no"]
        BY <1>1, <2>3, AsideFramed
    <2>4. CASE disk[s].mig.phase = "Overtaken" /\ SetAside(s, disk[s])
        <3>1. ~Moving(disk[s])
            BY <2>4, Also DEF Travels, BlocksExecution
        <3> QED BY <1>5, <2>1, <2>4, <3>1
    <2> QED BY <1>12, <2>2, <2>3, <2>4 DEF Restart, Stop
<1> QED BY <1>4, <1>6, <1>7, <1>8, <1>9, <1>10, <1>11, <1>12, InService
        DEF SessionStep, ClientStep, FaultStep

LEMMA AsideStutters ==
    ASSUME AsideInv, UNCHANGED <<disk, up, isolated>>
    PROVE  AsideInv'
BY DEF AsideInv, Aside

\* The inductive invariant holds of every behaviour of any number of sessions,
\* whatever the journal's length (runtime.rs, every handler, the restart and the
\* sessions classify_restart_interruptions isolates when a repair fails).
THEOREM HostedInvariant == Spec => [](HostedInv /\ AsideInv)
<1>1. Init => HostedInv /\ AsideInv
    BY InitHosted
<1>2. HostedInv /\ AsideInv /\ [Next]_vars => (HostedInv /\ AsideInv)'
    <2> SUFFICES ASSUME HostedInv, AsideInv, [Next]_vars PROVE HostedInv' /\ AsideInv'
        OBVIOUS
    <2>1. CASE Next
        BY <2>1, StepKeepsHosted, StepKeepsAside DEF Next
    <2>2. CASE UNCHANGED vars
        <3>1. UNCHANGED <<live, disk, up, prep, worker, stage, retired>> /\ UNCHANGED isolated
            BY <2>2 DEF vars
        <3> QED BY <3>1, HostedStutters, AsideStutters
    <2> QED BY <2>1, <2>2
<1> QED BY <1>1, <1>2, PTL DEF Spec

LEMMA InvReplays == HostedInv /\ AsideInv => ReplayIsLive
<1> SUFFICES ASSUME HostedInv, AsideInv, NEW s \in Sessions
             PROVE  /\ disk[s] # Unreadable
                    /\ up[s] =>
                         /\ isolated[s] = "no"
                         /\ \A f \in {"status", "gen", "next", "ckpt", "op", "amb", "rec",
                                      "mig", "head"} : live[s][f] = disk[s][f]
                         /\ live[s].status \in {"Ready", "RecoveryRequired"} =>
                              live[s].actor = disk[s].actor /\ live[s].has = disk[s].has
    BY DEF ReplayIsLive
<1>1. disk[s] # Unreadable
    BY Now DEF Records, Unreadable
<1>2. up[s] => Agree(live[s], disk[s])
    BY Now DEF Consistent
<1>3. up[s] /\ live[s].status \in {"Ready", "RecoveryRequired"} => live[s].has = disk[s].has
    BY Now DEF Consistent
<1>4. ASSUME up[s], NEW f \in {"status", "gen", "next", "ckpt", "op", "amb", "rec", "mig",
                               "head"}
      PROVE  live[s][f] = disk[s][f]
    BY <1>2, <1>4 DEF Agree
<1>5. up[s] => isolated[s] = "no"
    BY DEF AsideInv, Aside
<1> QED BY <1>1, <1>2, <1>3, <1>4, <1>5 DEF Agree

LEMMA InvRuns == HostedInv => ActorIsCheckpoint
<1> SUFFICES ASSUME HostedInv, NEW s \in Sessions, up[s], live[s].status = "Ready"
             PROVE  /\ live[s].has <=> live[s].ckpt # NoCkpt
                    /\ Alive(worker[s]) =>
                         worker[s].c = IF live[s].has THEN live[s].ckpt.c ELSE Blank
    BY DEF ActorIsCheckpoint
<1>1. live[s].has <=> live[s].ckpt # NoCkpt
    BY Now DEF Consistent, RecordInv, Agree, Saved
<1>2. Alive(worker[s]) => worker[s].c = IF live[s].has THEN live[s].ckpt.c ELSE Blank
    BY Now DEF Consistent, WorkerInv
<1> QED BY <1>1, <1>2

LEMMA InvSingle == HostedInv => OneActorPerGeneration
<1> SUFFICES ASSUME HostedInv, NEW s \in Sessions, Physical(worker[s]), worker[s].gen # 0
             PROVE  worker[s].gen = live[s].gen /\ worker[s].gen > retired[s]
    BY DEF OneActorPerGeneration
<1>1. up[s]
    BY Now DEF Consistent, Physical, NoWorker
<1>2. CASE Alive(worker[s])
    BY <1>1, <1>2, Now DEF Consistent, WorkerInv, Records
<1>3. CASE Spawned(worker[s])
    BY <1>3, Also, Now DEF Restores, Records
<1> QED BY <1>2, <1>3 DEF Physical, Alive, Spawned

\* reconstruct_session refuses no journal the handlers of a session in service
\* can write, and returns the record they believe in, also when the node stopped
\* between two events of one handler, or a restart isolated the session and a
\* reset brought it back.  A recovery of an isolated session is the exception
\* (RecoverIsolated): it takes the session out of service.
THEOREM ReplayAgrees == Spec => []ReplayIsLive
BY HostedInvariant, InvReplays, PTL

\* A session that is Ready runs on exactly the state its journal holds.
THEOREM RunsOnCheckpoint == Spec => []ActorIsCheckpoint
BY HostedInvariant, InvRuns, PTL

\* Two physical actors of a session never share a generation: evaluators in
\* service, and the replacements spawned by recover_session that were refused or
\* that a restart or an isolation found unfinished.
THEOREM GenerationsAreSingle == Spec => []OneActorPerGeneration
BY HostedInvariant, InvSingle, PTL

-----------------------------------------------------------------------------
(***************************************************************************)
(* A migration transition that replay accepts, on the record alone.        *)
(***************************************************************************)

\* What the handlers see to besides validate_migration_transition.
Fit(d, m) ==
    /\ m.phase = "Prepared" => m.actor /\ d.ckpt # NoCkpt /\ d.ckpt.c = m.plan.c
    /\ m.phase \notin {"Prepared", "Installed", "Activated", "Aborted"} => ~m.actor

LEMMA IsCkpt ==
    ASSUME NEW g, NEW c
    PROVE  [gen |-> g, c |-> c] # NoCkpt
<1>1. "c" \in DOMAIN [gen |-> g, c |-> c] /\ "c" \notin DOMAIN NoCkpt
    BY DEF NoCkpt
<1> QED BY <1>1

\* Where a transition starts.
LEMMA Begins ==
    ASSUME NEW s, NEW d \in Records, RecordInv(d), Travels(d), NEW m \in Transitions,
           MigrationValid(s, d, m), Fit(d, m)
    PROVE  /\ d.gen # 0 /\ d.ckpt # NoCkpt /\ d.status \in {"Ready", "Migrating"} /\ s = Home(m)
           /\ m.gen = IF Unfinished(m) THEN d.gen + 1 ELSE d.gen
           /\ d.status = "Ready" <=> m.phase \in {"Prepared", "Installing"}
           /\ d.status = "Migrating" =>
                 /\ d.mig \in Transitions /\ d.mig # NoMig /\ d.mig.plan = m.plan
                 /\ BlocksExecution(d.mig.phase) /\ d.mig.phase # "Fenced" /\ d.mig.gen = d.gen
                 /\ AtSource(d.mig.phase) <=> AtSource(m.phase)
<1>1. m.phase \in Phases /\ d.gen \in Nat /\ s = Home(m)
    BY DEF Transitions, Records, MigrationValid, Home
<1>2. CASE m.phase \in {"Prepared", "Installing"}
    <2>1. d.status = "Ready" /\ d.ckpt # NoCkpt
        BY <1>2 DEF MigrationValid, Fit, AtSource
    <2>2. d.gen # 0
        BY <2>1 DEF RecordInv
    <2>3. m.gen = IF Unfinished(m) THEN d.gen + 1 ELSE d.gen
        BY <1>2 DEF MigrationValid, Unfinished
    <2> QED BY <1>1, <1>2, <2>1, <2>2, <2>3
<1>3. CASE m.phase \notin {"Prepared", "Installing"}
    <2>1. d.mig # NoMig /\ d.mig.plan = m.plan
        BY <1>1, <1>3 DEF MigrationValid, Phases
    <2>2. /\ d.mig.phase \in {"Prepared", "Installing", "Installed", "Activating",
                              "ActivationFailed"}
          /\ AtSource(d.mig.phase) <=> AtSource(m.phase)
          /\ m.phase # "Activating" => d.mig.gen = m.gen
          /\ m.phase = "Activating" => m.gen = d.gen + 1
        BY <1>1, <1>3 DEF MigrationValid, Phases, AtSource
    <2>3. d.status = "Migrating" /\ d.gen # 0 /\ d.mig.gen = d.gen
        BY <2>2 DEF Travels, BlocksExecution, Moving
    <2>4. d.ckpt # NoCkpt
        BY <2>2, IsCkpt DEF Travels, BlocksExecution, AtSource
    <2>5. d.mig \in Transitions
        BY <2>1 DEF Records
    <2> QED BY <1>1, <1>3, <2>1, <2>2, <2>3, <2>4, <2>5 DEF BlocksExecution, Unfinished
<1> QED BY <1>2, <1>3

\* The record a transition leads to.
Landed(d, m, e) ==
    Is(e, MovesTo(m), m.gen, Allocates(m), m.actor, Brings(m), Placed(d, m), d.op, d.amb, d.rec,
       m, d.head + 1)

LEMMA Lands ==
    ASSUME NEW s, NEW d \in Records, RecordInv(d), Travels(d), Numbers(d), d.op = "none",
           d.rec = None, NEW m \in Transitions, MigrationValid(s, d, m), Fit(d, m),
           NEW e, Landed(d, m, e)
    PROVE  /\ RecordInv(e) /\ Travels(e) /\ Numbers(e) /\ Homed(s, e) /\ e.ckpt # NoCkpt
           /\ \A g \in Nat : Below(g, d) => Below(g, e)
<1>1. /\ d.gen # 0 /\ d.ckpt # NoCkpt /\ d.status \in {"Ready", "Migrating"} /\ s = Home(m)
      /\ m.gen = IF Unfinished(m) THEN d.gen + 1 ELSE d.gen
      /\ d.status = "Ready" <=> m.phase \in {"Prepared", "Installing"}
      /\ d.status = "Migrating" =>
            /\ d.mig \in Transitions /\ d.mig # NoMig /\ d.mig.plan = m.plan
            /\ BlocksExecution(d.mig.phase) /\ d.mig.phase # "Fenced" /\ d.mig.gen = d.gen
            /\ AtSource(d.mig.phase) <=> AtSource(m.phase)
    BY Begins
<1>2. /\ e \in Records /\ e.status = MovesTo(m) /\ e.gen = m.gen /\ e.next = Allocates(m)
      /\ e.actor = m.actor /\ e.has = Brings(m) /\ e.ckpt = Placed(d, m) /\ e.op = "none"
      /\ e.rec = None /\ e.mig = m /\ e.head = d.head + 1
    BY DEF Landed, Is
<1>3. /\ d.gen \in Nat /\ m.gen \in Nat /\ d.head \in Nat /\ m.phase \in Phases /\ m.actor \in BOOLEAN
      /\ d.ckpt \in [gen : Nat, c : States] /\ m.prev \in Checkpoints /\ m.plan.dgen \in Nat
    BY <1>1 DEF Records, Transitions, Checkpoints, Plans
<1>4. /\ ~AtSource(m.phase) => m.prev # NoCkpt /\ m.prev.gen = m.plan.dgen
      /\ ~AtSource(m.phase) /\ m.phase # "Installing" => d.mig.prev = m.prev
      /\ m.phase = "Installing" => d.ckpt = m.prev /\ d.gen = m.plan.dgen
      /\ m.phase \in {"Installed", "Activated"} => m.actor
    BY DEF MigrationValid
<1>5. ~AtSource(m.phase) => m.plan.dgen < m.gen
    <2>1. CASE m.phase = "Installing"
        BY <1>1, <1>3, <1>4, <2>1 DEF Unfinished
    <2>2. CASE ~AtSource(m.phase) /\ m.phase # "Installing"
        <3>1. d.status = "Migrating"
            BY <1>1, <2>2 DEF AtSource
        <3>2. m.plan.dgen < d.gen
            BY <1>1, <2>2, <3>1 DEF Travels
        <3> QED BY <1>1, <1>3, <3>2
    <2> QED BY <2>1, <2>2
<1>6. e.ckpt # NoCkpt /\ e.ckpt.gen <= m.gen
    <2>1. d.ckpt.gen <= d.gen /\ d.gen <= m.gen /\ d.ckpt.gen \in Nat
        BY <1>1, <1>3 DEF RecordInv
    <2>2. m.phase = "Cancelled" => m.prev # NoCkpt /\ m.prev.gen <= m.gen
        BY <1>3, <1>4, <1>5 DEF AtSource
    <2> QED BY <1>1, <1>2, <1>3, <2>1, <2>2, IsCkpt DEF Placed
<1>7. RecordInv(e)
    <2>1. e.gen # 0 /\ e.next = IF e.actor THEN e.gen ELSE e.gen + 1
        <3>1. e.gen # 0
            BY <1>1, <1>2, <1>3
        <3>2. m.phase # "Overtaken"
            BY DEF MigrationValid
        <3> QED BY <1>2, <1>3, <1>4, <3>1, <3>2 DEF Fit, Allocates, Phases
    <2>2. /\ e.has <=> e.actor
          /\ e.status \in {"Ready", "RecoveryRequired", "Migrating", "Migrated"}
          /\ e.status = "Ready" => e.actor
        BY <1>2, <1>3, <1>4 DEF Fit, Brings, MovesTo, Phases
    <2> QED BY <1>2, <1>6, <2>1, <2>2 DEF RecordInv, Saved
<1>8. Travels(e)
    <2>1. /\ BlocksExecution(m.phase) <=> Moving(e)
          /\ e.status = "Migrated" => m.phase = "Fenced"
          /\ e.status = "Migrating" => m.phase # "Fenced"
          /\ e.status # "Closed"
        BY <1>2, <1>3 DEF BlocksExecution, Moving, MovesTo, Phases
    <2>2. /\ m.phase \in {"Prepared", "Installed"} =>
               m.actor /\ e.ckpt = [gen |-> m.gen, c |-> m.plan.c]
          /\ BlocksExecution(m.phase) /\ m.phase \notin {"Prepared", "Installed"} => ~m.actor
          /\ m.phase = "Installing" => e.ckpt = m.prev
        BY <1>2, <1>4 DEF Fit, Placed, BlocksExecution
    <2>3. m.phase \in {"Activating", "ActivationFailed"} => e.ckpt.c = m.plan.c
        <3> SUFFICES ASSUME m.phase \in {"Activating", "ActivationFailed"}
                     PROVE  d.ckpt.c = m.plan.c
            BY <1>2 DEF Placed
        <3>1. d.status = "Migrating"
            BY <1>1
        <3>2. d.mig.phase \in {"Installed", "Activating", "ActivationFailed"}
            BY DEF MigrationValid
        <3> QED BY <1>1, <3>1, <3>2 DEF Travels, BlocksExecution
    <2>4. m.gen # 0
        BY <1>1, <1>3
    <2> QED BY <1>2, <1>4, <1>5, <1>6, <2>1, <2>2, <2>3, <2>4 DEF Travels
<1>9. Numbers(e)
    <2>1. d.gen < d.head /\ Allocates(m) \in {m.gen, m.gen + 1}
        BY <1>1 DEF Numbers, Allocates
    <2> QED BY <1>1, <1>2, <1>3, <1>6, <2>1 DEF Numbers, Allocates, Unfinished
<1>10. Homed(s, e)
    BY <1>1, <1>2 DEF Homed
<1>11. \A g \in Nat : Below(g, d) => Below(g, e)
    BY <1>1, <1>2, <1>3, <1>6 DEF Below
<1> QED BY <1>6, <1>7, <1>8, <1>9, <1>10, <1>11

-----------------------------------------------------------------------------
(***************************************************************************)
(* The invariant of the protocol.  A lineage named anywhere was born; a    *)
(* receipt outlives what it attests, but says what can never change: a     *)
(* fenced source stays fenced and its plan was installed and not aborted,  *)
(* and an installed destination waits until the plan is fenced or aborted. *)
(***************************************************************************)

\* The head a plan binds its transition to.
Since(m) == IF AtSource(m.phase) THEN m.plan.shead ELSE m.plan.dhead

\* By journals f, an actor of lineage l existed.
Born(f, l) == \E b \in Sessions : l[1] = b /\ Below(l[2], f[b])

\* Issued, by the receipts rs.
Attested(rs, phase, p) == \E r \in rs : r.m.phase = phase /\ r.m.plan = p

PlanInv(p) == p \in Plans /\ p.src # p.dst /\ Born(disk, p.c.lin)

MigInv(s) ==
    disk[s].mig # NoMig =>
       /\ disk[s].mig.plan \in plans /\ disk[s].head > Since(disk[s].mig)
       /\ BlocksExecution(disk[s].mig.phase) /\ ~AtSource(disk[s].mig.phase) =>
             Born(disk, disk[s].mig.prev.c.lin)
       /\ disk[s].mig.phase = "Prepared" => ~Attested(receipts, "Aborted", disk[s].mig.plan)
       /\ disk[s].mig.phase = "Installing" => ~Attested(receipts, "Installed", disk[s].mig.plan)
       /\ disk[s].mig.phase \in {"Activating", "ActivationFailed"} =>
             Attested(receipts, "Fenced", disk[s].mig.plan)

\* Session s is in phase ph of plan p.
In(s, ph, p) == disk[s].mig # NoMig /\ disk[s].mig.plan = p /\ disk[s].mig.phase = ph

ReceiptInv(r) ==
    /\ r.s \in Sessions /\ r.at \in Nat /\ r.m \in Transitions /\ r.m.plan \in plans
    /\ r.s = Home(r.m) /\ disk[r.s].head > Since(r.m)
    /\ r.m.phase = "Fenced" =>
          /\ In(r.s, "Fenced", r.m.plan)
          /\ Attested(receipts, "Installed", r.m.plan) /\ ~Attested(receipts, "Aborted", r.m.plan)
    /\ r.m.phase = "Installed" =>
          \/ Attested(receipts, "Fenced", r.m.plan) \/ Attested(receipts, "Aborted", r.m.plan)
          \/ In(r.s, "Installed", r.m.plan)

\* The phases whose receipts a request of action a has presented.
Needs(a) ==
    CASE a = "Fence" -> {"Installed"}
      [] a = "Activate" -> {"Fenced"}
      [] a = "Cancel" -> {"Aborted"}
      [] OTHER -> {}

RequestInv(s) ==
    prep[s].kind \in {"migrate", "install"} =>
       /\ "kind" \in DOMAIN prep[s] /\ "what" \in DOMAIN prep[s]
       /\ prep[s].what.p \in plans /\ prep[s].what.peer \in Peers /\ prep[s].what.a \in Actions
       /\ s = Endpoint(prep[s].what.p, prep[s].what.a)
       /\ \A phase \in Needs(prep[s].what.a) : Attested(receipts, phase, prep[s].what.p)

Lineages == \A s \in Sessions : disk[s].ckpt # NoCkpt => Born(disk, disk[s].ckpt.c.lin)

\* The state a session with journal d answers for (Held), by the receipts rs.
Answers(d, rs) ==
    IF d.status \in {"Closed", "Migrated"} THEN NoCkpt
    ELSE IF Standby(d) /\ ~Attested(rs, "Fenced", d.mig.plan) THEN d.mig.prev
    ELSE d.ckpt

Possessed(k) == IF k = NoCkpt THEN NoCkpt ELSE k.c

Owned(s) == Possessed(Answers(disk[s], receipts))

Distinct ==
    \A s, t \in Sessions :
      s # t /\ Owned(s) # NoCkpt /\ Owned(t) # NoCkpt => Owned(s).lin # Owned(t).lin

ProtocolInv ==
    /\ \A p \in plans : PlanInv(p)
    /\ \A s \in Sessions : MigInv(s)
    /\ \A r \in receipts : ReceiptInv(r)
    /\ \A s \in Sessions : RequestInv(s)
    /\ Lineages /\ Distinct

-----------------------------------------------------------------------------
(***************************************************************************)
(* The steps of a migration keep the sessions' invariant.                  *)
(***************************************************************************)

\* What session s is before a transition of its own.
Waits(s) ==
    /\ up[s] /\ stage[s] = "idle" /\ live[s].op = "none" /\ live[s].rec = None
    /\ live[s].status \in {"Ready", "Migrating"} /\ Agree(live[s], disk[s])

LEMMA Asked ==
    ASSUME HostedInv, ProtocolInv, NEW s \in Sessions, NEW a, Requested(s, a)
    PROVE  /\ Waits(s) /\ "kind" \in DOMAIN prep[s] /\ "what" \in DOMAIN prep[s]
           /\ prep[s].what.p \in plans /\ prep[s].what.p \in Plans
           /\ prep[s].what.peer \in Peers /\ prep[s].what.a = a
           /\ s = Endpoint(prep[s].what.p, a) /\ Admits(live[s], a, prep[s].what.p)
           /\ \A phase \in Needs(a) : Attested(receipts, phase, prep[s].what.p)
           /\ prep[s].kind = "migrate" /\ live[s].mig = disk[s].mig
<1>1. /\ up[s] /\ prep[s].kind = "migrate" /\ prep[s].what.a = a
      /\ Admits(live[s], a, prep[s].what.p)
    BY DEF Requested
<1>2. RequestInv(s) /\ \A p \in plans : p \in Plans
    BY DEF ProtocolInv, PlanInv
<1>3. /\ "kind" \in DOMAIN prep[s] /\ "what" \in DOMAIN prep[s]
      /\ prep[s].what.p \in plans /\ prep[s].what.peer \in Peers
      /\ s = Endpoint(prep[s].what.p, a)
      /\ \A phase \in Needs(a) : Attested(receipts, phase, prep[s].what.p)
    BY <1>1, <1>2 DEF RequestInv
<1>4. Agree(live[s], disk[s]) /\ stage[s] \in Stages(live[s].op) /\ Reserved(live[s], prep[s].kind)
    BY <1>1, Now DEF Consistent
<1>5. live[s].op = "none" /\ live[s].rec = None /\ live[s].status \in {"Ready", "Migrating"}
    BY <1>1, <1>4 DEF Reserved, Admits
<1>6. stage[s] = "idle"
    BY <1>4, <1>5 DEF Stages
<1> QED BY <1>1, <1>2, <1>3, <1>4, <1>5, <1>6 DEF Waits, Agree

LEMMA AskedToRestore ==
    ASSUME HostedInv, ProtocolInv, NEW s \in Sessions, RestorePending(s)
    PROVE  /\ Waits(s) /\ "kind" \in DOMAIN prep[s] /\ "what" \in DOMAIN prep[s]
           /\ prep[s].what.p \in plans /\ prep[s].what.p \in Plans
           /\ prep[s].what.peer \in Peers /\ live[s].mig = disk[s].mig
           /\ live[s].status = "Migrating" /\ live[s].mig.plan = prep[s].what.p
           /\ live[s].mig \in Transitions /\ live[s].mig.phase \in {"Installing", "Activating"}
<1>1. /\ up[s] /\ prep[s].kind = "install" /\ Unfinished(live[s].mig)
      /\ live[s].mig.plan = prep[s].what.p
    BY DEF RestorePending
<1>2. RequestInv(s) /\ \A p \in plans : p \in Plans
    BY DEF ProtocolInv, PlanInv
<1>3. /\ "kind" \in DOMAIN prep[s] /\ "what" \in DOMAIN prep[s]
      /\ prep[s].what.p \in plans /\ prep[s].what.peer \in Peers
    BY <1>1, <1>2 DEF RequestInv
<1>4. /\ Agree(live[s], disk[s]) /\ stage[s] \in Stages(live[s].op)
      /\ Reserved(live[s], prep[s].kind) /\ live[s] \in Records
    BY <1>1, Now DEF Consistent
<1>5. /\ live[s].mig.phase \in {"Installing", "Activating"} /\ live[s].mig = disk[s].mig
      /\ live[s].status = disk[s].status /\ live[s].op = disk[s].op
    BY <1>1, <1>4 DEF Unfinished, Agree
<1>6. live[s].status = "Migrating" /\ live[s].op = "none"
    BY <1>5, Also DEF Travels, BlocksExecution, Moving
<1>7. live[s].mig \in Transitions
    BY <1>4, <1>5 DEF Records, NoMig
<1>8. live[s].rec = None /\ stage[s] = "idle"
    BY <1>1, <1>4, <1>6 DEF Reserved, Stages
<1> QED BY <1>1, <1>2, <1>3, <1>4, <1>5, <1>6, <1>7, <1>8 DEF Waits

LEMMA TransitionType ==
    ASSUME HostedInv, NEW s \in Sessions, prep[s].what.p \in Plans, prep[s].what.peer \in Peers,
           NEW phase \in Phases, NEW g \in Nat, NEW actor \in BOOLEAN, NEW m,
           m = Transition(s, phase, g, actor),
           phase = "Installing" \/ AtSource(phase) \/ live[s].mig # NoMig
    PROVE  /\ m \in Transitions /\ m.plan = prep[s].what.p /\ m.phase = phase /\ m.gen = g
           /\ m.actor = actor
<1> DEFINE prev == CASE phase = "Installing" -> live[s].ckpt
                     [] AtSource(phase) -> NoCkpt
                     [] OTHER -> live[s].mig.prev
<1>1. m = [plan |-> prep[s].what.p, phase |-> phase, gen |-> g, actor |-> actor,
           peer |-> prep[s].what.peer, prev |-> prev]
    BY DEF Transition
<1>2. live[s].ckpt \in Checkpoints /\ (live[s].mig # NoMig => live[s].mig.prev \in Checkpoints)
    BY Now DEF Records, Transitions
<1>3. prev \in Checkpoints
    BY <1>2 DEF AtSource, Checkpoints
<1> HIDE DEF prev
<1> QED BY <1>1, <1>3 DEF Transitions

\* Memory and journal take the transition alike.
LEMMA Migrates ==
    ASSUME HostedInv, NEW s \in Sessions, Waits(s), NEW m \in Transitions, Fit(live[s], m),
           AppendMigration(s, m)
    PROVE  /\ live' = [live EXCEPT ![s] = live'[s]] /\ disk' = [disk EXCEPT ![s] = disk'[s]]
           /\ Landed(live[s], m, live'[s]) /\ Landed(disk[s], m, disk'[s])
           /\ MigrationValid(s, disk[s], m) /\ Fit(disk[s], m) /\ m.gen # 0
           /\ live'[s].gen = disk'[s].gen /\ Agree(live'[s], disk'[s])
           /\ live'[s].has = disk'[s].has /\ live'[s].actor = disk'[s].actor
<1> DEFINE e == [kind |-> "Migration", m |-> m]
           y == ApplyMigration(live[s], m)
           d == Replay(s, disk[s], e)
           r == [y EXCEPT !.head = live[s].head + 1]
<1>1. /\ live[s] \in Records /\ disk[s] \in Records /\ RecordInv(disk[s]) /\ Travels(disk[s])
      /\ Agree(live[s], disk[s])
    BY Now, Also DEF Consistent, Waits
<1>2. Fit(disk[s], m) /\ MigrationValid(s, live[s], m) /\ Commit(s, <<e>>, y)
    BY <1>1 DEF Fit, Agree, AppendMigration
<1>3. MigrationValid(s, disk[s], m)
    BY ZenonT(40), <1>1, <1>2 DEF Agree, MigrationValid
<1>4. m.gen # 0 /\ m.gen \in Nat
    <2>1. disk[s].gen # 0 /\ m.gen = IF Unfinished(m) THEN disk[s].gen + 1 ELSE disk[s].gen
        BY <1>1, <1>2, <1>3, Begins
    <2> QED BY <1>1, <2>1 DEF Records
<1>5. disk[s].status # "Closed" /\ live[s].head + 1 \in Nat
    BY <1>1 DEF Waits, Agree, Records
<1>6. Landed(disk[s], m, d)
    BY <1>1, <1>3, <1>4, <1>5, OnMigration DEF Landed
<1>7. Landed(live[s], m, r)
    <2>1. Is(y, MovesTo(m), m.gen, Allocates(m), m.actor, Brings(m), Placed(live[s], m),
             live[s].op, live[s].amb, live[s].rec, m, live[s].head)
        BY <1>1, <1>4, Applied
    <2> HIDE DEF y
    <2> QED BY <1>5, <2>1, Advanced DEF Landed
<1>8. disk' = [disk EXCEPT ![s] = d] /\ live' = [live EXCEPT ![s] = r]
    <2> HIDE DEF e, y
    <2> QED BY <1>2, CommitsOne
<1>9. disk'[s] = d /\ live'[s] = r
    BY <1>8 DEF HostedInv, Types
<1> HIDE DEF d, r, e, y
<1>10. Placed(live[s], m) = Placed(disk[s], m)
    BY <1>1 DEF Agree, Placed
<1>11. Agree(r, d) /\ r.has = d.has /\ r.actor = d.actor
    BY <1>1, <1>6, <1>7, <1>10 DEF Landed, Is, Agree
<1>12. r.gen = d.gen
    BY <1>11 DEF Agree
<1> QED BY <1>2, <1>3, <1>4, <1>6, <1>7, <1>8, <1>9, <1>11, <1>12

LEMMA MigratesHosted ==
    ASSUME HostedInv, NEW s \in Sessions, Waits(s), NEW m \in Transitions, Fit(live[s], m),
           AppendMigration(s, m), UNCHANGED <<up, stage>>,
           NEW p, NEW w \in Workers, NEW n \in Nat, prep' = [prep EXCEPT ![s] = p],
           worker' = [worker EXCEPT ![s] = w], retired' = [retired EXCEPT ![s] = n],
           p.kind = IF Unfinished(m) THEN "install" ELSE "none",
           n <= m.gen,
           Spawned(w) => Unfinished(m) /\ n < m.gen /\ w.gen = m.gen /\ w.c = m.plan.c,
           Alive(w) => /\ ~Unfinished(m) /\ n < m.gen /\ w.gen = m.gen
                       /\ w.c = Placed(live[s], m).c
    PROVE  HostedInv'
<1> DEFINE r == live'[s]
           d == disk'[s]
<1>1. /\ live' = [live EXCEPT ![s] = r] /\ disk' = [disk EXCEPT ![s] = d]
      /\ Landed(live[s], m, r) /\ Landed(disk[s], m, d)
      /\ MigrationValid(s, disk[s], m) /\ Fit(disk[s], m) /\ m.gen # 0
      /\ Agree(r, d) /\ r.has = d.has
    BY Migrates
<1>2. /\ disk[s] \in Records /\ RecordInv(disk[s]) /\ Travels(disk[s]) /\ Numbers(disk[s])
      /\ disk[s].op = "none" /\ disk[s].rec = None
    BY Now, Also DEF Consistent, Waits, Agree
<1> HIDE DEF r, d
<1>3. RecordInv(d) /\ Travels(d) /\ Numbers(d) /\ Homed(s, d)
    BY <1>1, <1>2, Lands
<1>4. /\ d \in Records /\ r \in Records /\ d.gen = m.gen /\ d.rec = None /\ d.mig = m
      /\ r.status = MovesTo(m) /\ r.gen = m.gen /\ r.has = Brings(m) /\ r.ckpt = Placed(live[s], m)
      /\ r.op = "none" /\ r.rec = None /\ r.mig = m
    BY <1>1, <1>2 DEF Landed, Is, Waits
<1>5. Fresh(d, n)
    BY <1>1, <1>4 DEF Fresh
<1>6. Alive(w) => WorkerInv(r, w, "idle", n)
    <2>1. r.status = "Ready" => r.has
        BY <1>4 DEF MovesTo, Brings
    <2> QED BY <1>1, <1>4, <2>1 DEF WorkerInv
<1>7. up[s] /\ stage[s] = "idle"
    BY DEF Waits
<1>8. Consistent(r, d, TRUE, p, w, "idle", n)
    <2>1. r.status # "Executing" /\ r.status # "Closed"
        BY <1>4 DEF MovesTo
    <2>2. Reserved(r, p.kind)
        BY <1>4 DEF Reserved
    <2> QED BY <1>1, <1>3, <1>4, <1>5, <1>6, <2>1, <2>2 DEF Consistent, Stages
<1>9. Moves(s, r, d, TRUE, p, w, "idle", n)
    BY <1>1, <1>7, Same DEF Moves
<1>10. ~Spawned(w) \/ Restores(r, w, n)
    BY <1>4 DEF Restores
<1> QED BY <1>3, <1>4, <1>8, <1>9, <1>10, FramedAlone

\* The evaluator of a session that takes a transition is at its checkpoint.
LEMMA Standing ==
    ASSUME HostedInv, NEW s \in Sessions, Waits(s), live[s].ckpt # NoCkpt
    PROVE  /\ live[s].gen \in Nat \ {0} /\ Gone(worker[s], retired[s]) \in Nat
           /\ Gone(worker[s], retired[s]) <= live[s].gen /\ retired[s] <= live[s].gen
           /\ Unfinished(live[s].mig) => ~Alive(worker[s])
           /\ ~Unfinished(live[s].mig) => ~Spawned(worker[s])
           /\ Spawned(worker[s]) => /\ worker[s].gen = live[s].gen /\ retired[s] < live[s].gen
                                    /\ worker[s].c = live[s].mig.plan.c
           /\ Alive(worker[s]) => /\ worker[s].gen = live[s].gen /\ retired[s] < live[s].gen
                                  /\ worker[s].c = live[s].ckpt.c
<1>1. /\ live[s] \in Records /\ Agree(live[s], disk[s]) /\ RecordInv(disk[s])
      /\ Fresh(disk[s], retired[s]) /\ retired[s] \in Nat /\ worker[s] \in Workers
      /\ Gone(worker[s], retired[s]) \in Nat
      /\ Alive(worker[s]) => WorkerInv(live[s], worker[s], "idle", retired[s])
      /\ live[s].status # "Migrating" => live[s].has = disk[s].has
    BY Now DEF Consistent, Waits
<1>2. live[s].gen \in Nat \ {0}
    BY <1>1 DEF RecordInv, Agree, Records
<1>3. retired[s] <= live[s].gen
    BY <1>1, <1>2 DEF Fresh, Agree
<1>4. ASSUME Alive(worker[s])
      PROVE  /\ worker[s].gen = live[s].gen /\ retired[s] < live[s].gen
             /\ worker[s].c = live[s].ckpt.c /\ ~Unfinished(live[s].mig)
    <2>1. WorkerInv(live[s], worker[s], "idle", retired[s])
        BY <1>1, <1>4
    <2>2. live[s].status = "Ready" => live[s].has
        BY <1>1 DEF RecordInv, Agree, Saved
    <2>3. worker[s].c = live[s].ckpt.c
        BY <2>1, <2>2 DEF WorkerInv, Waits
    <2>4. live[s].ckpt.c \in States
        BY <1>1 DEF Records, Checkpoints
    <2>5. worker[s].c # Blank
        BY <2>3, <2>4, TouchedKeeps
    <2> QED BY <1>2, <2>1, <2>3, <2>5 DEF WorkerInv
<1>5. Spawned(worker[s]) => /\ worker[s].gen = live[s].gen /\ retired[s] < live[s].gen
                            /\ Unfinished(live[s].mig) /\ worker[s].c = live[s].mig.plan.c
    BY Also DEF Restores, Waits
<1>6. Gone(worker[s], retired[s]) <= live[s].gen
    BY <1>2, <1>3, <1>4, <1>5, NotSpawned DEF Gone
<1> QED BY <1>1, <1>2, <1>3, <1>4, <1>5, <1>6

\* Session s appends transition m, the receipts it takes having been presented.
Took(s, m) ==
    /\ Waits(s) /\ Fit(live[s], m) /\ AppendMigration(s, m) /\ plans' = plans
    /\ m.plan \in plans
    /\ \A t \in Sessions \ {s} : prep'[t] = prep[t]
    /\ \/ prep'[s].kind = "none"
       \/ prep[s].kind = "migrate" /\ prep'[s] = [prep[s] EXCEPT !.kind = "install"]
    /\ m.phase = "Fenced" => Attested(receipts, "Installed", m.plan)
    /\ m.phase \in {"Activating", "Activated", "ActivationFailed"} =>
          Attested(receipts, "Fenced", m.plan)
    /\ m.phase = "Cancelled" => Attested(receipts, "Aborted", m.plan)

\* The reservation is given back.
LEMMA Releases ==
    ASSUME HostedInv, NEW s \in Sessions, Release(s)
    PROVE  /\ prep' = [prep EXCEPT ![s] = None] /\ None.kind = "none" /\ prep'[s].kind = "none"
           /\ \A t \in Sessions \ {s} : prep'[t] = prep[t]
<1>1. prep' = [prep EXCEPT ![s] = None] /\ None.kind = "none"
    BY DEF Release, None
<1> QED BY <1>1 DEF HostedInv, Types

\* The reservation goes on while the snapshot is restored.
LEMMA GoesOn ==
    ASSUME HostedInv, NEW s \in Sessions, "kind" \in DOMAIN prep[s],
           prep' = [prep EXCEPT ![s].kind = "install"]
    PROVE  LET p == [prep[s] EXCEPT !.kind = "install"]
           IN /\ prep' = [prep EXCEPT ![s] = p] /\ p.kind = "install" /\ prep'[s] = p
              /\ \A t \in Sessions \ {s} : prep'[t] = prep[t]
<1> DEFINE p == [prep[s] EXCEPT !.kind = "install"]
<1>1. prep' = [prep EXCEPT ![s] = p] /\ p.kind = "install"
    OBVIOUS
<1> HIDE DEF p
<1>2. prep'[s] = p /\ \A t \in Sessions \ {s} : prep'[t] = prep[t]
    BY <1>1 DEF HostedInv, Types
<1> QED BY <1>1, <1>2 DEF p

\* An endpoint of a migration under way has a checkpoint.
LEMMA Placing ==
    ASSUME HostedInv, NEW s \in Sessions, Waits(s), BlocksExecution(live[s].mig.phase)
    PROVE  /\ live[s].ckpt # NoCkpt /\ live[s].mig.gen = live[s].gen
           /\ live[s].mig \in Transitions /\ live[s].status = "Migrating"
<1>1. Travels(disk[s]) /\ Agree(live[s], disk[s]) /\ live[s] \in Records
    BY Also, Now DEF Waits
<1>2. live[s].mig = disk[s].mig /\ live[s].ckpt = disk[s].ckpt /\ live[s].gen = disk[s].gen
    BY <1>1 DEF Agree
<1>3. live[s].status = "Migrating" /\ live[s].mig.gen = live[s].gen
    BY <1>1, <1>2 DEF Travels, Waits, Agree, Moving
<1>4. live[s].mig.phase \in {"Prepared", "Installed"} => live[s].ckpt # NoCkpt
    BY <1>1, <1>2, IsCkpt DEF Travels, BlocksExecution
<1>5. live[s].mig.phase \notin {"Prepared", "Installed"} => live[s].ckpt # NoCkpt
    BY <1>1, <1>2, <1>3 DEF Travels, BlocksExecution, AtSource, Agree
<1>6. live[s].mig \in Transitions
    BY <1>1 DEF Records, BlocksExecution, NoMig
<1> QED BY <1>3, <1>4, <1>5, <1>6

LEMMA PrepareTakes ==
    ASSUME HostedInv, ProtocolInv, NEW s \in Sessions, Prepare(s)
    PROVE  HostedInv' /\ \E m \in Transitions : Took(s, m)
<1> DEFINE a == TRUE
           m == Transition(s, "Prepared", live[s].gen, a)
           p == prep[s].what.p
<1>1. /\ Waits(s) /\ p \in plans /\ p \in Plans /\ prep[s].what.peer \in Peers
      /\ live[s].ckpt # NoCkpt /\ live[s].ckpt.c = p.c
    BY Asked DEF Prepare, Admits
<1>2. /\ live[s].gen \in Nat \ {0} /\ retired[s] <= live[s].gen /\ retired[s] \in Nat
      /\ worker[s] \in Workers
      /\ Alive(worker[s]) => /\ worker[s].gen = live[s].gen /\ retired[s] < live[s].gen
                             /\ worker[s].c = live[s].ckpt.c
    BY <1>1, Standing, Now
<1>3. m \in Transitions /\ m.plan = p /\ m.phase = "Prepared" /\ m.gen = live[s].gen /\ m.actor = a
    <2>1. "Prepared" \in Phases /\ AtSource("Prepared")
        BY DEF AtSource, Phases
    <2>2. m = Transition(s, "Prepared", live[s].gen, a) /\ live[s].gen \in Nat /\ a \in BOOLEAN
        BY <1>2
    <2> HIDE DEF m, a
    <2> QED BY <1>1, <2>1, <2>2, TransitionType
<1>4. AppendMigration(s, m) /\ Release(s) /\ UNCHANGED <<up, worker, retired, stage, plans>>
    BY DEF Prepare
<1> HIDE DEF m, p
<1>5. ~Unfinished(m) /\ Fit(live[s], m) /\ Placed(live[s], m).c = live[s].ckpt.c
    BY <1>1, <1>3 DEF Unfinished, Fit, Placed
<1>6. HostedInv'
    <2>0. ~Spawned(worker[s])
        BY NotSpawned DEF Prepare
    <2>1. /\ prep' = [prep EXCEPT ![s] = None] /\ worker' = [worker EXCEPT ![s] = worker[s]]
          /\ retired' = [retired EXCEPT ![s] = retired[s]]
          /\ None.kind = IF Unfinished(m) THEN "install" ELSE "none"
        BY <1>4, <1>5, Releases, Same
    <2>2. /\ retired[s] <= m.gen
          /\ Alive(worker[s]) => /\ ~Unfinished(m) /\ retired[s] < m.gen /\ worker[s].gen = m.gen
                                 /\ worker[s].c = Placed(live[s], m).c
        BY <1>2, <1>3, <1>5
    <2> QED BY <1>1, <1>2, <1>3, <1>4, <1>5, <2>0, <2>1, <2>2, MigratesHosted
<1>7. Took(s, m)
    BY <1>1, <1>3, <1>4, <1>5, Releases DEF Took
<1> QED BY <1>3, <1>6, <1>7

LEMMA InstallTakes ==
    ASSUME HostedInv, ProtocolInv, NEW s \in Sessions, Install(s)
    PROVE  HostedInv' /\ \E m \in Transitions : Took(s, m)
<1> DEFINE a == FALSE
           m == Transition(s, "Installing", live[s].gen + 1, a)
           p == prep[s].what.p
           n == Gone(worker[s], retired[s])
           q == [prep[s] EXCEPT !.kind = "install"]
           w == Restoring(p.c, live[s].gen + 1)
<1>1. /\ Waits(s) /\ p \in plans /\ p \in Plans /\ prep[s].what.peer \in Peers
      /\ "kind" \in DOMAIN prep[s] /\ prep[s].kind = "migrate"
    BY Asked DEF Install
<1>2. live[s].gen + 1 \in Nat
    BY Now DEF Records
<1>3. /\ m \in Transitions /\ m.plan = p /\ m.phase = "Installing" /\ m.gen = live[s].gen + 1
      /\ m.actor = a
    <2>1. "Installing" \in Phases
        BY DEF Phases
    <2>2. m = Transition(s, "Installing", live[s].gen + 1, a) /\ live[s].gen + 1 \in Nat /\ a \in BOOLEAN
        BY <1>2
    <2> HIDE DEF m, a
    <2> QED BY <1>1, <2>1, <2>2, TransitionType
<1>4. /\ AppendMigration(s, m) /\ Discard(s, w) /\ UNCHANGED <<up, stage, plans>>
      /\ prep' = [prep EXCEPT ![s].kind = "install"]
    BY DEF Install, SpawnRestore
<1>5. /\ prep' = [prep EXCEPT ![s] = q] /\ q.kind = "install" /\ prep'[s] = q
      /\ \A t \in Sessions \ {s} : prep'[t] = prep[t]
    BY <1>1, <1>4, GoesOn
<1>6. live[s].ckpt # NoCkpt
    BY <1>3, <1>4 DEF AppendMigration, MigrationValid, AtSource
<1>7. n \in Nat /\ n <= live[s].gen /\ live[s].gen \in Nat
    BY <1>1, <1>6, Standing
<1>8. /\ worker' = [worker EXCEPT ![s] = w] /\ retired' = [retired EXCEPT ![s] = n]
      /\ w \in Workers /\ ~Alive(w) /\ w.gen = m.gen /\ w.c = m.plan.c
    <2>1. p.c \in States
        BY <1>1 DEF Plans
    <2>2. worker' = [worker EXCEPT ![s] = w] /\ retired' = [retired EXCEPT ![s] = n]
        BY <1>4 DEF Discard, Gone
    <2>3. w \in Workers /\ ~Alive(w) /\ w.gen = live[s].gen + 1 /\ w.c = p.c
        BY <1>2, <2>1 DEF Restoring, Workers, Alive
    <2> HIDE DEF m, w, p, n
    <2> QED BY <1>3, <2>2, <2>3
<1> HIDE DEF m, p, n, q, w
<1>9. Unfinished(m) /\ Fit(live[s], m)
    BY <1>3 DEF Unfinished, Fit
<1>10. HostedInv'
    <2>1. n < m.gen /\ n <= m.gen /\ q.kind = IF Unfinished(m) THEN "install" ELSE "none"
        BY <1>3, <1>5, <1>7, <1>9
    <2> QED BY <1>1, <1>3, <1>4, <1>5, <1>7, <1>8, <1>9, <2>1, MigratesHosted
<1>11. Took(s, m)
    BY <1>1, <1>3, <1>4, <1>5, <1>9 DEF Took, q
<1> QED BY <1>3, <1>10, <1>11

LEMMA FenceTakes ==
    ASSUME HostedInv, ProtocolInv, NEW s \in Sessions, Fence(s)
    PROVE  HostedInv' /\ \E m \in Transitions : Took(s, m)
<1> DEFINE a == FALSE
           m == Transition(s, "Fenced", live[s].mig.gen, a)
           p == prep[s].what.p
           n == Gone(worker[s], retired[s])
<1>1. /\ Waits(s) /\ p \in plans /\ p \in Plans /\ prep[s].what.peer \in Peers
      /\ live[s].mig # NoMig /\ live[s].mig.phase = "Prepared" /\ live[s].mig = disk[s].mig
      /\ Attested(receipts, "Installed", p)
    BY Asked DEF Fence, Admits, Needs
<1>2. live[s].mig.gen \in Nat
    BY <1>1, Now DEF Records, Transitions
<1>3. /\ m \in Transitions /\ m.plan = p /\ m.phase = "Fenced" /\ m.gen = live[s].mig.gen
      /\ m.actor = a
    <2>1. "Fenced" \in Phases
        BY DEF Phases
    <2>2. m = Transition(s, "Fenced", live[s].mig.gen, a) /\ live[s].mig.gen \in Nat /\ a \in BOOLEAN
        BY <1>2
    <2> HIDE DEF m, a
    <2> QED BY <1>1, <2>1, <2>2, TransitionType
<1>4. AppendMigration(s, m) /\ Discard(s, NoWorker) /\ Release(s) /\ UNCHANGED <<up, stage, plans>>
    BY DEF Fence
<1>5. live[s].ckpt # NoCkpt /\ live[s].mig.gen = live[s].gen
    BY <1>1, Placing DEF BlocksExecution
<1>6. n \in Nat /\ n <= live[s].gen /\ live[s].gen \in Nat
    BY <1>1, <1>5, Standing
<1>7. /\ worker' = [worker EXCEPT ![s] = NoWorker] /\ retired' = [retired EXCEPT ![s] = n]
      /\ NoWorker \in Workers /\ ~Alive(NoWorker) /\ ~Spawned(NoWorker)
    BY <1>4, NotSpawned DEF Discard, Gone, Workers
<1> HIDE DEF m, p, n
<1>8. ~Unfinished(m) /\ Fit(live[s], m)
    BY <1>3 DEF Unfinished, Fit
<1>9. HostedInv'
    <2>1. /\ n <= m.gen /\ prep' = [prep EXCEPT ![s] = None]
          /\ None.kind = IF Unfinished(m) THEN "install" ELSE "none"
        BY <1>3, <1>4, <1>5, <1>6, <1>8, Releases
    <2> QED BY <1>1, <1>3, <1>4, <1>6, <1>7, <1>8, <2>1, MigratesHosted
<1>10. Took(s, m)
    BY <1>1, <1>3, <1>4, <1>8, Releases DEF Took
<1> QED BY <1>3, <1>9, <1>10

LEMMA CancelTakes ==
    ASSUME HostedInv, ProtocolInv, NEW s \in Sessions, Cancel(s)
    PROVE  HostedInv' /\ \E m \in Transitions : Took(s, m)
<1> DEFINE a == FALSE
           m == Transition(s, "Cancelled", live[s].mig.gen, a)
           p == prep[s].what.p
           n == Gone(worker[s], retired[s])
<1>1. /\ Waits(s) /\ p \in plans /\ p \in Plans /\ prep[s].what.peer \in Peers
      /\ live[s].mig # NoMig /\ live[s].mig.phase \in {"Installed", "ActivationFailed"}
      /\ live[s].mig = disk[s].mig /\ Attested(receipts, "Aborted", p)
    BY Asked DEF Cancel, Admits, Needs
<1>2. live[s].mig.gen \in Nat
    BY <1>1, Now DEF Records, Transitions
<1>3. /\ m \in Transitions /\ m.plan = p /\ m.phase = "Cancelled" /\ m.gen = live[s].mig.gen
      /\ m.actor = a
    <2>1. "Cancelled" \in Phases
        BY DEF Phases
    <2>2. m = Transition(s, "Cancelled", live[s].mig.gen, a) /\ live[s].mig.gen \in Nat /\ a \in BOOLEAN
        BY <1>2
    <2> HIDE DEF m, a
    <2> QED BY <1>1, <2>1, <2>2, TransitionType
<1>4. AppendMigration(s, m) /\ Discard(s, NoWorker) /\ Release(s) /\ UNCHANGED <<up, stage, plans>>
    BY DEF Cancel
<1>5. live[s].ckpt # NoCkpt /\ live[s].mig.gen = live[s].gen
    BY <1>1, Placing DEF BlocksExecution
<1>6. n \in Nat /\ n <= live[s].gen /\ live[s].gen \in Nat
    BY <1>1, <1>5, Standing
<1>7. /\ worker' = [worker EXCEPT ![s] = NoWorker] /\ retired' = [retired EXCEPT ![s] = n]
      /\ NoWorker \in Workers /\ ~Alive(NoWorker) /\ ~Spawned(NoWorker)
    BY <1>4, NotSpawned DEF Discard, Gone, Workers
<1> HIDE DEF m, p, n
<1>8. ~Unfinished(m) /\ Fit(live[s], m)
    BY <1>3 DEF Unfinished, Fit
<1>9. HostedInv'
    <2>1. /\ n <= m.gen /\ prep' = [prep EXCEPT ![s] = None]
          /\ None.kind = IF Unfinished(m) THEN "install" ELSE "none"
        BY <1>3, <1>4, <1>5, <1>6, <1>8, Releases
    <2> QED BY <1>1, <1>3, <1>4, <1>6, <1>7, <1>8, <2>1, MigratesHosted
<1>10. Took(s, m)
    BY <1>1, <1>3, <1>4, <1>8, Releases DEF Took
<1> QED BY <1>3, <1>9, <1>10

LEMMA ActivateTakes ==
    ASSUME HostedInv, ProtocolInv, NEW s \in Sessions, Activate(s)
    PROVE  HostedInv' /\ \E m \in Transitions : Took(s, m)
<1> DEFINE a == live[s].mig.actor
           m == Transition(s, "Activated", live[s].mig.gen, a)
           p == prep[s].what.p
<1>1. /\ Waits(s) /\ p \in plans /\ p \in Plans /\ prep[s].what.peer \in Peers
      /\ live[s].mig # NoMig /\ live[s].mig.phase \in {"Installed", "ActivationFailed"}
      /\ live[s].mig = disk[s].mig /\ live[s].mig.plan = p /\ Attested(receipts, "Fenced", p)
    BY Asked DEF Activate, Admits, Needs
<1>2. /\ live[s].ckpt # NoCkpt /\ live[s].mig.gen = live[s].gen /\ live[s].mig \in Transitions
      /\ live[s].status = "Migrating"
    BY <1>1, Placing DEF BlocksExecution
<1>3. /\ m \in Transitions /\ m.plan = p /\ m.phase = "Activated" /\ m.gen = live[s].gen
      /\ m.actor = a
    <2>1. "Activated" \in Phases
        BY DEF Phases
    <2>2. /\ m = Transition(s, "Activated", live[s].mig.gen, a) /\ live[s].mig.gen \in Nat
          /\ a \in BOOLEAN
        BY <1>2 DEF Transitions
    <2> HIDE DEF m, a
    <2> QED BY <1>1, <1>2, <2>1, <2>2, TransitionType
<1>4. AppendMigration(s, m) /\ Release(s) /\ UNCHANGED <<up, worker, retired, stage, plans>>
    BY DEF Activate
<1>5. /\ live[s].gen \in Nat \ {0} /\ retired[s] <= live[s].gen /\ retired[s] \in Nat
      /\ worker[s] \in Workers
      /\ Alive(worker[s]) => /\ worker[s].gen = live[s].gen /\ retired[s] < live[s].gen
                             /\ worker[s].c = live[s].ckpt.c
      /\ ~Unfinished(live[s].mig) => ~Spawned(worker[s])
    BY <1>1, <1>2, Standing, Now
<1> HIDE DEF m, p, a
<1>6. live[s].mig.phase = "Installed"
    BY <1>1, <1>3, <1>4 DEF AppendMigration, MigrationValid
<1>7. live[s].ckpt.c = p.c
    <2>1. disk[s].ckpt = [gen |-> disk[s].gen, c |-> disk[s].mig.plan.c]
        BY <1>1, <1>6, Also DEF Travels, BlocksExecution
    <2> QED BY <1>1, <2>1 DEF Waits, Agree
<1>8. ~Unfinished(m) /\ Fit(live[s], m) /\ Placed(live[s], m).c = live[s].ckpt.c
    BY <1>3, <1>7 DEF Unfinished, Fit, Placed
<1>9. HostedInv'
    <2>0. ~Spawned(worker[s])
        BY <1>1, <1>5 DEF Unfinished
    <2>1. /\ prep' = [prep EXCEPT ![s] = None] /\ worker' = [worker EXCEPT ![s] = worker[s]]
          /\ retired' = [retired EXCEPT ![s] = retired[s]]
          /\ None.kind = IF Unfinished(m) THEN "install" ELSE "none"
        BY <1>4, <1>8, Releases, Same
    <2>2. /\ retired[s] <= m.gen
          /\ Alive(worker[s]) => /\ ~Unfinished(m) /\ retired[s] < m.gen /\ worker[s].gen = m.gen
                                 /\ worker[s].c = Placed(live[s], m).c
        BY <1>3, <1>5, <1>8
    <2> QED BY <1>1, <1>3, <1>4, <1>5, <1>8, <2>0, <2>1, <2>2, MigratesHosted
<1>10. Took(s, m)
    BY <1>1, <1>3, <1>4, <1>8, Releases DEF Took
<1> QED BY <1>3, <1>9, <1>10

LEMMA ReactivateTakes ==
    ASSUME HostedInv, ProtocolInv, NEW s \in Sessions, Reactivate(s)
    PROVE  HostedInv' /\ \E m \in Transitions : Took(s, m)
<1> DEFINE a == FALSE
           m == Transition(s, "Activating", live[s].mig.gen + 1, a)
           p == prep[s].what.p
           q == [prep[s] EXCEPT !.kind = "install"]
           w == Restoring(p.c, live[s].mig.gen + 1)
<1>1. /\ Waits(s) /\ p \in plans /\ p \in Plans /\ prep[s].what.peer \in Peers
      /\ live[s].mig # NoMig /\ live[s].mig.phase \in {"Installed", "ActivationFailed"}
      /\ live[s].mig.plan = p /\ Attested(receipts, "Fenced", p)
      /\ "kind" \in DOMAIN prep[s] /\ prep[s].kind = "migrate"
    BY Asked DEF Reactivate, Admits, Needs
<1>2. live[s].ckpt # NoCkpt /\ live[s].mig.gen = live[s].gen /\ live[s].mig \in Transitions
    BY <1>1, Placing DEF BlocksExecution
<1>3. /\ m \in Transitions /\ m.plan = p /\ m.phase = "Activating" /\ m.gen = live[s].gen + 1
      /\ m.actor = a
    <2>1. "Activating" \in Phases
        BY DEF Phases
    <2>2. /\ m = Transition(s, "Activating", live[s].mig.gen + 1, a)
          /\ live[s].mig.gen + 1 \in Nat /\ a \in BOOLEAN
        BY <1>2 DEF Transitions
    <2> HIDE DEF m, a
    <2> QED BY <1>1, <1>2, <2>1, <2>2, TransitionType
<1>4. /\ AppendMigration(s, m) /\ UNCHANGED <<up, stage, plans>> /\ Discard(s, w)
      /\ prep' = [prep EXCEPT ![s].kind = "install"] /\ worker[s] = NoWorker
    BY DEF Reactivate, SpawnRestore
<1>5. /\ prep' = [prep EXCEPT ![s] = q] /\ q.kind = "install" /\ prep'[s] = q
      /\ \A t \in Sessions \ {s} : prep'[t] = prep[t]
    BY <1>1, <1>4, GoesOn
<1>6. live[s].gen \in Nat \ {0} /\ retired[s] <= live[s].gen /\ retired[s] \in Nat
    BY <1>1, <1>2, Standing, Now
<1>10. /\ worker' = [worker EXCEPT ![s] = w] /\ retired' = [retired EXCEPT ![s] = retired[s]]
       /\ w \in Workers /\ ~Alive(w) /\ w.gen = m.gen /\ w.c = m.plan.c
    <2>1. p.c \in States
        BY <1>1 DEF Plans
    <2>2. worker' = [worker EXCEPT ![s] = w] /\ retired' = [retired EXCEPT ![s] = retired[s]]
        BY <1>4, NotSpawned, Same DEF Discard
    <2>3. w \in Workers /\ ~Alive(w) /\ w.gen = live[s].gen + 1 /\ w.c = p.c
        BY <1>2, <1>6, <2>1 DEF Restoring, Workers, Alive
    <2> HIDE DEF m, w, p
    <2> QED BY <1>3, <2>2, <2>3
<1> HIDE DEF m, p, q, w
<1>7. Unfinished(m) /\ Fit(live[s], m)
    BY <1>3 DEF Unfinished, Fit
<1>8. HostedInv'
    <2>1. q.kind = IF Unfinished(m) THEN "install" ELSE "none"
        BY <1>5, <1>7
    <2>2. retired[s] <= m.gen /\ retired[s] < m.gen
        BY <1>3, <1>6
    <2>3. /\ AppendMigration(s, m) /\ UNCHANGED <<up, stage>> /\ m \in Transitions /\ Waits(s)
          /\ prep' = [prep EXCEPT ![s] = q] /\ retired[s] \in Nat
        BY <1>1, <1>3, <1>4, <1>5, <1>6
    <2> QED BY <1>7, <1>10, <2>1, <2>2, <2>3, MigratesHosted
<1>9. Took(s, m)
    BY <1>1, <1>3, <1>4, <1>5, <1>7 DEF Took, q
<1> QED BY <1>3, <1>8, <1>9

LEMMA AbortTakes ==
    ASSUME HostedInv, ProtocolInv, NEW s \in Sessions, Abort(s)
    PROVE  HostedInv' /\ \E m \in Transitions : Took(s, m)
<1> DEFINE a == worker[s] # NoWorker /\ live[s].actor
           m == Transition(s, "Aborted", live[s].mig.gen, a)
           p == prep[s].what.p
<1>1. /\ Waits(s) /\ p \in plans /\ p \in Plans /\ prep[s].what.peer \in Peers
      /\ live[s].mig # NoMig /\ live[s].mig.phase = "Prepared"
    BY Asked DEF Abort, Admits
<1>2. live[s].ckpt # NoCkpt /\ live[s].mig.gen = live[s].gen /\ live[s].mig \in Transitions
    BY <1>1, Placing DEF BlocksExecution
<1>3. /\ m \in Transitions /\ m.plan = p /\ m.phase = "Aborted" /\ m.gen = live[s].gen
      /\ m.actor = a
    <2>1. "Aborted" \in Phases
        BY DEF Phases
    <2>2. /\ m = Transition(s, "Aborted", live[s].mig.gen, a) /\ live[s].mig.gen \in Nat
          /\ a \in BOOLEAN
        BY <1>2 DEF Transitions
    <2> HIDE DEF m, a
    <2> QED BY <1>1, <1>2, <2>1, <2>2, TransitionType
<1>4. AppendMigration(s, m) /\ Release(s) /\ UNCHANGED <<up, worker, retired, stage, plans>>
    BY DEF Abort
<1>5. /\ live[s].gen \in Nat \ {0} /\ retired[s] <= live[s].gen /\ retired[s] \in Nat
      /\ worker[s] \in Workers
      /\ Alive(worker[s]) => /\ worker[s].gen = live[s].gen /\ retired[s] < live[s].gen
                             /\ worker[s].c = live[s].ckpt.c
      /\ ~Unfinished(live[s].mig) => ~Spawned(worker[s])
    BY <1>1, <1>2, Standing, Now
<1> HIDE DEF m, p, a
<1>6. ~Unfinished(m) /\ Fit(live[s], m) /\ Placed(live[s], m).c = live[s].ckpt.c
    BY <1>3 DEF Unfinished, Fit, Placed
<1>7. HostedInv'
    <2>0. ~Spawned(worker[s])
        BY <1>1, <1>5 DEF Unfinished
    <2>1. /\ prep' = [prep EXCEPT ![s] = None] /\ worker' = [worker EXCEPT ![s] = worker[s]]
          /\ retired' = [retired EXCEPT ![s] = retired[s]]
          /\ None.kind = IF Unfinished(m) THEN "install" ELSE "none"
        BY <1>4, <1>6, Releases, Same
    <2>2. /\ retired[s] <= m.gen
          /\ Alive(worker[s]) => /\ ~Unfinished(m) /\ retired[s] < m.gen /\ worker[s].gen = m.gen
                                 /\ worker[s].c = Placed(live[s], m).c
        BY <1>3, <1>5, <1>6
    <2> QED BY <1>1, <1>3, <1>4, <1>5, <1>6, <2>0, <2>1, <2>2, MigratesHosted
<1>8. Took(s, m)
    BY <1>1, <1>3, <1>4, <1>6, Releases DEF Took
<1> QED BY <1>3, <1>7, <1>8

\* A restore that is under way for a plan that was fenced if it reactivates.
LEMMA Awaits ==
    ASSUME HostedInv, ProtocolInv, NEW s \in Sessions, RestorePending(s)
    PROVE  /\ live[s].ckpt # NoCkpt /\ live[s].mig.gen = live[s].gen
           /\ live[s].gen \in Nat \ {0} /\ retired[s] \in Nat
           /\ Gone(worker[s], retired[s]) \in Nat /\ Gone(worker[s], retired[s]) <= live[s].gen
           /\ Spawned(worker[s]) => /\ worker[s].gen = live[s].gen /\ retired[s] < live[s].gen
                                    /\ worker[s].c = prep[s].what.p.c
           /\ live[s].mig.phase = "Activating" =>
                 Attested(receipts, "Fenced", prep[s].what.p) /\ live[s].ckpt.c = prep[s].what.p.c
<1>1. /\ Waits(s) /\ live[s].mig = disk[s].mig /\ live[s].mig.plan = prep[s].what.p
      /\ live[s].mig.phase \in {"Installing", "Activating"} /\ live[s].mig \in Transitions
    BY AskedToRestore
<1>2. live[s].ckpt # NoCkpt /\ live[s].mig.gen = live[s].gen
    BY <1>1, Placing DEF BlocksExecution
<1>3. /\ live[s].gen \in Nat \ {0} /\ retired[s] \in Nat
      /\ Gone(worker[s], retired[s]) \in Nat /\ Gone(worker[s], retired[s]) <= live[s].gen
      /\ Spawned(worker[s]) => /\ worker[s].gen = live[s].gen /\ retired[s] < live[s].gen
                               /\ worker[s].c = prep[s].what.p.c
    BY <1>1, <1>2, Standing, Now DEF Unfinished
<1>4. ASSUME live[s].mig.phase = "Activating"
      PROVE  Attested(receipts, "Fenced", prep[s].what.p) /\ live[s].ckpt.c = prep[s].what.p.c
    <2>1. MigInv(s) /\ disk[s].mig.phase = "Activating" /\ disk[s].mig # NoMig
        BY <1>1, <1>4 DEF ProtocolInv, NoMig
    <2>2. disk[s].ckpt.c = disk[s].mig.plan.c
        BY <2>1, Also DEF Travels, BlocksExecution
    <2> QED BY <1>1, <2>1, <2>2 DEF MigInv, Waits, Agree
<1> QED BY <1>2, <1>3, <1>4

LEMMA RestoreTakes ==
    ASSUME HostedInv, ProtocolInv, NEW s \in Sessions, RestoreAcknowledged(s)
    PROVE  HostedInv' /\ \E m \in Transitions : Took(s, m)
<1> DEFINE a == TRUE
           phase == IF live[s].mig.phase = "Installing" THEN "Installed" ELSE "Activated"
           m == Transition(s, phase, live[s].mig.gen, a)
           p == prep[s].what.p
           w == Bearing(worker[s].c, worker[s].gen)
<1>1. /\ Waits(s) /\ p \in plans /\ p \in Plans /\ prep[s].what.peer \in Peers
      /\ live[s].mig # NoMig /\ live[s].mig.phase \in {"Installing", "Activating"}
    BY AskedToRestore DEF RestoreAcknowledged, NoMig
<1>2. /\ live[s].ckpt # NoCkpt /\ live[s].mig.gen = live[s].gen
      /\ live[s].gen \in Nat \ {0} /\ retired[s] < live[s].gen /\ retired[s] \in Nat
      /\ worker[s].c = p.c /\ worker[s].gen = live[s].gen
      /\ live[s].mig.phase = "Activating" => Attested(receipts, "Fenced", p)
    BY Awaits DEF RestoreAcknowledged, Spawned
<1>3. /\ m \in Transitions /\ m.plan = p /\ m.phase = phase /\ m.gen = live[s].gen
      /\ m.actor = a
    <2>1. phase \in Phases
        BY DEF Phases
    <2>2. m = Transition(s, phase, live[s].mig.gen, a) /\ live[s].mig.gen \in Nat /\ a \in BOOLEAN
        BY <1>2
    <2> HIDE DEF m, a, phase
    <2> QED BY <1>1, <1>2, <2>1, <2>2, TransitionType
<1>4. /\ AppendMigration(s, m) /\ Release(s) /\ UNCHANGED <<up, retired, stage, plans>>
      /\ worker' = [worker EXCEPT ![s] = w]
    BY Now DEF RestoreAcknowledged
<1>5. w \in Workers /\ w.c = p.c /\ w.gen = live[s].gen
    <2>1. p.c \in States
        BY <1>1 DEF Plans
    <2> QED BY <1>2, <2>1 DEF Workers, Bearing
<1>10. ~Spawned(w)
    BY DEF Spawned, Bearing
<1>6. phase \in {"Installed", "Activated"} /\ (phase = "Activated" => live[s].mig.phase = "Activating")
    BY <1>1
<1> HIDE DEF m, p, w, a, phase
<1>7. ~Unfinished(m) /\ Fit(live[s], m) /\ Placed(live[s], m).c = p.c
    BY <1>3, <1>6 DEF Unfinished, Fit, Placed
<1>8. HostedInv'
    <2>1. /\ prep' = [prep EXCEPT ![s] = None] /\ retired' = [retired EXCEPT ![s] = retired[s]]
          /\ None.kind = IF Unfinished(m) THEN "install" ELSE "none"
        BY <1>4, <1>7, Releases, Same
    <2>2. /\ retired[s] <= m.gen
          /\ Alive(w) => /\ ~Unfinished(m) /\ retired[s] < m.gen /\ w.gen = m.gen
                         /\ w.c = Placed(live[s], m).c
        BY <1>2, <1>3, <1>5, <1>7
    <2> QED BY <1>1, <1>2, <1>3, <1>4, <1>5, <1>7, <1>10, <2>1, <2>2, MigratesHosted
<1>9. Took(s, m)
    BY <1>1, <1>2, <1>3, <1>4, <1>6, <1>7, Releases DEF Took
<1> QED BY <1>3, <1>8, <1>9

LEMMA RestoreFailsTakes ==
    ASSUME HostedInv, ProtocolInv, NEW s \in Sessions, RestoreFailed(s)
    PROVE  HostedInv' /\ \E m \in Transitions : Took(s, m)
<1> DEFINE a == FALSE
           phase == IF live[s].mig.phase = "Installing" THEN "InstallFailed" ELSE "ActivationFailed"
           m == Transition(s, phase, live[s].mig.gen, a)
           p == prep[s].what.p
           n == Gone(worker[s], retired[s])
<1>1. /\ Waits(s) /\ p \in plans /\ p \in Plans /\ prep[s].what.peer \in Peers
      /\ live[s].mig # NoMig /\ live[s].mig.phase \in {"Installing", "Activating"}
    BY AskedToRestore DEF RestoreFailed, NoMig
<1>2. /\ live[s].ckpt # NoCkpt /\ live[s].mig.gen = live[s].gen
      /\ live[s].gen \in Nat \ {0} /\ n \in Nat /\ n <= live[s].gen
      /\ live[s].mig.phase = "Activating" => Attested(receipts, "Fenced", p)
    BY Awaits DEF RestoreFailed
<1>3. /\ m \in Transitions /\ m.plan = p /\ m.phase = phase /\ m.gen = live[s].gen
      /\ m.actor = a
    <2>1. phase \in Phases
        BY DEF Phases
    <2>2. m = Transition(s, phase, live[s].mig.gen, a) /\ live[s].mig.gen \in Nat /\ a \in BOOLEAN
        BY <1>2
    <2> HIDE DEF m, a, phase
    <2> QED BY <1>1, <1>2, <2>1, <2>2, TransitionType
<1>4. AppendMigration(s, m) /\ Release(s) /\ Discard(s, NoWorker) /\ UNCHANGED <<up, stage, plans>>
    BY DEF RestoreFailed
<1>5. /\ phase \in {"InstallFailed", "ActivationFailed"}
      /\ phase = "ActivationFailed" => live[s].mig.phase = "Activating"
    BY <1>1
<1>6. ~m.actor
    <2> HIDE DEF m
    <2> QED BY <1>3
<1>10. /\ worker' = [worker EXCEPT ![s] = NoWorker] /\ retired' = [retired EXCEPT ![s] = n]
       /\ NoWorker \in Workers /\ ~Alive(NoWorker) /\ ~Spawned(NoWorker)
    BY <1>4, NotSpawned DEF Discard, Gone, Workers
<1> HIDE DEF m, p, a, n, phase
<1>7. ~Unfinished(m) /\ Fit(live[s], m)
    BY <1>3, <1>5, <1>6 DEF Unfinished, Fit
<1>8. HostedInv'
    <2>1. /\ prep' = [prep EXCEPT ![s] = None]
          /\ None.kind = IF Unfinished(m) THEN "install" ELSE "none"
        BY <1>4, <1>7, Releases
    <2>2. n <= m.gen
        BY <1>2, <1>3
    <2> QED BY <1>1, <1>2, <1>3, <1>4, <1>7, <1>10, <2>1, <2>2, MigratesHosted
<1>9. Took(s, m)
    BY <1>1, <1>2, <1>3, <1>4, <1>5, <1>7, Releases DEF Took
<1> QED BY <1>3, <1>8, <1>9

LEMMA ReserveHosted ==
    ASSUME HostedInv, NEW s \in Sessions, NEW a \in Actions, NEW p, NEW r,
           MigrateReserve(s, a, p, r)
    PROVE  HostedInv'
<1> DEFINE what == [a |-> a, p |-> p, peer |-> IF r = None THEN <<>> ELSE <<r.s, r.at>>]
           q == [kind |-> "migrate", head |-> live[s].head, what |-> what]
<1>1. Moves(s, live[s], disk[s], up[s], q, worker[s], stage[s], retired[s])
    <2>1. /\ prep' = [prep EXCEPT ![s] = q]
          /\ UNCHANGED <<live, disk, up, worker, retired, stage>>
        BY DEF MigrateReserve, Reserve
    <2> QED BY <2>1, Same DEF Moves
<1>2. q.kind = "migrate"
    OBVIOUS
<1> HIDE DEF q
<1>3. up[s] /\ prep[s] = None /\ live[s].rec = None /\ Admits(live[s], a, p)
    BY DEF MigrateReserve
<1>4. live[s].status \in {"Ready", "Migrating"}
    BY <1>3 DEF Admits, Actions
<1>5. ~Unfinished(live[s].mig)
    BY <1>3, Now DEF Consistent, Reserved, None
<1>6. Consistent(live[s], disk[s], up[s], q, worker[s], stage[s], retired[s])
    BY <1>2, <1>3, <1>4, <1>5, Now DEF Consistent, Reserved
<1>7. Travels(disk[s]) /\ Numbers(disk[s]) /\ Homed(s, disk[s])
    BY DEF HostedInv, SessionInv
<1> QED BY <1>1, <1>6, <1>7, Now, Also, FramedAlone

LEMMA DroppedHosted ==
    ASSUME HostedInv, NEW s \in Sessions, MigrateDropped(s)
    PROVE  HostedInv'
<1>1. Moves(s, live[s], disk[s], up[s], None, worker[s], stage[s], retired[s])
    BY Same DEF MigrateDropped, Release, Moves
<1>2. up[s] /\ prep[s].kind = "migrate" /\ None.kind = "none"
    BY DEF MigrateDropped, None
<1>3. Consistent(live[s], disk[s], up[s], None, worker[s], stage[s], retired[s])
    BY <1>2, Now DEF Consistent, Reserved
<1>4. Travels(disk[s]) /\ Numbers(disk[s]) /\ Homed(s, disk[s])
    BY DEF HostedInv, SessionInv
<1> QED BY <1>1, <1>3, <1>4, Now, Also, FramedAlone

-----------------------------------------------------------------------------
(***************************************************************************)
(* What is born stays born, and a state that a session answers for was.    *)
(***************************************************************************)

\* Every journal forbids at least the generations it forbade.
Onward == \A t \in Sessions : \A g \in Nat : Below(g, disk[t]) => Below(g, disk'[t])

LEMMA BornStays ==
    ASSUME Onward, NEW l \in Sessions \X Nat, Born(disk, l)
    PROVE  Born(disk', l)
<1>1. PICK b \in Sessions : l[1] = b /\ Below(l[2], disk[b])
    BY DEF Born
<1>2. l[2] \in Nat
    OBVIOUS
<1>3. Below(l[2], disk'[b])
    BY <1>1, <1>2 DEF Onward
<1> QED BY <1>1, <1>3 DEF Born

LEMMA IsState ==
    ASSUME NEW c \in States
    PROVE  c # NoCkpt /\ c.lin \in Sessions \X Nat
<1>1. "gen" \notin DOMAIN c /\ "gen" \in DOMAIN NoCkpt
    BY DEF States, NoCkpt
<1> QED BY <1>1 DEF States

\* The checkpoint a session answers for, and the two it may be.
LEMMA OwnedBorn ==
    ASSUME HostedInv, ProtocolInv, NEW s \in Sessions, Owned(s) # NoCkpt
    PROVE  Owned(s) \in States /\ Born(disk, Owned(s).lin)
<1> DEFINE k == Answers(disk[s], receipts)
<1>1. k # NoCkpt /\ Owned(s) = k.c
    BY DEF Owned, Possessed
<1>2. disk[s] \in Records /\ Travels(disk[s])
    BY Now, Also
<1>3. CASE k = disk[s].ckpt
    <2>1. k \in [gen : Nat, c : States]
        BY <1>1, <1>2, <1>3 DEF Records, Checkpoints
    <2>2. Born(disk, k.c.lin)
        BY <1>1, <1>3 DEF ProtocolInv, Lineages
    <2> QED BY <1>1, <2>1, <2>2
<1>4. CASE Standby(disk[s]) /\ k = disk[s].mig.prev
    <2>1. /\ disk[s].mig # NoMig /\ BlocksExecution(disk[s].mig.phase)
          /\ ~AtSource(disk[s].mig.phase)
        BY <1>4 DEF Standby, NoMig, BlocksExecution, AtSource
    <2>2. k \in [gen : Nat, c : States]
        BY <1>1, <1>2, <1>4, <2>1 DEF Records, Transitions, Checkpoints
    <2>3. Born(disk, k.c.lin)
        BY <1>4, <2>1 DEF ProtocolInv, MigInv
    <2> QED BY <1>1, <2>2, <2>3
<1> QED BY <1>1, <1>3, <1>4 DEF Answers

-----------------------------------------------------------------------------
(***************************************************************************)
(* Plans and requests.                                                     *)
(***************************************************************************)

LEMMA Undisturbed ==
    ASSUME ProtocolInv, UNCHANGED <<disk, receipts>>, plans \subseteq plans',
           \A p \in plans' : PlanInv(p), \A s \in Sessions : RequestInv(s)'
    PROVE  ProtocolInv'
<1>1. \A p \in plans' : PlanInv(p)'
    BY DEF PlanInv
<1>2. ASSUME NEW s \in Sessions PROVE MigInv(s)'
    <2>1. MigInv(s)
        BY DEF ProtocolInv
    <2> QED BY <2>1 DEF MigInv
<1>3. ASSUME NEW r \in receipts' PROVE ReceiptInv(r)'
    <2>1. ReceiptInv(r)
        BY <1>3 DEF ProtocolInv
    <2> QED BY <2>1 DEF ReceiptInv, In
<1>4. Lineages' /\ Distinct'
    BY DEF ProtocolInv, Lineages, Distinct, Owned
<1> QED BY <1>1, <1>2, <1>3, <1>4 DEF ProtocolInv

LEMMA ReserveProtocol ==
    ASSUME HostedInv, ProtocolInv, NEW s \in Sessions, NEW a \in Actions, NEW p \in plans, NEW r,
           MigrateReserve(s, a, p, r)
    PROVE  ProtocolInv'
<1> DEFINE peer == IF r = None THEN <<>> ELSE <<r.s, r.at>>
           what == [a |-> a, p |-> p, peer |-> peer]
           q == [kind |-> "migrate", head |-> live[s].head, what |-> what]
<1>1. /\ prep' = [prep EXCEPT ![s] = q] /\ UNCHANGED <<disk, plans, receipts>>
      /\ s = Endpoint(p, a) /\ r \in Proofs(s, live[s], a, p)
    BY DEF MigrateReserve, Reserve, protocol
<1>2. prep'[s] = q /\ \A t \in Sessions \ {s} : prep'[t] = prep[t]
    BY <1>1 DEF HostedInv, Types
<1>3. peer \in Peers /\ \A phase \in Needs(a) : Attested(receipts, phase, p)
    <2>1. CASE a \in {"Prepare", "Abort"}
        BY <1>1, <2>1 DEF Proofs, Needs, Peers
    <2>2. CASE a \notin {"Prepare", "Abort"}
        <3>1. r \in receipts /\ PeerProof(s, live[s], a, p, r)
            BY <1>1, <2>2 DEF Proofs
        <3>2. r.s \in Sessions /\ r.at \in Nat
            BY <3>1 DEF ProtocolInv, ReceiptInv
        <3>3. <<r.s, r.at>> \in Sessions \X Nat
            BY <3>2
        <3>4. ASSUME NEW phase \in Needs(a) PROVE r.m.phase = phase /\ r.m.plan = p
            BY <2>2, <3>1 DEF PeerProof, Needs, Actions
        <3> QED BY <3>1, <3>3, <3>4 DEF Peers, Attested
    <2> QED BY <2>1, <2>2
<1>4. /\ "kind" \in DOMAIN q /\ "what" \in DOMAIN q /\ q.what.p = p /\ q.what.peer = peer
      /\ q.what.a = a
    OBVIOUS
<1> HIDE DEF peer, what, q
<1>5. RequestInv(s)'
    BY <1>1, <1>2, <1>3, <1>4 DEF RequestInv
<1>6. ASSUME NEW t \in Sessions, t # s PROVE RequestInv(t)'
    <2>1. RequestInv(t) /\ prep'[t] = prep[t]
        BY <1>2, <1>6 DEF ProtocolInv
    <2> QED BY <1>1, <2>1 DEF RequestInv
<1> QED BY <1>1, <1>5, <1>6, Undisturbed DEF ProtocolInv

LEMMA DroppedProtocol ==
    ASSUME HostedInv, ProtocolInv, NEW s \in Sessions, MigrateDropped(s)
    PROVE  ProtocolInv'
<1>1. UNCHANGED <<disk, plans, receipts>> /\ Release(s)
    BY DEF MigrateDropped, protocol
<1>2. prep'[s].kind = "none" /\ \A t \in Sessions \ {s} : prep'[t] = prep[t]
    BY <1>1, Releases
<1>3. RequestInv(s)'
    BY <1>2 DEF RequestInv
<1>4. ASSUME NEW t \in Sessions, t # s PROVE RequestInv(t)'
    <2>1. RequestInv(t) /\ prep'[t] = prep[t]
        BY <1>2, <1>4 DEF ProtocolInv
    <2> QED BY <1>1, <2>1 DEF RequestInv
<1> QED BY <1>1, <1>3, <1>4, Undisturbed DEF ProtocolInv

\* The authority signs for a checkpoint the source has, whose lineage was born.
LEMMA SignProtocol ==
    ASSUME HostedInv, ProtocolInv, NEW src \in Sessions, NEW dst \in Sessions, Sign(src, dst)
    PROVE  HostedInv' /\ ProtocolInv'
<1> DEFINE p == [src |-> src, dst |-> dst, c |-> live[src].ckpt.c,
                 sgen |-> live[src].gen, shead |-> live[src].head,
                 dgen |-> live[dst].gen, dhead |-> live[dst].head]
<1>1. /\ UNCHANGED vars /\ UNCHANGED receipts /\ plans' = plans \cup {p} /\ src # dst
      /\ up[src] /\ live[src].ckpt # NoCkpt
    BY DEF Sign
<1>2. /\ live[src].ckpt \in [gen : Nat, c : States] /\ live[src].gen \in Nat
      /\ live[src].head \in Nat /\ live[dst].gen \in Nat /\ live[dst].head \in Nat
    BY <1>1, Now DEF Records, Checkpoints
<1>3. p \in Plans /\ p.src = src /\ p.dst = dst /\ p.c = live[src].ckpt.c
    BY <1>2 DEF Plans
<1> HIDE DEF p
<1>4. Agree(live[src], disk[src])
    BY <1>1, Now DEF Consistent
<1>5. Born(disk, p.c.lin)
    BY <1>1, <1>3, <1>4 DEF Agree, ProtocolInv, Lineages
<1>6. PlanInv(p)
    BY <1>1, <1>3, <1>5 DEF PlanInv
<1>7. \A q \in plans' : PlanInv(q)
    BY <1>1, <1>6 DEF ProtocolInv
<1>8. ASSUME NEW t \in Sessions PROVE RequestInv(t)'
    <2>1. RequestInv(t) /\ prep' = prep
        BY <1>1 DEF ProtocolInv, vars
    <2> QED BY <1>1, <2>1 DEF RequestInv
<1>9. /\ UNCHANGED <<disk, receipts>> /\ plans \subseteq plans'
      /\ UNCHANGED <<live, disk, up, prep, worker, stage, retired>>
    BY <1>1 DEF vars
<1> QED BY <1>1, <1>7, <1>8, <1>9, HostedStutters, Undisturbed

-----------------------------------------------------------------------------
(***************************************************************************)
(* The steps a session takes by itself.                                    *)
(***************************************************************************)

\* The state session s answers for is kept, given up, carried on by one
\* operation, or the first of a new lineage; the others keep theirs.
Alters(s) ==
    /\ \A t \in Sessions \ {s} : Owned(t)' = Owned(t)
    /\ \/ Owned(s)' \in {Owned(s), NoCkpt}
       \/ Owned(s) # NoCkpt /\ Owned(s)' = [Owned(s) EXCEPT !.v = @ + 1]
       \/ /\ Owned(s) = NoCkpt
          /\ \E g \in 1..MaxHead :
               Owned(s)' = [lin |-> <<s, g>>, v |-> 1] /\ ~Born(disk, <<s, g>>)

LEMMA DistinctStays ==
    ASSUME HostedInv, ProtocolInv, NEW s \in Sessions, Alters(s)
    PROVE  Distinct'
<1>1. ASSUME NEW t \in Sessions \ {s}, Owned(s)' # NoCkpt, Owned(t)' # NoCkpt
      PROVE  Owned(s)'.lin # Owned(t)'.lin
    <2>1. Owned(t)' = Owned(t) /\ Owned(t) # NoCkpt
        BY <1>1 DEF Alters
    <2>2. Born(disk, Owned(t).lin)
        BY <2>1, OwnedBorn
    <2>3. Owned(s) # NoCkpt => Owned(s).lin # Owned(t).lin
        BY <1>1, <2>1 DEF ProtocolInv, Distinct
    <2>4. CASE Owned(s)' = Owned(s)
        BY <1>1, <2>1, <2>3, <2>4
    <2>5. CASE Owned(s) # NoCkpt /\ Owned(s)' = [Owned(s) EXCEPT !.v = @ + 1]
        <3>1. Owned(s) \in States
            BY <2>5, OwnedBorn
        <3>2. Owned(s)'.lin = Owned(s).lin
            BY <2>5, <3>1 DEF States
        <3> QED BY <2>1, <2>3, <2>5, <3>2
    <2>6. CASE \E g \in 1..MaxHead :
                 Owned(s)' = [lin |-> <<s, g>>, v |-> 1] /\ ~Born(disk, <<s, g>>)
        BY <2>1, <2>2, <2>6
    <2> QED BY <1>1, <2>4, <2>5, <2>6 DEF Alters
<1>2. ASSUME NEW t \in Sessions \ {s}, NEW u \in Sessions \ {s}, t # u,
             Owned(t)' # NoCkpt, Owned(u)' # NoCkpt
      PROVE  Owned(t)'.lin # Owned(u)'.lin
    BY <1>2 DEF Alters, ProtocolInv, Distinct
<1> QED BY <1>1, <1>2 DEF Distinct

LEMMA KeptOnward ==
    ASSUME HostedInv, NEW s \in Sessions, Kept(s)
    PROVE  Onward
BY DEF Kept, Carries, Onward

\* What a step of its own makes of the migration a session is in.
LEMMA KeptMigration ==
    ASSUME HostedInv, NEW s \in Sessions, Kept(s)
    PROVE  /\ disk[s].head <= disk'[s].head
           /\ \/ disk'[s].mig = disk[s].mig
              \/ /\ disk[s].mig \in Transitions /\ disk[s].mig # NoMig /\ disk'[s].mig # NoMig
                 /\ disk'[s].mig.plan = disk[s].mig.plan /\ disk'[s].mig.prev = disk[s].mig.prev
                 /\ \/ disk[s].mig.phase = "Installing" /\ disk'[s].mig.phase = "InstallFailed"
                    \/ disk[s].mig.phase = "Activating" /\ disk'[s].mig.phase = "ActivationFailed"
                    \/ /\ disk[s].mig.phase \in {"Installing", "Activating"}
                       /\ disk'[s].mig.phase = "Overtaken"
<1> DEFINE d == disk[s]
           e == disk'[s]
<1>1. d \in Records /\ Carries(s, d, e) /\ d.head <= e.head /\ d.head \in Nat
    BY Now DEF Kept, Carries, Records
<1>2. CASE Repairs(d, e)
    <2> DEFINE m == d.mig
               phase == IF m.phase = "Installing" THEN "InstallFailed" ELSE "ActivationFailed"
    <2>1. m \in Transitions /\ m.phase \in {"Installing", "Activating"} /\ m # NoMig
        BY <1>1, <1>2 DEF Repairs, Unfinished, Records, NoMig
    <2>2. e.mig = [m EXCEPT !.phase = phase, !.actor = FALSE]
        BY <1>2 DEF Repairs, RepairedMigration
    <2>3. e.mig.phase = phase /\ e.mig.plan = m.plan /\ e.mig.prev = m.prev
        BY <2>1, <2>2 DEF Transitions
    <2>4. e.mig # NoMig
        BY <2>3 DEF NoMig
    <2> QED BY <1>1, <2>1, <2>3, <2>4
<1>3. CASE e = d \/ Works(s, d, e)
    BY <1>1, <1>3 DEF Works
<1>4. CASE Overtakes(d, e)
    <2> DEFINE m == d.mig
    <2>1. /\ m \in Transitions /\ m.phase \in {"Installing", "Activating"} /\ m # NoMig
          /\ e.mig = [m EXCEPT !.phase = "Overtaken"]
        BY <1>1, <1>4, OvertakenIs DEF Overtakes, Unfinished
    <2>2. e.mig.phase = "Overtaken" /\ e.mig.plan = m.plan /\ e.mig.prev = m.prev
        BY <2>1 DEF Transitions
    <2>3. e.mig # NoMig
        BY <2>2 DEF NoMig
    <2> QED BY <1>1, <2>1, <2>2, <2>3
<1> QED BY <1>1, <1>2, <1>3, <1>4 DEF Carries

LEMMA KeptMigInv ==
    ASSUME HostedInv, ProtocolInv, NEW s \in Sessions, Kept(s), UNCHANGED <<plans, receipts>>,
           HostedInv', NEW t \in Sessions
    PROVE  MigInv(t)'
<1>1. MigInv(t) /\ disk[t] \in Records /\ disk'[t] \in Records
    BY Now DEF ProtocolInv, HostedInv, Types
<1>2. Onward
    BY KeptOnward
<1>3. /\ disk[t].head <= disk'[t].head
      /\ \/ disk'[t].mig = disk[t].mig
         \/ /\ disk[t].mig \in Transitions /\ disk[t].mig # NoMig /\ disk'[t].mig # NoMig
            /\ disk'[t].mig.plan = disk[t].mig.plan /\ disk'[t].mig.prev = disk[t].mig.prev
            /\ \/ disk[t].mig.phase = "Installing" /\ disk'[t].mig.phase = "InstallFailed"
               \/ disk[t].mig.phase = "Activating" /\ disk'[t].mig.phase = "ActivationFailed"
               \/ /\ disk[t].mig.phase \in {"Installing", "Activating"}
                  /\ disk'[t].mig.phase = "Overtaken"
    <2>1. CASE t = s
        BY <2>1, KeptMigration
    <2>2. CASE t # s
        <3>1. disk'[t] = disk[t] /\ disk[t].head \in Nat
            BY <1>1, <2>2 DEF Kept, Records
        <3> QED BY <3>1
    <2> QED BY <2>1, <2>2
<1> SUFFICES ASSUME disk'[t].mig # NoMig PROVE MigInv(t)'
    BY DEF MigInv
<1> DEFINE m == disk[t].mig
           n == disk'[t].mig
<1>4. m # NoMig /\ n # NoMig /\ n.plan = m.plan /\ n.prev = m.prev
    BY <1>3
<1>5. m \in Transitions /\ m.plan \in plans /\ m.plan \in Plans
    BY <1>1, <1>4 DEF Records, MigInv, ProtocolInv, PlanInv
<1>6. Since(n) = Since(m) /\ Since(m) \in Nat
    BY <1>3, <1>4, <1>5 DEF Since, AtSource, Plans
<1>7. disk'[t].head > Since(n)
    <2>1. disk[t].head > Since(m) /\ disk[t].head \in Nat /\ disk'[t].head \in Nat
        BY <1>1, <1>4 DEF MigInv, Records
    <2> QED BY <1>3, <1>6, <2>1
<1>8. ASSUME BlocksExecution(n.phase), ~AtSource(n.phase) PROVE Born(disk', n.prev.c.lin)
    <2>1. BlocksExecution(m.phase) /\ ~AtSource(m.phase)
        BY <1>3, <1>8 DEF BlocksExecution, AtSource
    <2>2. Born(disk, m.prev.c.lin) /\ m.prev # NoCkpt
        BY <1>1, <1>4, <2>1, Also DEF MigInv, Travels
    <2>3. m.prev.c \in States
        BY <1>5, <2>2 DEF Transitions, Checkpoints
    <2> QED BY <1>2, <1>4, <2>2, <2>3, IsState, BornStays
<1>9. /\ n.phase = "Prepared" => ~Attested(receipts, "Aborted", n.plan)
      /\ n.phase = "Installing" => ~Attested(receipts, "Installed", n.plan)
      /\ n.phase \in {"Activating", "ActivationFailed"} => Attested(receipts, "Fenced", n.plan)
    BY <1>1, <1>3, <1>4 DEF MigInv
<1> HIDE DEF m, n
<1>10. /\ n.plan \in plans' /\ receipts' = receipts
    BY <1>4, <1>5
<1> QED BY <1>7, <1>8, <1>9, <1>10 DEF MigInv, n

LEMMA KeptReceiptInv ==
    ASSUME HostedInv, ProtocolInv, NEW s \in Sessions, Kept(s), UNCHANGED <<plans, receipts>>,
           HostedInv', NEW r \in receipts
    PROVE  ReceiptInv(r)'
<1>1. ReceiptInv(r) /\ r.s \in Sessions
    BY DEF ProtocolInv, ReceiptInv
<1>2. /\ disk[r.s].head <= disk'[r.s].head
      /\ \/ disk'[r.s].mig = disk[r.s].mig
         \/ disk[r.s].mig.phase \in {"Installing", "Activating"}
    <2>1. CASE r.s = s
        BY <2>1, KeptMigration
    <2>2. CASE r.s # s
        <3>1. disk'[r.s] = disk[r.s] /\ disk[r.s].head \in Nat
            BY <1>1, <2>2, Now DEF Kept, Records
        <3> QED BY <3>1
    <2> QED BY <2>1, <2>2
<1>3. /\ disk[r.s].head \in Nat /\ disk'[r.s].head \in Nat /\ Since(r.m) \in Nat
    BY <1>1, Now DEF HostedInv, Types, Records, ReceiptInv, Since, Transitions, Plans
<1>4. disk'[r.s].head > Since(r.m)
    BY <1>1, <1>2, <1>3 DEF ReceiptInv
<1>5. \A phase \in {"Fenced", "Installed"} :
          In(r.s, phase, r.m.plan) => In(r.s, phase, r.m.plan)'
    BY <1>2 DEF In
<1> QED BY <1>1, <1>4, <1>5 DEF ReceiptInv

LEMMA KeptRequestInv ==
    ASSUME ProtocolInv, NEW s \in Sessions, Kept(s), UNCHANGED <<plans, receipts>>,
           NEW t \in Sessions
    PROVE  RequestInv(t)'
<1>1. RequestInv(t)
    BY DEF ProtocolInv
<1>2. prep'[t] = prep[t] \/ prep'[t].kind \notin {"migrate", "install"}
    BY DEF Kept
<1> QED BY <1>1, <1>2 DEF RequestInv

LEMMA KeptLineages ==
    ASSUME HostedInv, ProtocolInv, NEW s \in Sessions, Kept(s)
    PROVE  Lineages'
<1>1. Onward
    BY KeptOnward
<1>2. ASSUME NEW t \in Sessions, NEW k \in States, Born(disk, k.lin) PROVE Born(disk', k.lin)
    BY <1>1, <1>2, IsState, BornStays
<1>3. ASSUME NEW t \in Sessions, disk[t].ckpt # NoCkpt
      PROVE  disk[t].ckpt.c \in States /\ Born(disk, disk[t].ckpt.c.lin)
    BY <1>3, Now DEF Records, Checkpoints, ProtocolInv, Lineages
<1>4. ASSUME NEW t \in Sessions \ {s}, disk'[t].ckpt # NoCkpt
      PROVE  Born(disk', disk'[t].ckpt.c.lin)
    BY <1>2, <1>3, <1>4 DEF Kept
<1>5. ASSUME disk'[s].ckpt # NoCkpt PROVE Born(disk', disk'[s].ckpt.c.lin)
    <2> DEFINE d == disk[s]
               e == disk'[s]
    <2>1. Carries(s, d, e) /\ d \in Records
        BY Now DEF Kept
    <2>2. CASE e.ckpt = d.ckpt
        BY <1>2, <1>3, <1>5, <2>2
    <2>3. CASE /\ d.ckpt # NoCkpt
               /\ e.ckpt.c = d.ckpt.c \/ e.ckpt.c = [d.ckpt.c EXCEPT !.v = @ + 1]
        <3>1. d.ckpt.c \in States /\ Born(disk, d.ckpt.c.lin)
            BY <1>3, <2>3
        <3>2. e.ckpt.c.lin = d.ckpt.c.lin
            BY <2>3, <3>1 DEF States
        <3> QED BY <1>2, <3>1, <3>2
    <2>4. CASE d.gen \in 1..MaxHead /\ e.gen = d.gen /\ e.ckpt.c = [lin |-> <<s, d.gen>>, v |-> 1]
        <3>1. e.ckpt.c.lin[1] = s /\ e.ckpt.c.lin[2] = e.gen
            BY <2>4
        <3>2. d.gen \in Nat /\ d.gen # 0 /\ d.gen <= d.gen
            BY <2>1, <2>4 DEF Records
        <3>3. Below(e.gen, e)
            BY <1>5, <2>4, <3>2 DEF Below
        <3> QED BY <3>1, <3>3 DEF Born
    <2> QED BY <1>5, <2>1, <2>2, <2>3, <2>4 DEF Carries, Works, Repairs, Overtakes, Steps
<1> QED BY <1>4, <1>5 DEF Lineages

LEMMA KeptOwned ==
    ASSUME HostedInv, ProtocolInv, NEW s \in Sessions, Kept(s), UNCHANGED receipts
    PROVE  Alters(s)
<1> DEFINE d == disk[s]
           e == disk'[s]
<1>1. \A t \in Sessions \ {s} : Owned(t)' = Owned(t)
    BY DEF Kept, Owned
<1>2. /\ Owned(s) = Possessed(Answers(d, receipts))
      /\ Owned(s)' = Possessed(Answers(e, receipts))
    BY DEF Owned
<1>3. d \in Records /\ Travels(d) /\ Carries(s, d, e) /\ MigInv(s)
    BY Now, Also DEF Kept, ProtocolInv
<1>4. CASE e = d
    BY <1>1, <1>2, <1>4 DEF Alters
<1>5. CASE Works(s, d, e) /\ Moving(d)
    <2>1. d.status = "Migrated" /\ e.status = "Closed"
        BY <1>5 DEF Works
    <2> QED BY <1>1, <1>2, <2>1 DEF Alters, Answers
<1>6. CASE Works(s, d, e) /\ ~Moving(d)
    <2>1. ~Moving(e) /\ Steps(s, d, e) /\ d.status # "Closed"
        BY <1>6 DEF Works, Moving
    <2>2. Answers(d, receipts) = d.ckpt
        BY <1>6, <2>1 DEF Answers, Standby, Moving
    <2>3. Answers(e, receipts) = e.ckpt \/ Answers(e, receipts) = NoCkpt
        BY <2>1 DEF Answers, Standby, Moving
    <2>4. CASE Answers(e, receipts) = NoCkpt
        BY <1>1, <1>2, <2>4 DEF Alters, Possessed
    <2>5. CASE Answers(e, receipts) = e.ckpt /\ e.ckpt # NoCkpt
        <3>1. Owned(s)' = e.ckpt.c
            BY <1>2, <2>5 DEF Possessed
        <3>2. CASE /\ d.ckpt # NoCkpt
                   /\ e.ckpt.c = d.ckpt.c \/ e.ckpt.c = [d.ckpt.c EXCEPT !.v = @ + 1]
            <4>1. Owned(s) = d.ckpt.c /\ d.ckpt.c \in States
                BY <1>2, <1>3, <2>2, <3>2 DEF Possessed, Records, Checkpoints
            <4>2. Owned(s) # NoCkpt
                BY <4>1, IsState
            <4> QED BY <1>1, <3>1, <3>2, <4>1, <4>2 DEF Alters
        <3>3. CASE /\ d.ckpt = NoCkpt /\ d.gen \in 1..MaxHead
                   /\ e.ckpt.c = [lin |-> <<s, d.gen>>, v |-> 1]
            <4>1. Owned(s) = NoCkpt
                BY <1>2, <2>2, <3>3 DEF Possessed
            <4>2. d.gen # 0 /\ ~(d.gen < d.gen)
                BY <1>3, <3>3 DEF Records
            <4>3. ~Below(d.gen, d)
                BY <3>3, <4>2 DEF Below
            <4>4. <<s, d.gen>>[1] = s /\ <<s, d.gen>>[2] = d.gen
                OBVIOUS
            <4>5. ~Born(disk, <<s, d.gen>>)
                BY <4>3, <4>4 DEF Born
            <4> QED BY <1>1, <3>1, <3>3, <4>1, <4>5 DEF Alters
        <3> QED BY <2>1, <2>5, <3>2, <3>3 DEF Steps
    <2> QED BY <2>3, <2>4, <2>5
<1>7. CASE Repairs(d, e)
    <2>1. /\ d.mig.phase \in {"Installing", "Activating"} /\ e.ckpt = d.ckpt
          /\ e.status = IF d.mig.phase = "Installing" THEN "RecoveryRequired" ELSE "Migrating"
        BY <1>7 DEF Repairs, Unfinished
    <2>2. d.status = "Migrating"
        BY <1>3, <2>1 DEF Travels, BlocksExecution, Moving
    <2>3. CASE d.mig.phase = "Installing"
        <3>1. Answers(d, receipts) = d.ckpt /\ Answers(e, receipts) = e.ckpt
            BY <2>1, <2>2, <2>3 DEF Answers, Standby
        <3> QED BY <1>1, <1>2, <2>1, <3>1 DEF Alters
    <2>4. CASE d.mig.phase = "Activating"
        <3>1. Attested(receipts, "Fenced", d.mig.plan)
            BY <1>3, <2>4 DEF MigInv, NoMig
        <3>2. e.mig.plan = d.mig.plan
            BY <2>4, KeptMigration
        <3>3. Answers(d, receipts) = d.ckpt /\ Answers(e, receipts) = e.ckpt
            BY <2>1, <2>2, <2>4, <3>1, <3>2 DEF Answers
        <3> QED BY <1>1, <1>2, <2>1, <3>3 DEF Alters
    <2> QED BY <2>1, <2>3, <2>4
<1>8. CASE Overtakes(d, e)
    <2>1. Answers(e, receipts) = NoCkpt
        BY <1>8 DEF Overtakes, Answers, Standby
    <2> QED BY <1>1, <1>2, <2>1 DEF Alters, Possessed
<1> QED BY <1>3, <1>4, <1>5, <1>6, <1>7, <1>8 DEF Carries

LEMMA KeptProtocol ==
    ASSUME HostedInv, ProtocolInv, NEW s \in Sessions, Kept(s), UNCHANGED <<plans, receipts>>,
           HostedInv'
    PROVE  ProtocolInv' /\ Alters(s)
<1>1. ASSUME NEW p \in plans PROVE PlanInv(p)'
    <2>1. PlanInv(p) /\ p.c \in States
        BY DEF ProtocolInv, PlanInv, Plans
    <2> QED BY <2>1, KeptOnward, IsState, BornStays DEF PlanInv
<1>2. Alters(s)
    BY KeptOwned
<1>3. Distinct' /\ Lineages'
    BY <1>2, DistinctStays, KeptLineages
<1> QED BY <1>1, <1>2, <1>3, KeptMigInv, KeptReceiptInv, KeptRequestInv DEF ProtocolInv

-----------------------------------------------------------------------------
(***************************************************************************)
(* A migration transition.                                                 *)
(***************************************************************************)

\* The journal of session s before and after transition m.
LEMMA Taken ==
    ASSUME HostedInv, NEW s \in Sessions, NEW m \in Transitions, Took(s, m)
    PROVE  /\ disk[s] \in Records /\ RecordInv(disk[s]) /\ Travels(disk[s])
           /\ MigrationValid(s, disk[s], m) /\ Fit(disk[s], m)
           /\ Landed(disk[s], m, disk'[s]) /\ disk'[s].ckpt # NoCkpt
           /\ Onward /\ \A t \in Sessions \ {s} : disk'[t] = disk[t]
<1>1. Waits(s) /\ Fit(live[s], m) /\ AppendMigration(s, m)
    BY DEF Took
<1>2. /\ disk' = [disk EXCEPT ![s] = disk'[s]] /\ Landed(disk[s], m, disk'[s])
      /\ MigrationValid(s, disk[s], m) /\ Fit(disk[s], m)
    BY <1>1, Migrates
<1>3. /\ disk[s] \in Records /\ RecordInv(disk[s]) /\ Travels(disk[s]) /\ Numbers(disk[s])
      /\ disk[s].op = "none" /\ disk[s].rec = None
    BY <1>1, Now, Also DEF Consistent, Waits, Agree
<1>4. disk'[s].ckpt # NoCkpt /\ \A g \in Nat : Below(g, disk[s]) => Below(g, disk'[s])
    BY <1>2, <1>3, Lands
<1>5. \A t \in Sessions \ {s} : disk'[t] = disk[t]
    BY <1>2 DEF HostedInv, Types
<1>6. Onward
    BY <1>4, <1>5 DEF Onward
<1> QED BY <1>2, <1>3, <1>4, <1>5, <1>6

\* What a transition of session s attests, and what it leaves attested.
LEMMA Attests ==
    ASSUME HostedInv, NEW s \in Sessions, NEW m \in Transitions, Took(s, m)
    PROVE  /\ receipts \subseteq receipts'
           /\ \A r \in receipts' : r \in receipts \/ r = [s |-> s, at |-> disk[s].head + 1, m |-> m]
           /\ \A phase, p : Attested(receipts, phase, p) => Attested(receipts', phase, p)
           /\ \A phase, p : Attested(receipts', phase, p) =>
                              \/ Attested(receipts, phase, p)
                              \/ phase = m.phase /\ p = m.plan
           /\ ~Unfinished(m) => Attested(receipts', m.phase, m.plan)
<1> DEFINE new == [s |-> s, at |-> live[s].head + 1, m |-> m]
<1>1. new.m = m /\ live[s].head = disk[s].head
    BY DEF Took, Waits, Agree
<1>2. receipts' = IF Unfinished(m) THEN receipts ELSE receipts \cup {new}
    BY DEF Took, AppendMigration
<1> HIDE DEF new
<1>3. receipts \subseteq receipts' /\ \A r \in receipts' : r \in receipts \/ r = new
    BY <1>2
<1>4. ~Unfinished(m) => Attested(receipts', m.phase, m.plan)
    BY <1>1, <1>2 DEF Attested
<1> QED BY <1>1, <1>3, <1>4 DEF Attested, new

\* Where session s stands when it takes transition m of a plan.
LEMMA Stood ==
    ASSUME HostedInv, ProtocolInv, NEW s \in Sessions, NEW m \in Transitions, Took(s, m)
    PROVE  /\ s = Home(m) /\ disk[s].ckpt # NoCkpt /\ disk[s].status \in {"Ready", "Migrating"}
           /\ disk[s].mig.phase # "Fenced"
           /\ disk[s].status = "Ready" <=> m.phase \in {"Prepared", "Installing"}
           /\ disk[s].status = "Migrating" =>
                 /\ disk[s].mig \in Transitions /\ disk[s].mig # NoMig
                 /\ disk[s].mig.plan = m.plan /\ BlocksExecution(disk[s].mig.phase)
                 /\ AtSource(disk[s].mig.phase) <=> AtSource(m.phase)
           /\ disk'[s].head = disk[s].head + 1 /\ disk[s].head + 1 > Since(m)
           /\ disk[s].head \in Nat /\ m.plan \in plans /\ m.plan \in Plans
<1>1. /\ disk[s] \in Records /\ RecordInv(disk[s]) /\ Travels(disk[s])
      /\ MigrationValid(s, disk[s], m) /\ Fit(disk[s], m) /\ Landed(disk[s], m, disk'[s])
    BY Taken
<1>2. /\ disk[s].ckpt # NoCkpt /\ disk[s].status \in {"Ready", "Migrating"} /\ s = Home(m)
      /\ disk[s].status = "Ready" <=> m.phase \in {"Prepared", "Installing"}
      /\ disk[s].status = "Migrating" =>
            /\ disk[s].mig \in Transitions /\ disk[s].mig # NoMig /\ disk[s].mig.plan = m.plan
            /\ BlocksExecution(disk[s].mig.phase) /\ disk[s].mig.phase # "Fenced"
            /\ AtSource(disk[s].mig.phase) <=> AtSource(m.phase)
    BY <1>1, Begins
<1>3. m.plan \in plans /\ m.plan \in Plans /\ disk[s].head \in Nat
    BY <1>1 DEF Took, ProtocolInv, PlanInv, Records
<1>4. disk'[s].head = disk[s].head + 1
    BY <1>1 DEF Landed, Is
<1>5. disk[s].mig.phase # "Fenced"
    BY <1>1, <1>2 DEF Travels, BlocksExecution, Moving
<1>6. disk[s].head + 1 > Since(m)
    <2>1. CASE disk[s].status = "Ready"
        <3>1. Since(m) = disk[s].head
            BY <1>1, <1>2, <2>1 DEF MigrationValid, Since, AtSource
        <3> QED BY <1>3, <3>1
    <2>2. CASE disk[s].status = "Migrating"
        <3>1. disk[s].head > Since(disk[s].mig)
            BY <1>2, <2>2 DEF ProtocolInv, MigInv
        <3>2. Since(disk[s].mig) = Since(m) /\ Since(m) \in Nat
            BY <1>2, <1>3, <2>2 DEF Since, Plans
        <3> QED BY <1>3, <3>1, <3>2
    <2> QED BY <1>2, <2>1, <2>2
<1> QED BY <1>2, <1>3, <1>4, <1>5, <1>6

\* A transition that starts a migration is the first that its plan gets here.
LEMMA Unattested ==
    ASSUME HostedInv, ProtocolInv, NEW s \in Sessions, NEW m \in Transitions, Took(s, m)
    PROVE  /\ m.phase = "Prepared" => ~Attested(receipts, "Aborted", m.plan)
           /\ m.phase = "Installing" => ~Attested(receipts, "Installed", m.plan)
<1>1. s = Home(m) /\ MigrationValid(s, disk[s], m) /\ disk[s].head \in Nat
    BY Stood, Taken
<1>2. ASSUME m.phase \in {"Prepared", "Installing"}, NEW r \in receipts, r.m.plan = m.plan,
             r.m.phase = IF m.phase = "Prepared" THEN "Aborted" ELSE "Installed"
      PROVE  FALSE
    <2>1. r.s = Home(r.m) /\ disk[r.s].head > Since(r.m)
        BY DEF ProtocolInv, ReceiptInv
    <2>2. Home(r.m) = Home(m) /\ Since(r.m) = Since(m)
        BY <1>2 DEF Home, Since, AtSource
    <2>3. Since(m) = disk[s].head
        BY <1>1, <1>2 DEF MigrationValid, Since, AtSource
    <2> QED BY <1>1, <2>1, <2>2, <2>3
<1> QED BY <1>2 DEF Attested

\* A plan that was fenced was not aborted, and the source stays fenced.
LEMMA FencedFor ==
    ASSUME ProtocolInv, NEW p, Attested(receipts, "Fenced", p)
    PROVE  /\ Attested(receipts, "Installed", p) /\ ~Attested(receipts, "Aborted", p)
           /\ p.src \in Sessions /\ In(p.src, "Fenced", p)
<1>1. PICK r \in receipts : r.m.phase = "Fenced" /\ r.m.plan = p
    BY DEF Attested
<1>2. ReceiptInv(r)
    BY DEF ProtocolInv
<1>3. r.s = p.src
    BY <1>1, <1>2 DEF ReceiptInv, Home, AtSource
<1> QED BY <1>1, <1>2, <1>3 DEF ReceiptInv

LEMMA TookMigInv ==
    ASSUME HostedInv, ProtocolInv, NEW s \in Sessions, NEW m \in Transitions, Took(s, m),
           NEW t \in Sessions
    PROVE  MigInv(t)'
<1>1. Onward /\ plans' = plans
    BY Taken DEF Took
<1>2. ASSUME NEW k \in States, Born(disk, k.lin) PROVE Born(disk', k.lin)
    BY <1>1, <1>2, IsState, BornStays
<1>3. CASE t # s
    <2> DEFINE n == disk[t].mig
    <2> SUFFICES ASSUME n # NoMig PROVE MigInv(t)'
        BY <1>3, Taken DEF MigInv
    <2>1. /\ MigInv(t) /\ disk'[t] = disk[t] /\ t = Home(n) /\ n \in Transitions
          /\ Travels(disk[t])
        BY <1>3, Taken, Also, Now DEF ProtocolInv, HostedInv, SessionInv, Homed, Records
    <2>2. ASSUME BlocksExecution(n.phase), ~AtSource(n.phase) PROVE Born(disk', n.prev.c.lin)
        <3>1. Born(disk, n.prev.c.lin) /\ n.prev # NoCkpt
            BY <2>1, <2>2 DEF MigInv, Travels
        <3>2. n.prev.c \in States
            BY <2>1, <3>1 DEF Transitions, Checkpoints
        <3> QED BY <1>2, <3>1, <3>2
    <2>3. s = Home(m)
        BY Stood
    <2>4. n.phase = "Prepared" => ~Attested(receipts', "Aborted", n.plan)
        BY <1>3, <2>1, <2>3, Attests DEF MigInv, Home, AtSource
    <2>5. n.phase = "Installing" => ~Attested(receipts', "Installed", n.plan)
        BY <1>3, <2>1, <2>3, Attests DEF MigInv, Home, AtSource
    <2>6. n.phase \in {"Activating", "ActivationFailed"} => Attested(receipts', "Fenced", n.plan)
        BY <2>1, Attests DEF MigInv
    <2> QED BY <1>1, <2>1, <2>2, <2>4, <2>5, <2>6 DEF MigInv
<1>4. CASE t = s
    <2>1. /\ disk'[s].mig = m /\ disk'[s].head > Since(m) /\ m.plan \in plans'
        BY <1>1, Taken, Stood DEF Landed, Is
    <2>2. ASSUME BlocksExecution(m.phase), ~AtSource(m.phase) PROVE Born(disk', m.prev.c.lin)
        <3>1. MigrationValid(s, disk[s], m)
            BY Taken
        <3>2. /\ m.prev # NoCkpt
              /\ m.phase # "Installing" => disk[s].mig.prev = m.prev
              /\ m.phase = "Installing" => disk[s].ckpt = m.prev
            BY <2>2, <3>1 DEF MigrationValid
        <3>3. m.prev.c \in States
            BY <3>2 DEF Transitions, Checkpoints
        <3>4. CASE m.phase = "Installing"
            BY <1>2, <3>2, <3>3, <3>4 DEF ProtocolInv, Lineages
        <3>5. CASE m.phase # "Installing"
            <4>1. disk[s].status = "Migrating"
                BY <2>2, <3>5, Stood DEF AtSource
            <4>2. Born(disk, disk[s].mig.prev.c.lin)
                BY <2>2, <4>1, Stood DEF ProtocolInv, MigInv
            <4> QED BY <1>2, <3>2, <3>3, <3>5, <4>2
        <3> QED BY <3>4, <3>5
    <2>3. m.phase = "Prepared" => ~Attested(receipts', "Aborted", m.plan)
        BY Unattested, Attests
    <2>4. m.phase = "Installing" => ~Attested(receipts', "Installed", m.plan)
        BY Unattested, Attests
    <2>5. m.phase \in {"Activating", "ActivationFailed"} => Attested(receipts', "Fenced", m.plan)
        BY Attests DEF Took
    <2> QED BY <1>4, <2>1, <2>2, <2>3, <2>4, <2>5 DEF MigInv
<1> QED BY <1>3, <1>4

LEMMA TookReceiptInv ==
    ASSUME HostedInv, ProtocolInv, NEW s \in Sessions, NEW m \in Transitions, Took(s, m),
           NEW r \in receipts'
    PROVE  ReceiptInv(r)'
<1>1. /\ s = Home(m) /\ disk[s].mig.phase # "Fenced" /\ disk'[s].mig = m /\ m # NoMig
      /\ disk'[s].head = disk[s].head + 1 /\ disk[s].head + 1 > Since(m) /\ disk[s].head \in Nat
      /\ m.plan \in plans /\ plans' = plans /\ MigrationValid(s, disk[s], m)
    <2>1. m # NoMig
        BY DEF Transitions, Phases, NoMig
    <2> QED BY <2>1, Stood, Taken DEF Landed, Is, Took
<1>2. CASE r \in receipts
    <2>1. ReceiptInv(r) /\ r.s \in Sessions /\ r.m \in Transitions /\ r.m.plan \in Plans
        BY <1>2 DEF ProtocolInv, ReceiptInv, PlanInv
    <2>2. disk'[r.s].head > Since(r.m)
        <3>1. disk[r.s].head > Since(r.m) /\ disk[r.s].head \in Nat /\ Since(r.m) \in Nat
            BY <2>1, Now DEF ReceiptInv, Records, Since, Plans
        <3>2. disk'[r.s].head = disk[r.s].head \/ disk'[r.s].head = disk[r.s].head + 1
            BY <1>1, <2>1, Taken
        <3> QED BY <3>1, <3>2
    <2>3. ASSUME r.m.phase = "Fenced"
          PROVE  /\ In(r.s, "Fenced", r.m.plan)' /\ Attested(receipts', "Installed", r.m.plan)
                 /\ ~Attested(receipts', "Aborted", r.m.plan)
        <3>1. /\ In(r.s, "Fenced", r.m.plan) /\ Attested(receipts, "Installed", r.m.plan)
              /\ ~Attested(receipts, "Aborted", r.m.plan) /\ r.s = r.m.plan.src
            BY <2>1, <2>3 DEF ReceiptInv, Home, AtSource
        <3>2. r.s # s
            BY <1>1, <3>1 DEF In
        <3>3. disk'[r.s] = disk[r.s]
            BY <2>1, <3>2, Taken
        <3>4. ~Attested(receipts', "Aborted", r.m.plan)
            BY <1>1, <3>1, <3>2, Attests DEF Home, AtSource
        <3> QED BY <3>1, <3>3, <3>4, Attests DEF In
    <2>4. ASSUME r.m.phase = "Installed"
          PROVE  \/ Attested(receipts', "Fenced", r.m.plan)
                 \/ Attested(receipts', "Aborted", r.m.plan)
                 \/ In(r.s, "Installed", r.m.plan)'
        <3>1. CASE Attested(receipts, "Fenced", r.m.plan) \/ Attested(receipts, "Aborted", r.m.plan)
            BY <3>1, Attests
        <3>2. CASE In(r.s, "Installed", r.m.plan) /\ r.s # s
            BY <2>1, <3>2, Taken DEF In
        <3>3. CASE In(r.s, "Installed", r.m.plan) /\ r.s = s
            <4>1. disk[s].mig # NoMig /\ disk[s].mig.phase = "Installed" /\ disk[s].mig.plan = r.m.plan
                BY <3>3 DEF In
            <4>2. disk[s].status = "Migrating"
                BY <4>1, Also DEF Travels, BlocksExecution, Moving
            <4>3. m.plan = r.m.plan /\ m.phase \notin {"Prepared", "Installing"}
                BY <4>1, <4>2, Stood
            <4>4. m.phase \in {"Cancelled", "Activating", "Activated"}
                BY <1>1, <4>1, <4>3 DEF MigrationValid, Transitions, Phases
            <4> QED BY <4>3, <4>4, Attests DEF Took
        <3> QED BY <2>1, <2>4, <3>1, <3>2, <3>3 DEF ReceiptInv
    <2> QED BY <1>1, <2>1, <2>2, <2>3, <2>4 DEF ReceiptInv
<1>3. CASE r = [s |-> s, at |-> disk[s].head + 1, m |-> m]
    <2>1. r.s = s /\ r.m = m /\ r.at \in Nat
        BY <1>1, <1>3
    <2>2. ASSUME m.phase = "Fenced"
          PROVE  /\ Attested(receipts', "Installed", m.plan)
                 /\ ~Attested(receipts', "Aborted", m.plan)
        <3>1. Attested(receipts, "Installed", m.plan)
            BY <2>2 DEF Took
        <3>2. disk[s].mig # NoMig /\ disk[s].mig.plan = m.plan /\ disk[s].mig.phase = "Prepared"
            BY <1>1, <2>2 DEF MigrationValid
        <3>3. ~Attested(receipts, "Aborted", m.plan)
            BY <3>2 DEF ProtocolInv, MigInv
        <3> QED BY <2>2, <3>1, <3>3, Attests
    <2>3. m.phase \in {"Fenced", "Installed"} => In(s, m.phase, m.plan)'
        BY <1>1 DEF In
    <2> HIDE <1>3
    <2> QED BY <1>1, <2>1, <2>2, <2>3 DEF ReceiptInv
<1> QED BY <1>2, <1>3, Attests

LEMMA TookRequestInv ==
    ASSUME HostedInv, ProtocolInv, NEW s \in Sessions, NEW m \in Transitions, Took(s, m),
           NEW t \in Sessions
    PROVE  RequestInv(t)'
<1>1. RequestInv(t) /\ plans' = plans
    BY DEF ProtocolInv, Took
<1>2. \A phase, p : Attested(receipts, phase, p) => Attested(receipts', phase, p)
    BY Attests
<1>3. CASE prep'[t] = prep[t]
    BY <1>1, <1>2, <1>3 DEF RequestInv
<1>4. CASE t = s /\ prep'[s].kind = "none"
    BY <1>4 DEF RequestInv
<1>5. CASE t = s /\ prep[s].kind = "migrate" /\ prep'[s] = [prep[s] EXCEPT !.kind = "install"]
    <2>1. "kind" \in DOMAIN prep[s] /\ "what" \in DOMAIN prep[s]
        BY <1>1, <1>5 DEF RequestInv
    <2>2. /\ "kind" \in DOMAIN prep'[s] /\ "what" \in DOMAIN prep'[s]
          /\ prep'[s].what = prep[s].what
        BY <1>5, <2>1
    <2> QED BY <1>1, <1>2, <1>5, <2>2 DEF RequestInv
<1> QED BY <1>3, <1>4, <1>5 DEF Took

LEMMA TookLineages ==
    ASSUME HostedInv, ProtocolInv, NEW s \in Sessions, NEW m \in Transitions, Took(s, m)
    PROVE  Lineages'
<1>1. Onward
    BY Taken
<1>2. ASSUME NEW k \in States, Born(disk, k.lin) PROVE Born(disk', k.lin)
    BY <1>1, <1>2, IsState, BornStays
<1>3. ASSUME NEW t \in Sessions, disk[t].ckpt # NoCkpt
      PROVE  Born(disk', disk[t].ckpt.c.lin)
    <2>1. disk[t].ckpt.c \in States /\ Born(disk, disk[t].ckpt.c.lin)
        BY <1>3, Now DEF Records, Checkpoints, ProtocolInv, Lineages
    <2> QED BY <1>2, <2>1
<1>4. ASSUME NEW t \in Sessions \ {s}, disk'[t].ckpt # NoCkpt
      PROVE  Born(disk', disk'[t].ckpt.c.lin)
    BY <1>3, <1>4, Taken
<1>5. Born(disk', disk'[s].ckpt.c.lin)
    <2>1. disk'[s].ckpt = Placed(disk[s], m) /\ disk[s].ckpt # NoCkpt
        BY Taken, Stood DEF Landed, Is
    <2>2. CASE m.phase \in {"Prepared", "Installed", "Activated"}
        <3>1. m.plan.c \in States /\ Born(disk, m.plan.c.lin)
            BY DEF Took, ProtocolInv, PlanInv, Plans
        <3>2. disk'[s].ckpt.c = m.plan.c
            BY <2>1, <2>2 DEF Placed
        <3> QED BY <1>2, <3>1, <3>2
    <2>3. CASE m.phase = "Cancelled"
        <3>1. m.prev # NoCkpt /\ disk[s].mig.prev = m.prev
            BY <2>3, Taken DEF MigrationValid, AtSource
        <3>2. m.prev.c \in States
            BY <3>1 DEF Transitions, Checkpoints
        <3>3. Born(disk, disk[s].mig.prev.c.lin)
            BY <2>3, Stood DEF ProtocolInv, MigInv, AtSource
        <3>4. disk'[s].ckpt = m.prev
            BY <2>1, <2>3 DEF Placed
        <3> QED BY <1>2, <3>1, <3>2, <3>3, <3>4
    <2>4. CASE m.phase \notin {"Prepared", "Installed", "Activated", "Cancelled"}
        BY <1>3, <2>1, <2>4 DEF Placed
    <2> QED BY <2>2, <2>3, <2>4
<1> QED BY <1>4, <1>5 DEF Lineages

\* The source gives the state up and the destination answers for it: the fence.
HandsOver(s, t) ==
    /\ s # t /\ Owned(s) # NoCkpt /\ Owned(s)' = NoCkpt /\ Owned(t)' = Owned(s)
    /\ \A u \in Sessions \ {s, t} : Owned(u)' = Owned(u)

LEMMA HandedDistinct ==
    ASSUME ProtocolInv, NEW s \in Sessions, NEW t \in Sessions, HandsOver(s, t)
    PROVE  Distinct'
BY DEF HandsOver, ProtocolInv, Distinct

\* A transition other than the fence changes nothing of what anyone answers for.
LEMMA TookOwned ==
    ASSUME HostedInv, ProtocolInv, NEW s \in Sessions, NEW m \in Transitions, Took(s, m),
           m.phase # "Fenced"
    PROVE  Alters(s)
<1> DEFINE d == disk[s]
           e == disk'[s]
           F(p) == Attested(receipts, "Fenced", p)
           G(p) == Attested(receipts', "Fenced", p)
<1>1. \A p : G(p) <=> F(p)
    BY Attests
<1>2. ASSUME NEW t \in Sessions \ {s} PROVE Owned(t)' = Owned(t)
    <2>1. disk'[t] = disk[t]
        BY Taken
    <2> QED BY <1>1, <2>1 DEF Owned, Answers
<1>3. /\ d \in Records /\ Travels(d) /\ MigrationValid(s, d, m) /\ Fit(d, m)
      /\ e.status = MovesTo(m) /\ e.ckpt = Placed(d, m) /\ e.mig = m
      /\ d.ckpt # NoCkpt /\ e.ckpt # NoCkpt /\ MigInv(s)
    BY Taken, Stood DEF Landed, Is, ProtocolInv
<1>4. /\ d.status \in {"Ready", "Migrating"} /\ m.phase \in Phases \ {"Overtaken"}
      /\ d.status = "Ready" <=> m.phase \in {"Prepared", "Installing"}
      /\ d.status = "Migrating" => d.mig # NoMig /\ d.mig.plan = m.plan
    BY <1>3, Stood DEF Transitions, MigrationValid
<1>5. /\ Owned(s) = Possessed(Answers(d, receipts))
      /\ Owned(s)' = Possessed(Answers(e, receipts'))
    BY DEF Owned
<1> SUFFICES Owned(s)' = Owned(s)
    BY <1>2 DEF Alters
<1> HIDE DEF d, e
<1>6. e.status \notin {"Closed", "Migrated"}
    BY <1>3, <1>4 DEF MovesTo, Phases
<1>7. CASE m.phase \in {"Prepared", "Installing"}
    <2>1. Answers(d, receipts) = d.ckpt /\ Answers(e, receipts') = e.ckpt
        BY <1>3, <1>4, <1>6, <1>7 DEF Answers, Standby
    <2>2. e.ckpt.c = d.ckpt.c
        BY <1>3, <1>7 DEF Placed, Fit
    <2> QED BY <1>3, <1>5, <2>1, <2>2 DEF Possessed
<1>8. CASE m.phase = "Installed"
    <2>1. d.mig.phase = "Installing" /\ d.status = "Migrating" /\ d.mig.prev = m.prev
        BY <1>3, <1>4, <1>8 DEF MigrationValid, AtSource
    <2>2. ~F(m.plan)
        BY <1>3, <1>4, <2>1, FencedFor DEF MigInv, d
    <2>3. e.status = "Migrating"
        BY <1>3, <1>8 DEF MovesTo
    <2>4. Answers(e, receipts') = m.prev
        BY <1>1, <1>3, <1>8, <2>2, <2>3 DEF Answers, Standby
    <2>5. Answers(d, receipts) = d.ckpt /\ d.ckpt = d.mig.prev
        BY <1>3, <2>1 DEF Answers, Standby, Travels, BlocksExecution
    <2> QED BY <1>5, <2>1, <2>4, <2>5
<1>9. CASE m.phase \in {"InstallFailed", "Aborted"}
    <2>1. d.mig.phase \in {"Installing", "Prepared"} /\ d.status = "Migrating"
        BY <1>3, <1>4, <1>9 DEF MigrationValid
    <2>2. e.status # "Migrating" /\ e.ckpt = d.ckpt
        BY <1>3, <1>9 DEF MovesTo, Placed
    <2>3. Answers(d, receipts) = d.ckpt /\ Answers(e, receipts') = d.ckpt
        BY <1>6, <2>1, <2>2 DEF Answers, Standby
    <2> QED BY <1>5, <2>3
<1>10. CASE m.phase = "Cancelled"
    <2>1. /\ d.mig.phase \in {"Installed", "ActivationFailed"} /\ d.status = "Migrating"
          /\ d.mig.prev = m.prev
        BY <1>3, <1>4, <1>10 DEF MigrationValid, AtSource
    <2>2. ~F(m.plan)
        BY <1>10, FencedFor DEF Took
    <2>3. Answers(d, receipts) = m.prev
        BY <1>4, <2>1, <2>2 DEF Answers, Standby
    <2>4. e.status # "Migrating" /\ e.ckpt = m.prev
        BY <1>3, <1>10 DEF MovesTo, Placed
    <2>5. Answers(e, receipts') = m.prev
        BY <1>6, <2>4 DEF Answers, Standby
    <2> QED BY <1>5, <2>3, <2>5
<1>11. CASE m.phase \in {"Activating", "ActivationFailed", "Activated"}
    <2>1. /\ d.mig.phase \in {"Installed", "Activating", "ActivationFailed"}
          /\ d.status = "Migrating"
        BY <1>3, <1>4, <1>11 DEF MigrationValid
    <2>2. F(m.plan) /\ G(m.plan)
        BY <1>1, <1>11 DEF Took
    <2>3. Answers(d, receipts) = d.ckpt
        BY <1>4, <2>1, <2>2 DEF Answers
    <2>4. Answers(e, receipts') = e.ckpt
        BY <1>3, <1>6, <2>2 DEF Answers
    <2>5. d.ckpt.c = m.plan.c
        BY <1>3, <1>4, <2>1 DEF Travels, BlocksExecution
    <2>6. e.ckpt.c = d.ckpt.c
        BY <1>3, <1>11, <2>5 DEF Placed
    <2> QED BY <1>3, <1>5, <2>3, <2>4, <2>6 DEF Possessed
<1> QED BY <1>4, <1>7, <1>8, <1>9, <1>10, <1>11 DEF Phases

LEMMA FenceHandsOver ==
    ASSUME HostedInv, ProtocolInv, NEW s \in Sessions, NEW m \in Transitions, Took(s, m),
           m.phase = "Fenced"
    PROVE  m.plan.dst \in Sessions /\ HandsOver(s, m.plan.dst)
<1> DEFINE p == m.plan
           t == p.dst
<1>1. /\ MigrationValid(s, disk[s], m) /\ Travels(disk[s]) /\ disk[s] \in Records /\ s = p.src
      /\ p \in Plans /\ s # t /\ t \in Sessions /\ disk'[s].status = "Migrated"
      /\ Attested(receipts', "Fenced", p)
    <2>1. p \in Plans /\ p.src # p.dst
        BY DEF Took, ProtocolInv, PlanInv
    <2>2. s = p.src
        BY Stood DEF Home, AtSource
    <2>3. disk'[s].status = "Migrated"
        BY Taken DEF Landed, Is, MovesTo
    <2>4. Attested(receipts', "Fenced", p)
        BY Attests DEF Unfinished
    <2> QED BY <2>1, <2>2, <2>3, <2>4, Taken DEF Plans
<1>2. disk[s].mig # NoMig /\ disk[s].mig.plan = p /\ disk[s].mig.phase = "Prepared"
    BY <1>1 DEF MigrationValid
<1>3. disk[s].status = "Migrating" /\ disk[s].ckpt = [gen |-> disk[s].gen, c |-> p.c]
    BY <1>1, <1>2 DEF Travels, BlocksExecution, Moving
<1>4. Owned(s) = p.c /\ p.c # NoCkpt /\ Owned(s)' = NoCkpt
    <2>1. Answers(disk[s], receipts) = disk[s].ckpt
        BY <1>2, <1>3 DEF Answers, Standby
    <2>2. disk[s].ckpt # NoCkpt /\ disk[s].ckpt.c = p.c /\ p.c \in States
        BY <1>1, <1>3, IsCkpt DEF Plans
    <2>3. Answers(disk'[s], receipts') = NoCkpt
        BY <1>1 DEF Answers
    <2> QED BY <2>1, <2>2, <2>3, IsState DEF Owned, Possessed
<1>5. ~Attested(receipts, "Fenced", p) /\ ~Attested(receipts, "Aborted", p)
    BY <1>1, <1>2, FencedFor DEF In, ProtocolInv, MigInv
<1>6. In(t, "Installed", p)
    <2>1. PICK r \in receipts : r.m.phase = "Installed" /\ r.m.plan = p
        BY DEF Took, Attested
    <2>2. ReceiptInv(r)
        BY DEF ProtocolInv
    <2>3. r.s = t
        BY <2>1, <2>2 DEF ReceiptInv, Home, AtSource
    <2> QED BY <1>5, <2>1, <2>2, <2>3 DEF ReceiptInv
<1>7. Owned(t)' = p.c
    <2>1. /\ disk[t].mig.phase = "Installed" /\ disk[t].mig.plan = p /\ disk'[t] = disk[t]
          /\ Travels(disk[t])
        BY <1>1, <1>6, Also, Taken DEF In
    <2>2. disk[t].status = "Migrating" /\ disk[t].ckpt = [gen |-> disk[t].gen, c |-> p.c]
        BY <2>1 DEF Travels, BlocksExecution, Moving
    <2>3. Answers(disk'[t], receipts') = disk[t].ckpt
        BY <1>1, <2>1, <2>2 DEF Answers
    <2>4. disk[t].ckpt # NoCkpt /\ disk[t].ckpt.c = p.c
        BY <2>2, IsCkpt
    <2> QED BY <2>3, <2>4 DEF Owned, Possessed
<1>8. ASSUME NEW u \in Sessions \ {s, t} PROVE Owned(u)' = Owned(u)
    <2>1. disk'[u] = disk[u]
        BY Taken
    <2>2. CASE ~Standby(disk[u])
        BY <2>1, <2>2 DEF Owned, Answers
    <2>3. CASE Standby(disk[u])
        <3>1. u = Home(disk[u].mig)
            BY <2>3 DEF HostedInv, SessionInv, Homed, Standby, NoMig
        <3>2. disk[u].mig.plan # p
            BY <2>3, <3>1 DEF Standby, Home, AtSource
        <3>3. Attested(receipts', "Fenced", disk[u].mig.plan)
                  <=> Attested(receipts, "Fenced", disk[u].mig.plan)
            BY <3>2, Attests
        <3> QED BY <2>1, <3>3 DEF Owned, Answers
    <2> QED BY <2>2, <2>3
<1> HIDE DEF p
<1> QED BY <1>1, <1>4, <1>7, <1>8 DEF HandsOver, p

\* What a step does to the states that sessions answer for.
Hands == \E s \in Sessions : Alters(s) \/ \E t \in Sessions : HandsOver(s, t)

LEMMA TookProtocol ==
    ASSUME HostedInv, ProtocolInv, NEW s \in Sessions, NEW m \in Transitions, Took(s, m)
    PROVE  ProtocolInv' /\ Hands
<1>1. ASSUME NEW p \in plans' PROVE PlanInv(p)'
    <2>1. PlanInv(p) /\ p.c \in States
        BY DEF Took, ProtocolInv, PlanInv, Plans
    <2>2. Onward
        BY Taken
    <2> QED BY <2>1, <2>2, IsState, BornStays DEF PlanInv
<1>2. Hands /\ Distinct'
    <2>1. CASE m.phase = "Fenced"
        BY <2>1, FenceHandsOver, HandedDistinct DEF Hands
    <2>2. CASE m.phase # "Fenced"
        BY <2>2, TookOwned, DistinctStays DEF Hands
    <2> QED BY <2>1, <2>2
<1> QED BY <1>1, <1>2, TookMigInv, TookReceiptInv, TookRequestInv, TookLineages DEF ProtocolInv

-----------------------------------------------------------------------------
(***************************************************************************)
(* The invariant of the protocol holds, and what follows from it.          *)
(***************************************************************************)

LEMMA BegunIs ==
    ASSUME NEW s \in Sessions
    PROVE  LET c == [lin |-> <<s, 1>>, v |-> 1]
           IN /\ c \in States /\ Bearing(Begun(s).ckpt.c, 1) = Bearing(c, 1)
              /\ Is(Begun(s), "Ready", 1, 1, TRUE, TRUE, [gen |-> 1, c |-> c], "none", 0, None,
                    NoMig, 5)
<1> DEFINE c == [lin |-> <<s, 1>>, v |-> 1]
           k == [gen |-> 1, c |-> c]
<1>1. Touched(Blank, s, 1) = c
    BY DEF Touched
<1>2. <<s, 1>> \in Sessions \X Nat
    OBVIOUS
<1>3. c \in States /\ k \in Checkpoints
    BY <1>2 DEF States, Checkpoints
<1>4. /\ Opened \in Records /\ Opened.status = "Ready" /\ Opened.next = 1 /\ Opened.op = "none"
      /\ Opened.amb = 0 /\ Opened.rec = None /\ Opened.mig = NoMig
    BY DEF Opened, Records, Checkpoints
<1>5. Begun(s) = [Opened EXCEPT !.gen = 1, !.actor = TRUE, !.has = TRUE, !.head = 5, !.ckpt = k]
    BY <1>1 DEF Begun
<1>6. k.c = c
    OBVIOUS
<1> HIDE DEF c, k
<1>7. Is(Begun(s), "Ready", 1, 1, TRUE, TRUE, k, "none", 0, None, NoMig, 5)
    <2> DEFINE b == [Opened EXCEPT !.gen = 1, !.actor = TRUE, !.has = TRUE, !.head = 5, !.ckpt = k]
    <2>1. b \in Records
        BY <1>3, <1>4 DEF Records
    <2>2. b.gen = 1 /\ b.actor = TRUE /\ b.has = TRUE /\ b.head = 5 /\ b.ckpt = k
        BY <1>4 DEF Records
    <2>3. /\ b.status = "Ready" /\ b.next = 1 /\ b.op = "none" /\ b.amb = 0 /\ b.rec = None
          /\ b.mig = NoMig
        BY <1>4 DEF Records
    <2> HIDE DEF b
    <2>4. Begun(s) = b
        BY <1>5 DEF b
    <2> QED BY <2>1, <2>2, <2>3, <2>4 DEF Is
<1>8. Begun(s).ckpt.c = c
    BY <1>6, <1>7 DEF Is
<1> QED BY <1>3, <1>7, <1>8 DEF c, k

LEMMA InitMigration ==
    ASSUME MigrationInit
    PROVE  HostedInv /\ AsideInv /\ ProtocolInv
<1>1. ASSUME NEW s \in Sessions
      PROVE  /\ SessionInv(s) /\ live[s] \in Records /\ disk[s] \in Records /\ worker[s] \in Workers
             /\ prep[s].kind = "none" /\ disk[s].mig = NoMig /\ disk[s].status = "Ready"
             /\ disk[s].gen = 1 /\ disk[s].ckpt # NoCkpt
             /\ disk[s].ckpt.c = [lin |-> <<s, 1>>, v |-> 1]
    <2> DEFINE c == [lin |-> <<s, 1>>, v |-> 1]
               k == [gen |-> 1, c |-> c]
               w == Bearing(c, 1)
               b == Begun(s)
    <2>1. c \in States /\ Is(b, "Ready", 1, 1, TRUE, TRUE, k, "none", 0, None, NoMig, 5)
        BY BegunIs
    <2>2. /\ live[s] = b /\ disk[s] = b /\ worker[s] = w /\ up[s] = TRUE /\ prep[s] = None
          /\ stage[s] = "idle" /\ retired[s] = 0
        BY BegunIs DEF MigrationInit
    <2>3. w \in Workers /\ w.c = c /\ w.gen = 1
        BY <2>1 DEF Workers, Bearing
    <2>4. k # NoCkpt /\ k.gen = 1 /\ k.c = c /\ None.kind = "none" /\ NoMig.phase = "none"
        BY IsCkpt DEF None, NoMig
    <2>5. c # Blank
        BY <2>1, TouchedKeeps
    <2> HIDE DEF c, k, w, b
    <2>6. /\ b \in Records /\ b.status = "Ready" /\ b.gen = 1 /\ b.next = 1 /\ b.actor /\ b.has
          /\ b.ckpt = k /\ b.op = "none" /\ b.amb = 0 /\ b.rec = None /\ b.mig = NoMig
          /\ b.head = 5
        BY <2>1 DEF Is
    <2>7. RecordInv(b) /\ Fresh(b, 0)
        BY <2>4, <2>6 DEF RecordInv, Fresh, Saved, Unfinished
    <2>8. Travels(b) /\ Numbers(b) /\ Homed(s, b)
        BY <2>4, <2>6 DEF Travels, Numbers, Homed, BlocksExecution, Moving
    <2>9. WorkerInv(b, w, "idle", 0)
        BY <2>3, <2>4, <2>6 DEF WorkerInv, Unfinished
    <2>10. Consistent(b, b, up[s], None, w, "idle", 0)
        BY <2>2, <2>4, <2>6, <2>7, <2>9 DEF Consistent, Agree, Stages, Reserved, Unfinished, Saved
    <2>11. Bears(s, b, w, "idle")
        BY DEF Bears
    <2>12. SessionInv(s)
        <3>1. ~Spawned(w)
            BY DEF Spawned, Bearing, w
        <3> QED BY <2>2, <2>8, <2>10, <2>11, <3>1 DEF SessionInv
    <2> QED BY <2>2, <2>3, <2>4, <2>6, <2>12 DEF c
<1>2. HostedInv
    <2>1. Types
        BY <1>1 DEF MigrationInit, Types
    <2> QED BY <1>1, <2>1 DEF HostedInv
<1>3. plans = {} /\ receipts = {}
    BY DEF MigrationInit
<1>4. ASSUME NEW s \in Sessions PROVE MigInv(s) /\ RequestInv(s)
    BY <1>1 DEF MigInv, RequestInv
<1>5. ASSUME NEW s \in Sessions PROVE Born(disk, disk[s].ckpt.c.lin)
    <2> DEFINE l == <<s, 1>>
    <2>1. disk[s].ckpt.c = [lin |-> l, v |-> 1] /\ disk[s].gen = 1 /\ disk[s].ckpt # NoCkpt
        BY <1>1
    <2>2. l[1] = s /\ l[2] = 1
        OBVIOUS
    <2> HIDE DEF l
    <2>3. disk[s].ckpt.c.lin = l
        BY <2>1
    <2>4. Below(1, disk[s])
        BY <2>1 DEF Below
    <2> QED BY <2>2, <2>3, <2>4 DEF Born
<1>6. ASSUME NEW s \in Sessions PROVE Owned(s) = [lin |-> <<s, 1>>, v |-> 1]
    <2>1. Answers(disk[s], receipts) = disk[s].ckpt
        BY <1>1 DEF Answers, Standby
    <2> QED BY <1>1, <2>1 DEF Owned, Possessed
<1>7. Distinct
    BY <1>6 DEF Distinct
<1>8. AsideInv
    BY DEF MigrationInit, AsideInv, Aside
<1> QED BY <1>2, <1>3, <1>4, <1>5, <1>7, <1>8 DEF ProtocolInv, Lineages

LEMMA MigrateServes ==
    ASSUME NEW s \in Sessions, MigrateStep(s)
    PROVE  up[s] /\ UNCHANGED <<up, isolated>>
<1>1. CASE MigrateDropped(s)
    BY <1>1 DEF MigrateDropped
<1>2. CASE Prepare(s) \/ Install(s) \/ Fence(s) \/ Abort(s)
    BY <1>2 DEF Prepare, Install, Fence, Abort, Requested
<1>3. CASE Activate(s) \/ Reactivate(s) \/ Cancel(s)
    BY <1>3 DEF Activate, Reactivate, Cancel, Requested
<1>4. CASE RestoreAcknowledged(s) \/ RestoreFailed(s)
    BY <1>4 DEF RestoreAcknowledged, RestoreFailed, RestorePending
<1> QED BY <1>1, <1>2, <1>3, <1>4 DEF MigrateStep

\* A session that migrates is in service.
LEMMA AsideServes ==
    ASSUME AsideInv, NEW s \in Sessions, up[s], UNCHANGED <<up, isolated>>,
           \A t \in Sessions \ {s} : disk'[t] = disk[t]
    PROVE  AsideInv'
<1>1. isolated[s] = "no" /\ isolated = [isolated EXCEPT ![s] = isolated[s]]
    BY DEF AsideInv, Aside
<1> QED BY <1>1, AsideFramed

\* What anyone answers for changes by a session's own step or by a fence.
LEMMA MigrationStep ==
    ASSUME HostedInv, AsideInv, ProtocolInv, MigrationNext
    PROVE  /\ HostedInv' /\ AsideInv' /\ ProtocolInv'
           /\ Hands \/ \A s \in Sessions : Owned(s)' = Owned(s)
<1>1. ASSUME NEW s \in Sessions, NEW t \in Sessions, Sign(s, t)
      PROVE  /\ HostedInv' /\ AsideInv' /\ ProtocolInv'
             /\ \A u \in Sessions : Owned(u)' = Owned(u)
    <2>1. UNCHANGED <<disk, receipts>> /\ UNCHANGED <<disk, up, isolated>>
        BY <1>1 DEF Sign, vars
    <2> QED BY <1>1, <2>1, SignProtocol, AsideStutters DEF Owned
<1>2. ASSUME NEW s \in Sessions, Serve(s) PROVE HostedInv' /\ AsideInv' /\ ProtocolInv' /\ Hands
    <2>1. SessionStep(s) /\ UNCHANGED <<plans, receipts>>
        BY <1>2 DEF Serve, SessionStep, protocol
    <2>2. HostedInv' /\ Kept(s)
        BY <2>1, StepKeepsHosted
    <2> QED BY <2>1, <2>2, StepKeepsAside, KeptProtocol DEF Hands
<1>3. ASSUME NEW s \in Sessions, MigrateStep(s)
      PROVE  /\ HostedInv' /\ AsideInv' /\ ProtocolInv'
             /\ Hands \/ \A u \in Sessions : Owned(u)' = Owned(u)
    <2>1. CASE MigrateDropped(s)
        <3>1. UNCHANGED <<disk, receipts>> /\ UNCHANGED <<disk, up, isolated>>
            BY <2>1 DEF MigrateDropped, protocol
        <3> QED BY <2>1, <3>1, DroppedHosted, DroppedProtocol, AsideStutters DEF Owned
    <2>2. CASE ~MigrateDropped(s)
        <3>1. HostedInv' /\ \E m \in Transitions : Took(s, m)
            BY <1>3, <2>2, PrepareTakes, InstallTakes, FenceTakes, ActivateTakes, ReactivateTakes,
               AbortTakes, CancelTakes, RestoreTakes, RestoreFailsTakes DEF MigrateStep
        <3>2. up[s] /\ UNCHANGED <<up, isolated>>
            BY <1>3, <2>2, MigrateServes
        <3>3. \A t \in Sessions \ {s} : disk'[t] = disk[t]
            BY <3>1, Taken
        <3>4. AsideInv'
            BY <3>2, <3>3, AsideServes
        <3> QED BY <3>1, <3>4, TookProtocol
    <2> QED BY <2>1, <2>2
<1>4. ASSUME NEW s \in Sessions, NEW a \in Actions, MigrateRequest(s, a)
      PROVE  /\ HostedInv' /\ AsideInv' /\ ProtocolInv'
             /\ \A u \in Sessions : Owned(u)' = Owned(u)
    <2>1. PICK p \in plans : \E r \in Proofs(s, live[s], a, p) : MigrateReserve(s, a, p, r)
        BY <1>4 DEF MigrateRequest
    <2>2. UNCHANGED <<disk, receipts>> /\ UNCHANGED <<disk, up, isolated>>
        BY <2>1 DEF MigrateReserve, protocol
    <2> QED BY <2>1, <2>2, ReserveHosted, ReserveProtocol, AsideStutters DEF Owned
<1> QED BY <1>1, <1>2, <1>3, <1>4 DEF MigrationNext

LEMMA MigrationStutters ==
    ASSUME HostedInv, AsideInv, ProtocolInv, UNCHANGED allVars
    PROVE  HostedInv' /\ AsideInv' /\ ProtocolInv' /\ \A s \in Sessions : Owned(s)' = Owned(s)
<1>1. UNCHANGED vars /\ UNCHANGED <<plans, receipts>>
    BY DEF allVars, protocol
<1>2. /\ UNCHANGED <<live, disk, up, prep, worker, stage, retired>>
      /\ UNCHANGED <<disk, up, isolated>> /\ UNCHANGED <<disk, prep>>
    BY <1>1 DEF vars
<1>3. ASSUME NEW s \in Sessions PROVE RequestInv(s)'
    <2>1. RequestInv(s)
        BY DEF ProtocolInv
    <2> QED BY <1>1, <1>2, <2>1 DEF RequestInv
<1>4. ProtocolInv'
    BY <1>1, <1>2, <1>3, Undisturbed DEF ProtocolInv
<1> QED BY <1>1, <1>2, <1>4, HostedStutters, AsideStutters DEF Owned

\* The inductive invariant of sessions and protocol holds of every behaviour
\* (migration_runtime.rs, with every handler of runtime.rs going on between, and
\* sessions isolated because their repair could not be appended).
THEOREM MigrationInvariant == MigrationSpec => [](HostedInv /\ AsideInv /\ ProtocolInv)
<1>1. MigrationInit => HostedInv /\ AsideInv /\ ProtocolInv
    BY InitMigration
<1>2. HostedInv /\ AsideInv /\ ProtocolInv /\ [MigrationNext]_allVars
        => (HostedInv /\ AsideInv /\ ProtocolInv)'
    BY MigrationStep, MigrationStutters
<1> QED BY <1>1, <1>2, PTL DEF MigrationSpec

\* While actors migrate too, reconstruct_session refuses no journal of a session
\* in service, the repair of an interrupted restore included, and returns the
\* record the handlers believe in; with the exception of ReplayAgrees.
THEOREM MigrationReplayAgrees == MigrationSpec => []ReplayIsLive
BY MigrationInvariant, InvReplays, PTL

\* While actors migrate too, a Ready session runs on the state its journal holds,
\* a migrated one included, and none of its evaluators share a generation.
THEOREM MigrationRunsOnCheckpoint == MigrationSpec => [](ActorIsCheckpoint /\ OneActorPerGeneration)
BY MigrationInvariant, InvRuns, InvSingle, PTL

LEMMA HeldIs ==
    ASSUME NEW s \in Sessions
    PROVE  /\ Held(s) = Answers(disk[s], receipts)
           /\ Held(s)' = Answers(disk'[s], receipts')
BY DEF Held, Answers, Issued, Attested

\* An evaluator that runs operations is at the checkpoint of its session, or
\* one operation further.
LEMMA RunsLineage ==
    ASSUME HostedInv, NEW s \in Sessions, up[s], live[s].status \in {"Ready", "Executing"},
           Alive(worker[s]), worker[s].c # Blank, live[s].ckpt # NoCkpt
    PROVE  worker[s].c.lin = live[s].ckpt.c.lin
<1> DEFINE r == live[s]
           w == worker[s]
           g == stage[s]
<1>1. /\ r \in Records /\ RecordInv(disk[s]) /\ Agree(r, disk[s]) /\ g \in Stages(r.op)
      /\ g \in {"running", "ran"} => Saved(r)
      /\ WorkerInv(r, w, g, retired[s]) /\ Bears(s, r, w, g)
    BY Now, Also DEF Consistent
<1>2. r.ckpt.c \in States /\ r.gen \in Nat
    BY <1>1 DEF Records, Checkpoints
<1>3. CASE r.status = "Ready" \/ g \in {"sending", "queued", "running"}
    BY <1>1, <1>3 DEF WorkerInv
<1>4. CASE g = "ran"
    <2>1. r.has
        BY <1>1, <1>4 DEF Saved
    <2>2. w.c = Touched(r.ckpt.c, s, r.gen)
        BY <1>1, <1>4, <2>1 DEF Bears
    <2> QED BY <1>2, <2>2, TouchedKeeps
<1>5. CASE g = "saved"
    BY <1>1, <1>5 DEF WorkerInv
<1>6. CASE g = "unsaved"
    BY <1>1, <1>6 DEF Bears
<1>7. r.status = "Executing" => r.op # "none" /\ r.op \in {"none", "accepted", "running"}
    BY <1>1 DEF RecordInv, Agree, Records
<1> QED BY <1>1, <1>3, <1>4, <1>5, <1>6, <1>7 DEF Stages

LEMMA InvExclusive == HostedInv /\ ProtocolInv => ExclusiveOwner
<1> SUFFICES ASSUME HostedInv, ProtocolInv PROVE ExclusiveOwner
    OBVIOUS
<1>1. ASSUME NEW s \in Sessions, NEW t \in Sessions, s # t, Held(s) # NoCkpt, Held(t) # NoCkpt
      PROVE  Held(s).c.lin # Held(t).c.lin
    <2>1. ASSUME NEW u \in Sessions, Held(u) # NoCkpt
          PROVE  Owned(u) = Held(u).c /\ Owned(u) # NoCkpt
        <3>1. Owned(u) = Held(u).c
            BY <2>1, HeldIs DEF Owned, Possessed
        <3>2. Held(u) \in Checkpoints
            <4>1. disk[u] \in Records
                BY Now
            <4>2. Standby(disk[u]) => disk[u].mig.prev \in Checkpoints
                BY <4>1 DEF Standby, Records, Transitions, NoMig
            <4> QED BY <4>1, <4>2, HeldIs DEF Answers, Records, Checkpoints
        <3>3. Held(u).c \in States
            BY <2>1, <3>2 DEF Checkpoints
        <3> QED BY <3>1, <3>3, IsState
    <2> QED BY <1>1, <2>1 DEF ProtocolInv, Distinct
<1>2. ASSUME NEW s \in Sessions, up[s], live[s].status \in {"Ready", "Executing"},
             Alive(worker[s]), worker[s].c # Blank, live[s].ckpt # NoCkpt
      PROVE  Held(s) # NoCkpt /\ worker[s].c.lin = Held(s).c.lin
    <2>1. Agree(live[s], disk[s])
        BY <1>2, Now DEF Consistent
    <2>2. Held(s) = live[s].ckpt
        BY <1>2, <2>1, HeldIs DEF Answers, Standby, Agree
    <2> QED BY <1>2, <2>2, RunsLineage
<1> QED BY <1>1, <1>2 DEF ExclusiveOwner

\* A hand-over never forks an actor (migration_runtime.rs): no two journals
\* answer for one lineage, and an evaluator that may be given operations carries
\* the lineage its session answers for, whatever crashes, is retried or is late.
THEOREM OwnerIsExclusive == MigrationSpec => []ExclusiveOwner
BY MigrationInvariant, InvExclusive, PTL

-----------------------------------------------------------------------------
(***************************************************************************)
(* Migration implements ActorHandoff.                                      *)
(***************************************************************************)

\* The refinement mapping.
Mapped == [s \in Sessions |-> Owned(s)]

LEMMA MappedIs ==
    LET held == [s \in Sessions |-> IF Held(s) = NoCkpt THEN NoCkpt ELSE Held(s).c]
    IN held = Mapped /\ held' = Mapped'
BY HeldIs DEF Mapped, Owned, Possessed

LEMMA HandoffInit ==
    ASSUME MigrationInit
    PROVE  Handoff!Init
<1>1. ASSUME NEW s \in Sessions PROVE Owned(s) = [lin |-> <<s, 1>>, v |-> 1]
    <2>1. /\ disk[s] = Begun(s) /\ receipts = {}
        BY DEF MigrationInit
    <2>2. /\ Begun(s).status = "Ready"
          /\ Begun(s).ckpt = [gen |-> 1, c |-> [lin |-> <<s, 1>>, v |-> 1]]
        BY BegunIs DEF Is
    <2>3. Answers(disk[s], receipts) = Begun(s).ckpt
        BY <2>1, <2>2 DEF Answers, Standby
    <2>4. Begun(s).ckpt # NoCkpt /\ Begun(s).ckpt.c = [lin |-> <<s, 1>>, v |-> 1]
        BY <2>2, IsCkpt
    <2> QED BY <2>3, <2>4 DEF Owned, Possessed
<1>2. 1 \in 1..MaxHead
    BY SessionAssumption
<1>3. \A s \in Sessions : Mapped[s] = [lin |-> <<s, 1>>, v |-> 1]
    BY <1>1 DEF Mapped
<1> QED BY <1>2, <1>3, MappedIs DEF Handoff!Init

\* A session's own step is a step of the state it holds.
LEMMA HandoffAlters ==
    ASSUME HostedInv, ProtocolInv, NEW s \in Sessions, Alters(s)
    PROVE  Handoff!Next \/ Mapped' = Mapped
<1> DEFINE o == Owned(s)
           n == Owned(s)'
<1>1. Mapped \in [Sessions -> {Owned(t) : t \in Sessions}] /\ Mapped[s] = o
    BY DEF Mapped
<1>2. Mapped' = [Mapped EXCEPT ![s] = n]
    BY DEF Alters, Mapped
<1> HIDE DEF o, n
<1>3. CASE n = o
    BY <1>1, <1>2, <1>3
<1>4. CASE o # NoCkpt /\ n = NoCkpt
    <2>1. Handoff!Drop(s)
        BY <1>1, <1>2, <1>4, MappedIs DEF Handoff!Drop
    <2> QED BY <2>1 DEF Handoff!Next
<1>5. CASE o # NoCkpt /\ n = [o EXCEPT !.v = @ + 1]
    <2>1. Handoff!Advance(s)
        BY <1>1, <1>2, <1>5, MappedIs DEF Handoff!Advance
    <2> QED BY <2>1 DEF Handoff!Next
<1>6. ASSUME NEW g \in 1..MaxHead, o = NoCkpt, n = [lin |-> <<s, g>>, v |-> 1],
             ~Born(disk, <<s, g>>)
      PROVE  Handoff!Next
    <2>1. ASSUME NEW t \in Sessions, Mapped[t] # NoCkpt, Mapped[t].lin = <<s, g>> PROVE FALSE
        BY <1>6, <2>1, OwnedBorn DEF Mapped
    <2>2. Handoff!Homes(<<s, g>>) = {}
        BY <2>1, MappedIs DEF Handoff!Homes
    <2>3. Handoff!Bear(s, g)
        BY <1>1, <1>2, <1>6, <2>2, MappedIs DEF Handoff!Bear
    <2> QED BY <2>3 DEF Handoff!Next
<1> QED BY <1>3, <1>4, <1>5, <1>6 DEF Alters, o, n

\* A fence is the transfer.
LEMMA HandoffTransfers ==
    ASSUME NEW s \in Sessions, NEW t \in Sessions, HandsOver(s, t)
    PROVE  Handoff!Next
<1>1. Mapped' = [Mapped EXCEPT ![s] = NoCkpt, ![t] = Mapped[s]] /\ Mapped[s] # NoCkpt /\ s # t
    BY DEF HandsOver, Mapped
<1>2. Handoff!Transfer(s, t)
    BY <1>1, MappedIs DEF Handoff!Transfer
<1> QED BY <1>2 DEF Handoff!Next

\* Sessions, journals, receipts and restarts implement ActorHandoff: a state
\* moves only as it is, at the fence, and only changes where it is held.
THEOREM MigrationHandsOver == MigrationSpec => IsAHandoff
<1> DEFINE held == [s \in Sessions |-> IF Held(s) = NoCkpt THEN NoCkpt ELSE Held(s).c]
<1>1. /\ HostedInv /\ AsideInv /\ ProtocolInv /\ [MigrationNext]_allVars => [Handoff!Next]_held
    <2> SUFFICES ASSUME HostedInv, AsideInv, ProtocolInv, [MigrationNext]_allVars
                 PROVE  Handoff!Next \/ held' = held
        OBVIOUS
    <2>1. held = Mapped /\ held' = Mapped'
        BY MappedIs
    <2>2. Hands \/ \A s \in Sessions : Owned(s)' = Owned(s)
        BY MigrationStep, MigrationStutters
    <2>3. CASE \A s \in Sessions : Owned(s)' = Owned(s)
        BY <2>1, <2>3 DEF Mapped
    <2>4. CASE Hands
        BY <2>1, <2>4, HandoffAlters, HandoffTransfers DEF Hands
    <2> QED BY <2>2, <2>3, <2>4
<1> QED BY <1>1, HandoffInit, MigrationInvariant, PTL DEF MigrationSpec, IsAHandoff, Handoff!Spec

=============================================================================
