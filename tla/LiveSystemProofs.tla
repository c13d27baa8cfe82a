-------------------------- MODULE LiveSystemProofs --------------------------
(***************************************************************************)
(* Proofs about the live system, for any number of supervisors, packages,  *)
(* versions and services: what a supervisor may rely on when its revision  *)
(* is the file's, what its bearers name, what survives a power loss, and   *)
(* that the active-set file is a register.                                 *)
(***************************************************************************)
EXTENDS LiveSystem, FiniteSetTheorems, WellFoundedInduction, TLAPS

-----------------------------------------------------------------------------
(***************************************************************************)
(* The inductive invariant.  Every active set, in a supervisor, in the     *)
(* file, on the disk or on its way through a reconstruction, is coherent;  *)
(* a staged operation fits the set it was staged for; and what a           *)
(* supervisor has read or committed is never ahead of the file.            *)
(***************************************************************************)

\* A record declares the services of its manifest, an absent one declares none.
WellFormed(r) ==
    IF r.digest = NoDigest THEN Declared(r) = {} ELSE Declared(r) = Manifest[r.digest].services

\* What holds of the active records and the rollback roots of one set.
Coherent(act, roots) ==
    /\ \A p \in Packages :
        /\ WellFormed(act[p]) /\ WellFormed(roots[p])
        /\ Present(roots[p]) => Present(act[p]) /\ roots[p].digest # act[p].digest
    /\ \A p, q \in Packages : p # q => Declared(act[p]) \cap Declared(act[q]) = {}

Publishing == {"activate", "rollback", "restart"}

\* The generation g is above every generation of supervisor s's active records.
Rotates(s, g) == \A q \in Packages, y \in Services : active[s][q].generation[y] < g

\* An operation that is staged or published: its record can take its package's place.
OperationFits(s) ==
    LET p == op[s].package
        r == op[s].record IN
    /\ p \in Packages /\ r \in Record /\ Present(r) /\ WellFormed(r) /\ observed[s] >= 0
    /\ op[s].rest \subseteq Services
    /\ \A q \in Packages \ {p} : Declared(r) \cap Declared(active[s][q]) = {}
    /\ \A x \in Services : \/ r.generation[x] = 0
                           \/ r.generation[x] = active[s][p].generation[x]
                           \/ Rotates(s, r.generation[x])
    /\ op[s].kind = "rollback" => r.digest = rollback[s][p].digest
    /\ op[s].kind # "restart" => r.digest # active[s][p].digest
    /\ op[s].kind = "restart" =>
          /\ op[s].service \in Services /\ r.digest = active[s][p].digest
          /\ Rotates(s, r.generation[op[s].service])
          /\ \A y \in Services \ {op[s].service} : r.generation[y] = active[s][p].generation[y]

\* What a supervisor read or committed at a revision is what the file had at that revision.
Known(rev, act, roots) ==
    /\ rev <= page.revision
    /\ rev = page.revision =>
          act = page.active /\ \A p \in Packages : roots[p].digest = page.rollback[p].digest

\* A bearer names the generation and the digest of an active record.
Names(b, act) ==
    \E p \in Packages : /\ b.service \in Declared(act[p])
                        /\ b.generation = act[p].generation[b.service]
                        /\ b.digest = act[p].digest

\* The operation under way fits the supervisor's memory and the file.
OperationInv(s) ==
    /\ op[s].kind \in {"idle", "reconstruct", "restarting"} \cup Publishing
    /\ op[s].kind = "reconstruct" =>
          /\ op[s].set \in PersistedActiveSet
          /\ Coherent(op[s].set.active, op[s].set.rollback)
          /\ Known(op[s].set.revision, op[s].set.active, op[s].set.rollback)
    /\ op[s].kind = "restarting" => op[s].rest \subseteq Services /\ observed[s] >= 0
    /\ op[s].kind \in Publishing => OperationFits(s)

SupervisorInv(s) ==
    /\ Coherent(active[s], rollback[s])
    /\ Known(observed[s], active[s], rollback[s])
    /\ OperationInv(s)
    /\ lock = s => op[s].kind \in Publishing /\ page = NextSet(s)
    /\ \A b \in bearers[s] : Names(b, active[s])

FileInv ==
    /\ Coherent(page.active, page.rollback) /\ Coherent(disk.active, disk.rollback)
    /\ acked <= disk.revision /\ disk.revision <= page.revision

\* The types that the steps need; op and bearers are functions on the supervisors.
Types ==
    /\ TypeOK
    /\ op = [s \in Supervisors |-> op[s]] /\ bearers = [s \in Supervisors |-> bearers[s]]

LiveInv == Types /\ FileInv /\ \A s \in Supervisors : SupervisorInv(s)

-----------------------------------------------------------------------------
(***************************************************************************)
(* Generations: max_generation and checked_next_generation.                *)
(***************************************************************************)

\* A non-empty bounded set of naturals has a maximum.
LEMMA MaxMeaning ==
    ASSUME NEW n \in Nat, NEW S \in SUBSET (0..n), S # {}
    PROVE  Max(S) \in S /\ \A y \in S : y <= Max(S)
<1> DEFINE T == {n - y : y \in S}
<1>1. T \subseteq Nat /\ T # {}
    <2>1. \A y \in S : n - y \in Nat /\ n - y \in T
        OBVIOUS
    <2> QED BY <2>1
<1> DEFINE R == OpToRel(<, Nat)
<1>2. PICK t \in T : \A u \in T : ~(<<u, t>> \in R)
    BY <1>1, NatLessThanWellFounded, WFMin
<1>3. \A u \in T : ~(u < t)
    BY <1>1, <1>2 DEF OpToRel
<1>4. PICK x \in S : t = n - x
    OBVIOUS
<1>5. \A y \in S : x >= y
    BY <1>3, <1>4
<1>6. \E z \in S : \A y \in S : z >= y
    BY <1>5
<1>7. Max(S) \in S /\ \A y \in S : Max(S) >= y
    BY <1>6 DEF Max
<1> QED BY <1>7

\* max_generation is at least every generation of the active records.
LEMMA MaxGenerationMeaning ==
    ASSUME NEW s \in Supervisors, NEW roots \in SUBSET Packages,
           active[s] \in [Packages -> Record], rollback[s] \in [Packages -> Record]
    PROVE  /\ MaxGenerationOf(s, roots) \in 0..MaxGeneration
           /\ \A q \in Packages, y \in Services :
                active[s][q].generation[y] <= MaxGenerationOf(s, roots)
<1> DEFINE G == Generations(RecordsOf(active[s], Packages) \cup RecordsOf(rollback[s], roots))
           S == {0} \cup G
<1>1. MaxGeneration \in Nat
    BY LiveAssumption
<1>2. \A r \in RecordsOf(active[s], Packages) \cup RecordsOf(rollback[s], roots) : r \in Record
    BY DEF RecordsOf
<1>3. G \subseteq 0..MaxGeneration
    BY <1>2 DEF Generations, Record
<1>4. S \in SUBSET (0..MaxGeneration) /\ S # {}
    BY <1>1, <1>3
<1>5. \A q \in Packages, y \in Services : active[s][q].generation[y] \in S
    BY DEF Generations, RecordsOf
<1> HIDE DEF S
<1>6. Max(S) \in S /\ \A y \in S : y <= Max(S)
    BY <1>1, <1>4, MaxMeaning
<1> QED BY <1>4, <1>5, <1>6 DEF MaxGenerationOf, S

\* checked_next_generation: a fresh record declares its manifest's services, each with a
\* generation above the base.
LEMMA FreshRecordMeaning ==
    ASSUME NEW d \in Digests, NEW base \in Nat, GenerationsFit(d, base)
    PROVE  LET r == FreshRecord(d, base) IN
           /\ r \in Record /\ Present(r) /\ WellFormed(r) /\ r.digest = d
           /\ Declared(r) = Manifest[d].services
           /\ \A x \in Services : r.generation[x] = 0 \/ base < r.generation[x]
<1> DEFINE M == Manifest[d].services
           below(x) == {y \in M : y <= x}
           r == FreshRecord(d, base)
<1>1. M \in SUBSET Services /\ IsFiniteSet(M) /\ M \subseteq Nat /\ MaxGeneration \in Nat
    <2>1. M \in SUBSET Services /\ IsFiniteSet(Services) /\ Services \subseteq Nat
        BY LiveAssumption
    <2> QED BY <2>1, FS_Subset, LiveAssumption
<1>2. base + Cardinality(M) <= MaxGeneration /\ Cardinality(M) \in Nat
    BY <1>1, FS_CardinalityType DEF GenerationsFit
<1>3. ASSUME NEW x \in M
      PROVE  Cardinality(below(x)) \in Nat \ {0} /\ Cardinality(below(x)) <= Cardinality(M)
    <2>1. below(x) \in SUBSET M /\ x \in below(x)
        BY <1>1
    <2>2. IsFiniteSet(below(x)) /\ Cardinality(below(x)) <= Cardinality(M)
        BY <1>1, <2>1, FS_Subset
    <2>3. Cardinality(below(x)) \in Nat
        BY <2>2, FS_CardinalityType
    <2>4. Cardinality(below(x)) # 0
        BY <2>1, <2>2, FS_EmptySet
    <2> QED BY <2>2, <2>3, <2>4
<1>4. /\ r.digest = d
      /\ r.generation = [x \in Services |-> IF x \in M THEN base + Cardinality(below(x)) ELSE 0]
      /\ r = [digest |-> r.digest, generation |-> r.generation]
    BY DEF FreshRecord
<1> HIDE DEF r, below
<1>5. \A x \in Services :
        /\ x \in M => base < r.generation[x] /\ r.generation[x] \in 1..MaxGeneration
        /\ x \notin M => r.generation[x] = 0
    BY <1>1, <1>2, <1>3, <1>4
<1>6. r \in Record
    <2>1. r.generation \in [Services -> 0..MaxGeneration]
        BY <1>1, <1>4, <1>5
    <2> QED BY <1>4, <2>1 DEF Record
<1>7. Declared(r) = M
    BY <1>1, <1>5 DEF Declared
<1>8. Present(r) /\ WellFormed(r)
    BY <1>4, <1>7, LiveAssumption DEF Present, WellFormed
<1> QED BY <1>4, <1>5, <1>6, <1>7, <1>8 DEF r

-----------------------------------------------------------------------------
(***************************************************************************)
(* The set that an operation publishes.                                    *)
(***************************************************************************)

\* The typing facts that the steps below use.
LEMMA TypeFacts ==
    ASSUME LiveInv
    PROVE  /\ page \in PersistedActiveSet /\ disk \in PersistedActiveSet
           /\ page.revision \in Nat /\ disk.revision \in Nat /\ acked \in Nat
           /\ observed \in [Supervisors -> -1..MaxRevision]
           /\ active \in [Supervisors -> [Packages -> Record]]
           /\ rollback \in [Supervisors -> [Packages -> Record]]
           /\ kept \in [Supervisors -> SUBSET Packages]
           /\ exited \in [Supervisors -> SUBSET Services]
           /\ up \in [Supervisors -> BOOLEAN]
           /\ op = [s \in Supervisors |-> op[s]] /\ bearers = [s \in Supervisors |-> bearers[s]]
           /\ MaxRevision \in Nat /\ MaxGeneration \in Nat
           /\ \A s \in Supervisors : observed[s] \in Int
BY LiveAssumption DEF LiveInv, Types, TypeOK, PersistedActiveSet

\* The next set is coherent and replaces one record; a rollback root is the record it replaces.
LEMMA NextSetMeaning ==
    ASSUME LiveInv, NEW s \in Supervisors, op[s].kind \in Publishing
    PROVE  LET p == op[s].package
               n == NextSet(s) IN
           /\ p \in Packages /\ op[s].record \in Record
           /\ n.revision = observed[s] + 1
           /\ n.active \in [Packages -> Record] /\ n.rollback \in [Packages -> Record]
           /\ n.active = [active[s] EXCEPT ![p] = op[s].record]
           /\ n.active[p] = op[s].record
           /\ \A q \in Packages \ {p} :
                 n.active[q] = active[s][q] /\ n.rollback[q] = rollback[s][q]
           /\ n.rollback[p] = IF op[s].kind # "restart" /\ Present(active[s][p])
                              THEN active[s][p] ELSE rollback[s][p]
           /\ observed[s] < MaxRevision => n \in PersistedActiveSet
           /\ Coherent(n.active, n.rollback)
<1> DEFINE p == op[s].package
           r == op[s].record
           n == NextSet(s)
<1>1. OperationFits(s) /\ Coherent(active[s], rollback[s])
    BY DEF LiveInv, SupervisorInv, OperationInv
<1>2. p \in Packages /\ r \in Record /\ Present(r) /\ WellFormed(r) /\ observed[s] >= 0
    BY <1>1 DEF OperationFits
<1>3. active[s] \in [Packages -> Record] /\ rollback[s] \in [Packages -> Record]
    BY TypeFacts
<1>4. /\ n.revision = observed[s] + 1
      /\ n.active = [active[s] EXCEPT ![p] = r]
      /\ n.rollback = IF op[s].kind # "restart" /\ Present(active[s][p])
                      THEN [rollback[s] EXCEPT ![p] = active[s][p]] ELSE rollback[s]
      /\ n = [revision |-> n.revision, active |-> n.active, rollback |-> n.rollback]
    BY DEF NextSet
<1> HIDE DEF n
<1>5. /\ n.active \in [Packages -> Record] /\ n.rollback \in [Packages -> Record]
      /\ n.active[p] = r
      /\ \A q \in Packages \ {p} : n.active[q] = active[s][q] /\ n.rollback[q] = rollback[s][q]
      /\ n.rollback[p] = IF op[s].kind # "restart" /\ Present(active[s][p])
                         THEN active[s][p] ELSE rollback[s][p]
    BY <1>2, <1>3, <1>4
<1>6. observed[s] < MaxRevision => n \in PersistedActiveSet
    <2>1. observed[s] < MaxRevision => n.revision \in 0..MaxRevision
        BY <1>2, <1>4, TypeFacts
    <2> QED BY <1>4, <1>5, <2>1 DEF PersistedActiveSet
<1>7. Coherent(n.active, n.rollback)
    <2>1. \A q \in Packages : WellFormed(n.active[q]) /\ WellFormed(n.rollback[q])
        BY <1>1, <1>2, <1>5 DEF Coherent
    <2>2. \A q \in Packages : Present(n.rollback[q]) =>
            Present(n.active[q]) /\ n.rollback[q].digest # n.active[q].digest
        BY <1>1, <1>2, <1>5 DEF Coherent, OperationFits, Present
    <2>3. ASSUME NEW q \in Packages, NEW t \in Packages, q # t
          PROVE  Declared(n.active[q]) \cap Declared(n.active[t]) = {}
        <3>1. \A u \in Packages \ {p} : Declared(r) \cap Declared(active[s][u]) = {}
            BY <1>1 DEF OperationFits
        <3>2. Declared(active[s][q]) \cap Declared(active[s][t]) = {}
            BY <1>1, <2>3 DEF Coherent
        <3>3. CASE q = p
            BY <1>5, <2>3, <3>1, <3>3
        <3>4. CASE t = p
            BY <1>5, <2>3, <3>1, <3>4
        <3>5. CASE q # p /\ t # p
            BY <1>5, <3>2, <3>5
        <3> QED BY <3>3, <3>4, <3>5
    <2> QED BY <2>1, <2>2, <2>3 DEF Coherent
<1> QED BY <1>2, <1>4, <1>5, <1>6, <1>7 DEF n

-----------------------------------------------------------------------------
(***************************************************************************)
(* Every step keeps the invariant.                                         *)
(***************************************************************************)

\* A supervisor that a step leaves alone, while the file stays as it is.
LEMMA Bystander ==
    ASSUME LiveInv, NEW t \in Supervisors, page' = page,
           active'[t] = active[t], rollback'[t] = rollback[t], observed'[t] = observed[t],
           op'[t] = op[t], bearers'[t] \subseteq bearers[t], lock' = t => lock = t
    PROVE  SupervisorInv(t)'
<1>1. SupervisorInv(t)
    BY DEF LiveInv
<1>2. Known(observed[t], active[t], rollback[t])'
    BY <1>1 DEF SupervisorInv, Known
<1>3. OperationInv(t)'
    BY <1>1 DEF SupervisorInv, OperationInv, OperationFits, Known, Rotates
<1>4. NextSet(t)' = NextSet(t)
    BY DEF NextSet
<1> QED BY <1>1, <1>2, <1>3, <1>4 DEF SupervisorInv, Names

\* A step that only moves on the operation of one supervisor.
LEMMA OperationStep ==
    ASSUME LiveInv, NEW s \in Supervisors, NEW o,
           op' = [op EXCEPT ![s] = o], up' \in [Supervisors -> BOOLEAN],
           UNCHANGED <<page, disk, lock, observed, memory, acked>>,
           lock # s, OperationInv(s)'
    PROVE  LiveInv'
<1>1. /\ UNCHANGED <<page, disk, lock, observed, active, rollback, kept, exited, bearers, acked>>
      /\ op'[s] = o /\ \A t \in Supervisors \ {s} : op'[t] = op[t]
    BY TypeFacts DEF memory
<1>2. \A t \in Supervisors \ {s} : SupervisorInv(t)'
    BY <1>1, Bystander
<1>3. SupervisorInv(s)'
    BY <1>1 DEF LiveInv, SupervisorInv, Known, Names
<1>4. \A t \in Supervisors : op'[t].kind \in {"idle", "reconstruct", "restarting"} \cup Publishing
    BY <1>2, <1>3 DEF SupervisorInv, OperationInv
<1>5. Types'
    BY <1>1, <1>4 DEF LiveInv, Types, TypeOK, Publishing
<1>6. FileInv'
    BY <1>1 DEF LiveInv, FileInv
<1> QED BY <1>2, <1>3, <1>5, <1>6 DEF LiveInv

\* Only a publishing operation holds the lock.
LEMMA Unlocked ==
    ASSUME LiveInv, NEW s \in Supervisors, op[s].kind \notin Publishing
    PROVE  lock # s
BY DEF LiveInv, SupervisorInv

\* The owner of an active service is its only owner.
LEMMA OwnerMeaning ==
    ASSUME LiveInv, NEW s \in Supervisors, NEW x \in ActiveServices(s)
    PROVE  /\ OwnerOf(s, x) \in Packages /\ x \in Declared(active[s][OwnerOf(s, x)])
           /\ x \in Services /\ Present(active[s][OwnerOf(s, x)])
           /\ \A p \in Packages : x \in Declared(active[s][p]) => p = OwnerOf(s, x)
<1>1. \E p \in Packages : x \in Declared(active[s][p])
    BY DEF ActiveServices
<1>2. OwnerOf(s, x) \in Packages /\ x \in Declared(active[s][OwnerOf(s, x)])
    BY <1>1 DEF OwnerOf
<1>3. Coherent(active[s], rollback[s])
    BY DEF LiveInv, SupervisorInv
<1>4. x \in Services /\ Present(active[s][OwnerOf(s, x)])
    <2>1. WellFormed(active[s][OwnerOf(s, x)])
        BY <1>2, <1>3 DEF Coherent
    <2> QED BY <1>2, <2>1 DEF WellFormed, Present, Declared
<1>5. \A p \in Packages : x \in Declared(active[s][p]) => p = OwnerOf(s, x)
    <2> HIDE DEF OwnerOf
    <2> QED BY <1>2, <1>3 DEF Coherent
<1> QED BY <1>2, <1>4, <1>5

\* Staging a fresh record, for an activation or a rollback.
LEMMA StageFits ==
    ASSUME LiveInv, NEW s \in Supervisors, NEW p \in Packages, NEW d \in Digests,
           NEW roots \in SUBSET Packages, NEW kind \in {"activate", "rollback"},
           Ready(s), GenerationsFit(d, MaxGenerationOf(s, roots)),
           ~OwnedElsewhere(s, p, Manifest[d].services), active[s][p].digest # d,
           kind = "rollback" => d = rollback[s][p].digest,
           op' = [op EXCEPT ![s] =
                    Staged(kind, p, FreshRecord(d, MaxGenerationOf(s, roots)), 0, {})],
           UNCHANGED <<page, disk, lock, up, observed, memory, acked>>
    PROVE  LiveInv'
<1> DEFINE base == MaxGenerationOf(s, roots)
           r == FreshRecord(d, base)
           o == Staged(kind, p, r, 0, {})
<1>1. /\ op'[s] = o /\ o.kind = kind /\ o.package = p /\ o.record = r /\ o.rest = {}
    BY TypeFacts DEF Staged
<1>2. base \in 0..MaxGeneration
      /\ \A q \in Packages, y \in Services : active[s][q].generation[y] <= base
    BY TypeFacts, MaxGenerationMeaning
<1> HIDE DEF base
<1>3. /\ r \in Record /\ Present(r) /\ WellFormed(r) /\ r.digest = d
      /\ Declared(r) = Manifest[d].services
      /\ \A x \in Services : r.generation[x] = 0 \/ base < r.generation[x]
    BY <1>2, FreshRecordMeaning DEF base
<1> HIDE DEF r, o
<1>4. \A x \in Services : r.generation[x] = 0 \/ Rotates(s, r.generation[x])
    <2>1. \A x \in Services : r.generation[x] \in Int
        BY <1>3 DEF Record
    <2>2. \A q \in Packages, y \in Services : active[s][q].generation[y] \in Int
        BY TypeFacts DEF Record
    <2>3. base \in Int
        BY <1>2
    <2> QED BY <1>2, <1>3, <2>1, <2>2, <2>3 DEF Rotates
<1>5. \A q \in Packages \ {p} : Declared(r) \cap Declared(active[s][q]) = {}
    BY <1>3 DEF OwnedElsewhere
<1>6. OperationFits(s)'
    BY <1>1, <1>3, <1>4, <1>5 DEF OperationFits, Rotates, memory, Ready
<1>7. OperationInv(s)'
    BY <1>1, <1>6 DEF OperationInv, Publishing
<1>8. lock # s
    BY Unlocked DEF Ready, Idle, Publishing
<1> QED BY <1>7, <1>8, OperationStep, TypeFacts DEF o, r, base

\* activate() stages.
LEMMA ActivateInv ==
    ASSUME LiveInv, NEW s \in Supervisors, NEW d \in Digests, ActivateStage(s, d)
    PROVE  LiveInv'
<1>1. Manifest[d].name \in Packages
    BY LiveAssumption
<1> QED BY <1>1, StageFits DEF ActivateStage

\* prepare_rollback() stages.
LEMMA RollbackInv ==
    ASSUME LiveInv, NEW s \in Supervisors, NEW p \in Packages, RollbackStage(s, p)
    PROVE  LiveInv'
<1> DEFINE d == rollback[s][p].digest
<1>1. d \in Digests /\ WellFormed(rollback[s][p]) /\ active[s][p].digest # d
    <2>1. d \in Digests \cup {NoDigest}
        BY TypeFacts DEF Record
    <2> QED BY <2>1 DEF RollbackStage, MayRollback, Present, LiveInv, SupervisorInv, Coherent
<1>2. Declared(rollback[s][p]) = Manifest[d].services
    BY <1>1, LiveAssumption DEF WellFormed
<1> QED BY <1>1, <1>2, StageFits DEF RollbackStage, MayRollback

\* restart_service() stages: one service of an active record gets the next generation.
LEMMA RestartInv ==
    ASSUME LiveInv, NEW s \in Supervisors, NEW x, NEW rest \in SUBSET Services,
           observed[s] >= 0, lock # s, RestartStage(s, x, rest)
    PROVE  LiveInv'
<1> DEFINE p == OwnerOf(s, x)
           old == active[s][p]
           base == MaxGenerationOf(s, Packages)
           r == [old EXCEPT !.generation[x] = base + 1]
           o == Staged("restart", p, r, x, rest)
<1>1. /\ p \in Packages /\ x \in Declared(old) /\ x \in Services /\ Present(old)
    BY OwnerMeaning DEF RestartStage
<1>2. /\ base \in 0..MaxGeneration /\ base + 1 \in 0..MaxGeneration
      /\ \A q \in Packages, y \in Services : active[s][q].generation[y] <= base
    <2>1. /\ base \in 0..MaxGeneration
          /\ \A q \in Packages, y \in Services : active[s][q].generation[y] <= base
        BY TypeFacts, MaxGenerationMeaning
    <2> QED BY <2>1, TypeFacts DEF RestartStage
<1>3. /\ op' = [op EXCEPT ![s] = o] /\ UNCHANGED <<page, disk, lock, up, observed, memory, acked>>
    BY DEF RestartStage
<1>4. op'[s] = o /\ o.kind = "restart" /\ o.package = p /\ o.record = r /\ o.rest = rest
      /\ o.service = x
    BY <1>3, TypeFacts DEF Staged
<1> HIDE DEF p, base
<1>5. old \in Record /\ Coherent(active[s], rollback[s])
    BY <1>1, TypeFacts DEF LiveInv, SupervisorInv
<1>6. /\ r \in Record /\ r.digest = old.digest /\ r.generation[x] = base + 1
      /\ \A y \in Services \ {x} : r.generation[y] = old.generation[y]
    BY <1>1, <1>2, <1>5 DEF Record
<1> HIDE DEF r, o, old
<1>7. Declared(r) = Declared(old)
    BY <1>1, <1>2, <1>6 DEF Declared
<1>8. Present(r) /\ WellFormed(r)
    BY <1>1, <1>5, <1>6, <1>7 DEF Present, WellFormed, Coherent, old
<1>9. \A q \in Packages \ {p} : Declared(r) \cap Declared(active[s][q]) = {}
    BY <1>1, <1>5, <1>7 DEF Coherent, old
<1>10. Rotates(s, r.generation[x])
    <2>1. \A q \in Packages, y \in Services : active[s][q].generation[y] \in Int
        BY TypeFacts DEF Record
    <2> QED BY <1>2, <1>6, <2>1 DEF Rotates
<1>11. OperationFits(s)'
    BY <1>1, <1>3, <1>4, <1>6, <1>8, <1>9, <1>10 DEF OperationFits, Rotates, memory, old
<1>12. OperationInv(s)'
    BY <1>4, <1>11 DEF OperationInv, Publishing
<1> QED BY <1>3, <1>12, OperationStep, TypeFacts

\* Steps that only move on an operation.
LEMMA OperationSteps ==
    ASSUME LiveInv, NEW s \in Supervisors,
           \/ ReconstructRead(s) \/ ReconstructFails(s) \/ RestartCrashed(s) \/ RestartGivesUp(s)
           \/ RestartService(s) \/ RestartNext(s)
    PROVE  LiveInv'
<1>1. CASE ReconstructRead(s)
    <2>1. op'[s] = [kind |-> "reconstruct", set |-> page] /\ page' = page
        BY <1>1, TypeFacts DEF ReconstructRead
    <2>2. Coherent(page.active, page.rollback) /\ page \in PersistedActiveSet
        BY TypeFacts DEF LiveInv, FileInv
    <2>3. Known(page.revision, page.active, page.rollback)'
        BY <2>1, TypeFacts DEF Known
    <2>4. OperationInv(s)'
        BY <2>1, <2>2, <2>3 DEF OperationInv, Publishing
    <2>5. lock # s
        BY <1>1, Unlocked DEF ReconstructRead, Idle, Publishing
    <2> QED BY <1>1, <2>4, <2>5, OperationStep, TypeFacts DEF ReconstructRead
<1>2. CASE ReconstructFails(s) \/ RestartGivesUp(s)
    <2>1. op' = [op EXCEPT ![s] = Idle] /\ UNCHANGED <<page, disk, lock, up, observed, memory, acked>>
        BY <1>2 DEF ReconstructFails, RestartGivesUp
    <2>2. op'[s] = Idle
        BY <2>1, TypeFacts
    <2>3. OperationInv(s)'
        BY <2>2 DEF OperationInv, Publishing, Idle
    <2>4. lock # s
        BY <1>2, Unlocked DEF ReconstructFails, RestartGivesUp, Publishing
    <2> QED BY <2>1, <2>3, <2>4, OperationStep, TypeFacts
<1>3. CASE RestartCrashed(s)
    <2>1. /\ op'[s] = [kind |-> "restarting", rest |-> exited[s]] /\ observed' = observed
          /\ exited[s] \subseteq Services
        BY <1>3, TypeFacts DEF RestartCrashed
    <2>2. OperationInv(s)'
        BY <1>3, <2>1 DEF OperationInv, Publishing, RestartCrashed, Ready
    <2>3. lock # s
        BY <1>3, Unlocked DEF RestartCrashed, Ready, Idle, Publishing
    <2> QED BY <1>3, <2>2, <2>3, OperationStep, TypeFacts DEF RestartCrashed
<1>4. CASE RestartService(s)
    <2>1. lock # s /\ observed[s] >= 0
        BY <1>4, Unlocked DEF RestartService, Ready, Idle, Publishing
    <2>2. PICK x \in Services : RestartStage(s, x, {})
        BY <1>4 DEF RestartService
    <2> QED BY <2>1, <2>2, RestartInv
<1>5. CASE RestartNext(s)
    <2>1. lock # s /\ observed[s] >= 0 /\ op[s].rest \subseteq Services
        BY <1>5, Unlocked DEF RestartNext, Publishing, LiveInv, SupervisorInv, OperationInv
    <2>2. PICK x \in op[s].rest : RestartStage(s, x, op[s].rest \ {x})
        BY <1>5 DEF RestartNext
    <2> QED BY <2>1, <2>2, RestartInv
<1> QED BY <1>1, <1>2, <1>3, <1>4, <1>5

\* The types of a bearer table's entries.
Bearer == [id : Bearers, service : Services, generation : 1..MaxGeneration, digest : Digests]

\* A step that changes workers and bearers of one supervisor, and no record.
LEMMA WorkerStep ==
    ASSUME LiveInv, NEW s \in Supervisors, NEW B,
           up' \in [Supervisors -> BOOLEAN], kept' \in [Supervisors -> SUBSET Packages],
           exited' \in [Supervisors -> SUBSET Services],
           bearers' = [bearers EXCEPT ![s] = B],
           \A b \in B : b \in Bearer /\ Names(b, active[s]),
           UNCHANGED <<page, disk, lock, observed, active, rollback, op, acked>>
    PROVE  LiveInv'
<1>1. bearers'[s] = B /\ \A t \in Supervisors \ {s} : bearers'[t] = bearers[t]
    BY TypeFacts
<1>2. \A t \in Supervisors \ {s} : SupervisorInv(t)'
    BY <1>1, Bystander
<1>3. SupervisorInv(s)'
    <2>1. SupervisorInv(s)
        BY DEF LiveInv
    <2>2. OperationInv(s)'
        BY <2>1 DEF SupervisorInv, OperationInv, OperationFits, Known, Rotates
    <2>3. NextSet(s)' = NextSet(s)
        BY DEF NextSet
    <2> QED BY <1>1, <2>1, <2>2, <2>3 DEF SupervisorInv, Known, Names
<1>4. \A t \in Supervisors : bearers'[t] \subseteq Bearer
    <2>1. \A t \in Supervisors : bearers[t] \subseteq Bearer
        BY DEF LiveInv, Types, TypeOK, Bearer
    <2> QED BY <1>1, <2>1
<1>5. Types'
    <2>1. bearers' = [t \in Supervisors |-> bearers'[t]]
        BY TypeFacts
    <2> QED BY <1>4, <2>1 DEF LiveInv, Types, TypeOK, Bearer
<1>6. FileInv'
    BY DEF LiveInv, FileInv
<1> QED BY <1>2, <1>3, <1>5, <1>6 DEF LiveInv

\* Capabilities, invocations, workers that exit, and a process that starts.
LEMMA WorkerSteps ==
    ASSUME LiveInv, NEW s \in Supervisors,
           \/ Start(s)
           \/ \E p \in Packages : RollbackStageFails(s, p)
           \/ \E x \in Services, id \in Bearers : ServiceCapability(s, x, id)
           \/ \E x \in Services : ComposeFails(s, x) \/ WorkerExits(s, x)
           \/ \E b \in bearers[s] : Invoke(s, b)
    PROVE  LiveInv'
<1>1. \A b \in bearers[s] : b \in Bearer /\ Names(b, active[s])
    BY DEF LiveInv, Types, TypeOK, Bearer, SupervisorInv
<1>2. bearers = [bearers EXCEPT ![s] = bearers[s]]
    BY TypeFacts
<1>3. CASE Start(s) \/ \E p \in Packages : RollbackStageFails(s, p)
    <2>1. /\ UNCHANGED <<page, disk, lock, observed, active, rollback, op, acked, bearers, exited>>
          /\ up' \in [Supervisors -> BOOLEAN] /\ kept' \in [Supervisors -> SUBSET Packages]
        <3>1. CASE Start(s)
            BY <3>1, TypeFacts DEF Start, memory
        <3>2. ASSUME NEW p \in Packages, RollbackStageFails(s, p)
              PROVE  <2>1!:
            <4>1. kept' = [kept EXCEPT ![s] = kept[s] \ {p}]
                BY <3>2 DEF RollbackStageFails
            <4>2. kept' \in [Supervisors -> SUBSET Packages]
                BY <4>1, TypeFacts
            <4> QED BY <3>2, <4>2, TypeFacts DEF RollbackStageFails
        <3> QED BY <1>3, <3>1, <3>2
    <2> QED BY <1>1, <1>2, <2>1, TypeFacts, WorkerStep
<1>4. ASSUME NEW x \in Services, NEW id \in Bearers, ServiceCapability(s, x, id)
      PROVE  LiveInv'
    <2> DEFINE p == OwnerOf(s, x)
               r == active[s][p]
               b == [id |-> id, service |-> x, generation |-> r.generation[x], digest |-> r.digest]
    <2>1. p \in Packages /\ x \in Declared(r) /\ Present(r)
        BY <1>4, OwnerMeaning DEF ServiceCapability
    <2>2. r \in Record
        BY <2>1, TypeFacts
    <2>3. r.generation[x] \in 1..MaxGeneration /\ r.digest \in Digests
        BY <2>1, <2>2, TypeFacts DEF Declared, Record, Present
    <2>4. b \in Bearer
        BY <2>3 DEF Bearer
    <2>5. Names(b, active[s])
        <3> HIDE DEF p
        <3> QED BY <2>1 DEF Names
    <2>6. /\ bearers' = [bearers EXCEPT ![s] = bearers[s] \cup {b}]
          /\ UNCHANGED <<page, disk, lock, up, observed, active, rollback, kept, exited, op, acked>>
        BY <1>4 DEF ServiceCapability
    <2> HIDE DEF b
    <2>7. \A c \in bearers[s] \cup {b} : c \in Bearer /\ Names(c, active[s])
        BY <1>1, <2>4, <2>5
    <2> QED BY <2>6, <2>7, TypeFacts, WorkerStep
<1>5. ASSUME NEW x \in Services, ComposeFails(s, x) \/ WorkerExits(s, x)
      PROVE  LiveInv'
    <2>1. PICK B \in SUBSET bearers[s] :
            /\ bearers' = [bearers EXCEPT ![s] = B]
            /\ UNCHANGED <<page, disk, lock, up, observed, active, rollback, kept, op, acked>>
            /\ exited' = [exited EXCEPT ![s] = exited[s] \cup {x}]
        BY <1>2, <1>5 DEF ComposeFails, WorkerExits
    <2>2. exited' \in [Supervisors -> SUBSET Services]
        BY <2>1, TypeFacts
    <2> QED BY <1>1, <2>1, <2>2, TypeFacts, WorkerStep
<1>6. ASSUME NEW b \in bearers[s], Invoke(s, b)
      PROVE  LiveInv'
    <2>1. PICK B \in SUBSET bearers[s] :
            /\ bearers' = [bearers EXCEPT ![s] = B]
            /\ UNCHANGED <<page, disk, lock, up, observed, active, rollback, kept, op, acked>>
            /\ exited' = [exited EXCEPT ![s] =
                            IF Stale(s, b) THEN exited[s] ELSE exited[s] \cup {b.service}]
        BY <1>6 DEF Invoke
    <2>2. b.service \in Services
        BY <1>1 DEF Bearer
    <2>3. exited' \in [Supervisors -> SUBSET Services]
        BY <2>1, <2>2, TypeFacts
    <2> QED BY <1>1, <2>1, <2>3, TypeFacts, WorkerStep
<1> QED BY <1>3, <1>4, <1>5, <1>6

\* A step that changes what one supervisor remembers, and neither the file nor what was reported.
LEMMA MemoryStep ==
    ASSUME LiveInv, NEW s \in Supervisors, NEW act, NEW roots, NEW rev, NEW o, NEW B,
           page' = page, disk' = disk, acked' = acked, up' = up,
           lock' \in {lock, Nobody}, lock' # s,
           active' = [active EXCEPT ![s] = act], rollback' = [rollback EXCEPT ![s] = roots],
           observed' = [observed EXCEPT ![s] = rev], op' = [op EXCEPT ![s] = o],
           bearers' = [bearers EXCEPT ![s] = B],
           kept' \in [Supervisors -> SUBSET Packages],
           exited' \in [Supervisors -> SUBSET Services],
           act \in [Packages -> Record], roots \in [Packages -> Record], rev \in -1..MaxRevision,
           Coherent(act, roots), Known(rev, act, roots), OperationInv(s)',
           \A b \in B : b \in Bearer /\ Names(b, act)
    PROVE  LiveInv'
<1>1. /\ active'[s] = act /\ rollback'[s] = roots /\ observed'[s] = rev /\ op'[s] = o
      /\ bearers'[s] = B
      /\ \A t \in Supervisors \ {s} :
            /\ active'[t] = active[t] /\ rollback'[t] = rollback[t] /\ observed'[t] = observed[t]
            /\ op'[t] = op[t] /\ bearers'[t] = bearers[t]
    BY TypeFacts
<1>2. \A t \in Supervisors \ {s} : SupervisorInv(t)'
    <2>1. Nobody \notin Supervisors
        BY LiveAssumption
    <2> QED BY <1>1, <2>1, Bystander
<1>3. SupervisorInv(s)'
    <2>1. Known(observed[s], active[s], rollback[s])'
        BY <1>1 DEF Known
    <2>2. Coherent(active[s], rollback[s])'
        BY <1>1
    <2>3. \A b \in bearers'[s] : Names(b, active'[s])
        BY <1>1
    <2> QED BY <2>1, <2>2, <2>3 DEF SupervisorInv
<1>4. \A t \in Supervisors : op'[t].kind \in {"idle", "reconstruct", "restarting"} \cup Publishing
    BY <1>2, <1>3 DEF SupervisorInv, OperationInv
<1>5. Types'
    <2>1. \A t \in Supervisors : bearers'[t] \subseteq Bearer
        <3>1. \A t \in Supervisors : bearers[t] \subseteq Bearer
            BY DEF LiveInv, Types, TypeOK, Bearer
        <3> QED BY <1>1, <3>1
    <2>2. /\ op' = [t \in Supervisors |-> op'[t]] /\ bearers' = [t \in Supervisors |-> bearers'[t]]
          /\ active' \in [Supervisors -> [Packages -> Record]]
          /\ rollback' \in [Supervisors -> [Packages -> Record]]
          /\ observed' \in [Supervisors -> -1..MaxRevision]
        BY TypeFacts
    <2>3. lock' \in Supervisors \cup {Nobody} /\ acked' \in 0..MaxRevision
        BY DEF LiveInv, Types, TypeOK
    <2> QED BY <1>4, <2>1, <2>2, <2>3, TypeFacts DEF Types, TypeOK, Bearer, Publishing
<1>6. FileInv'
    BY DEF LiveInv, FileInv
<1> QED BY <1>2, <1>3, <1>5, <1>6 DEF LiveInv

\* reconstruct() commits the set it read.
LEMMA ReconstructedInv ==
    ASSUME LiveInv, NEW s \in Supervisors, Reconstructed(s)
    PROVE  LiveInv'
<1> DEFINE set == op[s].set
<1>1. /\ set \in PersistedActiveSet /\ Coherent(set.active, set.rollback)
      /\ Known(set.revision, set.active, set.rollback) /\ lock # s
    BY Unlocked DEF Reconstructed, LiveInv, SupervisorInv, OperationInv, Publishing
<1>2. /\ set.active \in [Packages -> Record] /\ set.rollback \in [Packages -> Record]
      /\ set.revision \in -1..MaxRevision
    BY <1>1, TypeFacts DEF PersistedActiveSet
<1> HIDE DEF set
<1>3. /\ active' = [active EXCEPT ![s] = set.active]
      /\ rollback' = [rollback EXCEPT ![s] = set.rollback]
      /\ observed' = [observed EXCEPT ![s] = set.revision]
      /\ op' = [op EXCEPT ![s] = Idle] /\ bearers' = [bearers EXCEPT ![s] = {}]
      /\ kept' = [kept EXCEPT ![s] = {}] /\ exited' = [exited EXCEPT ![s] = {}]
      /\ UNCHANGED <<page, disk, lock, up, acked>>
    BY DEF Reconstructed, set
<1>4. /\ kept' \in [Supervisors -> SUBSET Packages] /\ exited' \in [Supervisors -> SUBSET Services]
      /\ op'[s] = Idle
    BY <1>3, TypeFacts
<1>5. OperationInv(s)'
    BY <1>4 DEF OperationInv, Idle, Publishing
<1>6. lock' \in {lock, Nobody} /\ lock' # s
    BY <1>1, <1>3
<1>7. page' = page /\ disk' = disk /\ acked' = acked /\ up' = up
    BY <1>3
<1> DEFINE act == set.active
           roots == set.rollback
           rev == set.revision
           idle == Idle
           B == {}
<1> HIDE DEF act, roots, rev, idle, B
<1>8. /\ active' = [active EXCEPT ![s] = act] /\ rollback' = [rollback EXCEPT ![s] = roots]
      /\ observed' = [observed EXCEPT ![s] = rev] /\ op' = [op EXCEPT ![s] = idle]
      /\ bearers' = [bearers EXCEPT ![s] = B]
      /\ act \in [Packages -> Record] /\ roots \in [Packages -> Record] /\ rev \in -1..MaxRevision
      /\ Coherent(act, roots) /\ Known(rev, act, roots)
      /\ \A b \in B : b \in Bearer /\ Names(b, act)
    BY <1>1, <1>2, <1>3 DEF act, roots, rev, idle, B
<1> QED BY <1>4, <1>5, <1>6, <1>7, <1>8, MemoryStep

\* A publishing operation that fails leaves the digests of its memory as they were.
LEMMA AbortInv ==
    ASSUME LiveInv, NEW s \in Supervisors, op[s].kind \in Publishing, Abort(s),
           page' = page, disk' = disk, lock' \in {lock, Nobody}, lock' # s
    PROVE  LiveInv'
<1> DEFINE p == op[s].package
           r == op[s].record
           back == op[s].kind = "rollback"
           roots == [rollback[s] EXCEPT ![p] = IF back THEN r ELSE rollback[s][p]]
<1>1. OperationFits(s) /\ Coherent(active[s], rollback[s])
      /\ Known(observed[s], active[s], rollback[s])
    BY DEF LiveInv, SupervisorInv, OperationInv
<1>2. p \in Packages /\ r \in Record /\ WellFormed(r)
      /\ (back => r.digest = rollback[s][p].digest)
    BY <1>1 DEF OperationFits
<1>3. /\ rollback' = [rollback EXCEPT ![s] = roots]
      /\ kept' = [kept EXCEPT ![s] = IF back THEN kept[s] \cup {p} ELSE kept[s]]
      /\ op' = [op EXCEPT ![s] = Idle]
      /\ UNCHANGED <<up, observed, active, exited, bearers, acked>>
    BY DEF Abort
<1>4. roots \in [Packages -> Record]
      /\ \A q \in Packages : /\ roots[q].digest = rollback[s][q].digest
                             /\ q # p => roots[q] = rollback[s][q]
                             /\ roots[q] \in {r, rollback[s][q]} /\ (roots[q] = r => WellFormed(r))
    BY <1>2, TypeFacts
<1> HIDE DEF roots
<1>5. Coherent(active[s], roots)
    <2>1. \A q \in Packages : WellFormed(roots[q])
        BY <1>1, <1>2, <1>4 DEF Coherent
    <2> QED BY <1>1, <1>4, <2>1 DEF Coherent, Present
<1>6. Known(observed[s], active[s], roots)
    BY <1>1, <1>4 DEF Known
<1>7. kept' \in [Supervisors -> SUBSET Packages]
    BY <1>2, <1>3, TypeFacts
<1>8. OperationInv(s)'
    <2>1. op'[s] = Idle
        BY <1>3, TypeFacts
    <2> QED BY <2>1 DEF OperationInv, Idle, Publishing
<1>9. \A b \in bearers[s] : b \in Bearer /\ Names(b, active[s])
    BY DEF LiveInv, Types, TypeOK, Bearer, SupervisorInv
<1>10. /\ active' = [active EXCEPT ![s] = active[s]] /\ observed' = [observed EXCEPT ![s] = observed[s]]
       /\ bearers' = [bearers EXCEPT ![s] = bearers[s]]
    BY <1>3, TypeFacts
<1> QED BY <1>3, <1>4, <1>5, <1>6, <1>7, <1>8, <1>9, <1>10, TypeFacts, MemoryStep

\* A conflict or an error before the rename, and a barrier that fails after it.
LEMMA FailsInv ==
    ASSUME LiveInv, NEW s \in Supervisors, PublishFails(s) \/ SyncFails(s)
    PROVE  LiveInv'
<1>1. Nobody # s
    BY LiveAssumption
<1>2. CASE PublishFails(s)
    BY <1>1, <1>2, AbortInv DEF PublishFails, IsStaged, Publishing
<1>3. CASE SyncFails(s)
    BY <1>1, <1>3, AbortInv DEF SyncFails, LiveInv, SupervisorInv
<1> QED BY <1>2, <1>3

\* The rename: the file moves to the operation's set, ahead of every other supervisor.
LEMMA PublishInv ==
    ASSUME LiveInv, NEW s \in Supervisors, PublishRename(s)
    PROVE  LiveInv'
<1>1. /\ op[s].kind \in Publishing /\ page.revision = observed[s] /\ observed[s] < MaxRevision
      /\ page' = NextSet(s) /\ lock' = s
      /\ UNCHANGED <<disk, up, observed, active, rollback, kept, exited, bearers, op, acked>>
    BY DEF PublishRename, IsStaged, Publishing, memory
<1>2. /\ page'.revision = page.revision + 1 /\ page' \in PersistedActiveSet
      /\ Coherent(page'.active, page'.rollback)
    BY <1>1, NextSetMeaning
<1>3. ASSUME NEW t \in Supervisors
      PROVE  SupervisorInv(t)'
    <2>1. SupervisorInv(t)
        BY DEF LiveInv
    <2>3. Known(observed[t], active[t], rollback[t])'
        <3>1. observed[t] \in Int /\ Known(observed[t], active[t], rollback[t])
            BY <2>1, TypeFacts DEF SupervisorInv
        <3> QED BY <1>1, <1>2, <3>1, TypeFacts DEF Known
    <2>4. OperationInv(t)'
        <3>1. op[t].kind = "reconstruct" =>
                Known(op[t].set.revision, op[t].set.active, op[t].set.rollback)'
            <4>1. op[t].kind = "reconstruct" => op[t].set.revision \in Int
                BY <2>1 DEF SupervisorInv, OperationInv, PersistedActiveSet
            <4> QED BY <1>1, <1>2, <2>1, <4>1, TypeFacts DEF SupervisorInv, OperationInv, Known
        <3>2. op[t].kind \in Publishing => OperationFits(t)'
            BY <1>1, <2>1 DEF SupervisorInv, OperationInv, OperationFits, Rotates
        <3> QED BY <1>1, <2>1, <3>1, <3>2 DEF SupervisorInv, OperationInv
    <2>5. NextSet(s)' = NextSet(s)
        BY <1>1 DEF NextSet
    <2> QED BY <1>1, <2>1, <2>3, <2>4, <2>5 DEF SupervisorInv, Names
<1>4. Types'
    BY <1>1, <1>2 DEF LiveInv, Types, TypeOK
<1>5. FileInv'
    BY <1>1, <1>2, TypeFacts DEF LiveInv, FileInv
<1> QED BY <1>3, <1>4, <1>5 DEF LiveInv

\* What a commit leaves in the bearer table names the records that it leaves active.
LEMMA CommitBearers ==
    ASSUME LiveInv, NEW s \in Supervisors, op[s].kind \in Publishing,
           NEW b \in bearers[s], b.service \notin Affected(s)
    PROVE  Names(b, NextSet(s).active)
<1> DEFINE p == op[s].package
           n == NextSet(s)
<1>1. /\ p \in Packages /\ n.active[p] = op[s].record
      /\ \A q \in Packages \ {p} : n.active[q] = active[s][q]
      /\ n.rollback[p] = IF op[s].kind # "restart" /\ Present(active[s][p])
                         THEN active[s][p] ELSE rollback[s][p]
    BY NextSetMeaning
<1>2. PICK q \in Packages : /\ b.service \in Declared(active[s][q])
                            /\ b.generation = active[s][q].generation[b.service]
                            /\ b.digest = active[s][q].digest
    BY DEF LiveInv, SupervisorInv, Names
<1>3. CASE q # p
    BY <1>1, <1>2, <1>3 DEF Names
<1>4. CASE q = p
    <2>1. Present(active[s][p])
        <3>1. WellFormed(active[s][p])
            BY <1>1 DEF LiveInv, SupervisorInv, Coherent
        <3> QED BY <1>2, <1>4, <3>1 DEF WellFormed, Present
    <2>2. op[s].kind = "restart"
        BY <1>1, <1>2, <1>4, <2>1 DEF Affected
    <2>3. OperationFits(s) /\ b.service # op[s].service /\ b.service \in Services
        BY <1>2, <2>2 DEF LiveInv, SupervisorInv, OperationInv, Affected, Declared
    <2>4. /\ op[s].record.digest = active[s][p].digest
          /\ op[s].record.generation[b.service] = active[s][p].generation[b.service]
        BY <2>2, <2>3 DEF OperationFits
    <2>5. b.service \in Declared(op[s].record)
        BY <1>2, <1>4, <2>3, <2>4 DEF Declared
    <2> QED BY <1>1, <1>2, <1>4, <2>4, <2>5 DEF Names
<1> QED BY <1>3, <1>4

\* The directory barrier and the in-memory commit: the supervisor's memory becomes the file's set.
LEMMA SyncInv ==
    ASSUME LiveInv, NEW s \in Supervisors, SyncDirectory(s)
    PROVE  LiveInv'
<1> DEFINE n == NextSet(s)
           p == op[s].package
           B == {b \in bearers[s] : b.service \notin Affected(s)}
           o == IF op[s].rest = {} THEN Idle ELSE [kind |-> "restarting", rest |-> op[s].rest]
<1>1. /\ op[s].kind \in Publishing /\ page = n /\ OperationFits(s)
    BY DEF LiveInv, SupervisorInv, OperationInv, SyncDirectory
<1>2. /\ n.revision = observed[s] + 1 /\ Coherent(n.active, n.rollback) /\ p \in Packages
      /\ n.active \in [Packages -> Record] /\ n.rollback \in [Packages -> Record]
    BY <1>1, NextSetMeaning
<1>3. op[s].rest \subseteq Services /\ observed[s] >= 0
    BY <1>1 DEF OperationFits
<1>4. /\ disk' = page /\ lock' = Nobody /\ page' = page /\ up' = up /\ acked' = observed[s] + 1
      /\ active' = [active EXCEPT ![s] = n.active] /\ rollback' = [rollback EXCEPT ![s] = n.rollback]
      /\ bearers' = [bearers EXCEPT ![s] = B] /\ op' = [op EXCEPT ![s] = o]
      /\ observed' = [observed EXCEPT ![s] = observed[s] + 1]
    BY DEF SyncDirectory, Commit
<1>5. kept' \in [Supervisors -> SUBSET Packages] /\ exited' \in [Supervisors -> SUBSET Services]
    <2>1. \E K \in SUBSET Packages : kept' = [kept EXCEPT ![s] = K]
        <3>1. kept[s] \in SUBSET Packages
            BY TypeFacts
        <3>2. kept' = [kept EXCEPT ![s] =
                IF op[s].kind # "restart" /\ Present(active[s][p])
                THEN IF Declared(active[s][p]) \cap exited[s] = {} THEN kept[s] \cup {p} ELSE kept[s] \ {p}
                ELSE kept[s]]
            BY DEF SyncDirectory, Commit
        <3> QED BY <1>2, <3>1, <3>2
    <2>2. \E E \in SUBSET Services : exited' = [exited EXCEPT ![s] = E]
        <3>1. exited[s] \in SUBSET Services
            BY TypeFacts
        <3>2. exited' = [exited EXCEPT ![s] = exited[s] \
                IF op[s].kind # "restart" THEN Declared(active[s][p]) \cup Declared(op[s].record)
                ELSE {op[s].service}]
            BY DEF SyncDirectory, Commit
        <3> QED BY <3>1, <3>2
    <2> QED BY <2>1, <2>2, TypeFacts
<1>6. page.revision = observed[s] + 1 /\ page.revision \in 0..MaxRevision
    BY <1>1, <1>2, TypeFacts DEF PersistedActiveSet
<1>7. /\ \A b \in B : b \in Bearer /\ Names(b, n.active)
    <2>1. \A b \in B : b \in Bearer
        BY DEF LiveInv, Types, TypeOK, Bearer
    <2> QED BY <1>1, <2>1, CommitBearers
<1> HIDE DEF n, B
<1>8. /\ active'[s] = n.active /\ rollback'[s] = n.rollback /\ observed'[s] = page.revision
      /\ op'[s] = o /\ bearers'[s] = B
      /\ \A t \in Supervisors \ {s} :
            /\ active'[t] = active[t] /\ rollback'[t] = rollback[t] /\ observed'[t] = observed[t]
            /\ op'[t] = op[t] /\ bearers'[t] = bearers[t]
    BY <1>4, <1>6, TypeFacts
<1>9. \A t \in Supervisors \ {s} : SupervisorInv(t)'
    <2>1. Nobody \notin Supervisors
        BY LiveAssumption
    <2> QED BY <1>4, <1>8, <2>1, Bystander
<1>10. SupervisorInv(s)'
    <2>1. lock' # s
        BY <1>4, LiveAssumption
    <2>2. OperationInv(s)'
        BY <1>3, <1>6, <1>8, TypeFacts DEF OperationInv, Publishing, Idle
    <2>3. Known(observed[s], active[s], rollback[s])'
        BY <1>1, <1>4, <1>8, TypeFacts DEF Known
    <2>4. Coherent(active[s], rollback[s])' /\ \A b \in bearers'[s] : Names(b, active'[s])
        BY <1>2, <1>7, <1>8
    <2> QED BY <2>1, <2>2, <2>3, <2>4 DEF SupervisorInv
<1>11. Types'
    <2>1. \A t \in Supervisors : op'[t].kind \in {"idle", "reconstruct", "restarting"} \cup Publishing
        BY <1>9, <1>10 DEF SupervisorInv, OperationInv
    <2>2. \A t \in Supervisors : bearers'[t] \subseteq Bearer
        <3>1. \A t \in Supervisors : bearers[t] \subseteq Bearer
            BY DEF LiveInv, Types, TypeOK, Bearer
        <3> QED BY <1>7, <1>8, <3>1
    <2>3. /\ op' = [t \in Supervisors |-> op'[t]] /\ bearers' = [t \in Supervisors |-> bearers'[t]]
          /\ active' \in [Supervisors -> [Packages -> Record]]
          /\ rollback' \in [Supervisors -> [Packages -> Record]]
          /\ observed' \in [Supervisors -> -1..MaxRevision]
        <3>1. observed[s] + 1 \in -1..MaxRevision
            BY <1>6, TypeFacts
        <3> HIDE DEF o
        <3> QED BY <1>2, <1>4, <3>1, TypeFacts
    <2>4. lock' \in Supervisors \cup {Nobody} /\ acked' \in 0..MaxRevision
        BY <1>4, <1>6
    <2> QED BY <1>4, <1>5, <2>1, <2>2, <2>3, <2>4, TypeFacts DEF Types, TypeOK, Bearer, Publishing
<1>12. FileInv'
    BY <1>4, <1>6, TypeFacts DEF LiveInv, FileInv
<1> QED BY <1>9, <1>10, <1>11, <1>12 DEF LiveInv

\* The empty set, of a file that was never written and of a supervisor that forgot everything.
LEMMA EmptyMeaning ==
    /\ EmptySet \in PersistedActiveSet /\ EmptySet.revision = 0
    /\ EmptySet.active \in [Packages -> Record] /\ EmptySet.rollback \in [Packages -> Record]
    /\ Coherent(EmptySet.active, EmptySet.rollback)
<1>1. Absent \in Record /\ Absent.digest = NoDigest /\ Declared(Absent) = {}
    BY LiveAssumption DEF Absent, Record, Declared
<1>2. /\ EmptySet.revision = 0 /\ EmptySet.active = [p \in Packages |-> Absent]
      /\ EmptySet.rollback = [p \in Packages |-> Absent]
      /\ EmptySet = [revision |-> EmptySet.revision, active |-> EmptySet.active,
                     rollback |-> EmptySet.rollback]
    BY DEF EmptySet
<1> HIDE DEF EmptySet, Absent
<1>3. EmptySet \in PersistedActiveSet
    BY <1>1, <1>2, LiveAssumption DEF PersistedActiveSet
<1>4. Coherent(EmptySet.active, EmptySet.rollback)
    BY <1>1, <1>2 DEF Coherent, WellFormed, Present
<1> QED BY <1>1, <1>2, <1>3, <1>4

\* The processes in S die; a power loss also settles which of its two sets the file holds.
LEMMA ForgetInv ==
    ASSUME LiveInv, NEW S \in SUBSET Supervisors, Forget(S), acked' = acked,
           \/ page' = page /\ disk' = disk
           \/ S = Supervisors /\ page' \in {page, disk} /\ disk' = page'
    PROVE  LiveInv'
<1>1. /\ page' \in PersistedActiveSet /\ disk' \in PersistedActiveSet
      /\ page'.revision \in Nat /\ FileInv'
    BY TypeFacts DEF LiveInv, FileInv
<1>2. ASSUME NEW t \in S
      PROVE  SupervisorInv(t)'
    <2>1. /\ active'[t] = EmptySet.active /\ rollback'[t] = EmptySet.rollback
          /\ observed'[t] = -1 /\ op'[t] = Idle /\ bearers'[t] = {} /\ lock' # t
        BY LiveAssumption DEF Forget
    <2>2. Coherent(active[t], rollback[t])'
        BY <2>1, EmptyMeaning
    <2>3. Known(observed[t], active[t], rollback[t])'
        BY <1>1, <2>1 DEF Known
    <2>4. OperationInv(t)'
        BY <2>1 DEF OperationInv, Idle, Publishing
    <2> QED BY <2>1, <2>2, <2>3, <2>4 DEF SupervisorInv
<1>3. ASSUME NEW t \in Supervisors \ S
      PROVE  SupervisorInv(t)'
    <2>1. /\ active'[t] = active[t] /\ rollback'[t] = rollback[t] /\ observed'[t] = observed[t]
          /\ op'[t] = op[t] /\ bearers'[t] = bearers[t]
        BY DEF Forget
    <2>2. lock' = t => lock = t
        BY LiveAssumption DEF Forget
    <2>3. page' = page
        OBVIOUS
    <2> QED BY <2>1, <2>2, <2>3, Bystander
<1>4. Types'
    <2>1. \A t \in Supervisors : op'[t].kind \in {"idle", "reconstruct", "restarting"} \cup Publishing
        BY <1>2, <1>3 DEF SupervisorInv, OperationInv
    <2>2. \A t \in Supervisors : bearers'[t] \subseteq Bearer
        <3>1. \A t \in Supervisors : bearers[t] \subseteq Bearer
            BY DEF LiveInv, Types, TypeOK, Bearer
        <3> QED BY <3>1 DEF Forget
    <2>3. op' = [t \in Supervisors |-> op'[t]] /\ bearers' = [t \in Supervisors |-> bearers'[t]]
        BY DEF Forget
    <2>4. /\ active' \in [Supervisors -> [Packages -> Record]]
          /\ rollback' \in [Supervisors -> [Packages -> Record]]
        BY EmptyMeaning, TypeFacts DEF Forget
    <2>5. observed' \in [Supervisors -> -1..MaxRevision]
        BY TypeFacts DEF Forget
    <2>6. up' \in [Supervisors -> BOOLEAN]
        BY TypeFacts DEF Forget
    <2>7. kept' \in [Supervisors -> SUBSET Packages] /\ exited' \in [Supervisors -> SUBSET Services]
        BY TypeFacts DEF Forget
    <2>8. lock' \in Supervisors \cup {Nobody} /\ acked' \in 0..MaxRevision
        BY DEF Forget, LiveInv, Types, TypeOK
    <2> QED BY <1>1, <2>1, <2>2, <2>3, <2>4, <2>5, <2>6, <2>7, <2>8
            DEF Types, TypeOK, Bearer, Publishing
<1> QED BY <1>1, <1>2, <1>3, <1>4 DEF LiveInv

\* The first state.
LEMMA InitInv == Init => LiveInv
<1> SUFFICES ASSUME Init PROVE LiveInv
    OBVIOUS
<1>1. /\ page = EmptySet /\ disk = EmptySet /\ lock = Nobody /\ acked = 0
      /\ \A s \in Supervisors :
            /\ active[s] = EmptySet.active /\ rollback[s] = EmptySet.rollback
            /\ observed[s] = -1 /\ op[s] = Idle /\ bearers[s] = {}
      /\ Nobody \notin Supervisors
    BY LiveAssumption DEF Init
<1>2. FileInv
    BY <1>1, EmptyMeaning DEF FileInv
<1>3. ASSUME NEW s \in Supervisors
      PROVE  SupervisorInv(s)
    <2>1. Coherent(active[s], rollback[s]) /\ lock # s
        BY <1>1, EmptyMeaning
    <2>2. Known(observed[s], active[s], rollback[s])
        BY <1>1, EmptyMeaning DEF Known
    <2>3. OperationInv(s)
        BY <1>1 DEF OperationInv, Idle, Publishing
    <2> QED BY <1>1, <2>1, <2>2, <2>3 DEF SupervisorInv
<1>4. Types
    <2>1. /\ active \in [Supervisors -> [Packages -> Record]]
          /\ rollback \in [Supervisors -> [Packages -> Record]]
        BY EmptyMeaning DEF Init
    <2>2. /\ observed \in [Supervisors -> -1..MaxRevision] /\ acked \in 0..MaxRevision
        BY LiveAssumption DEF Init
    <2>3. op = [s \in Supervisors |-> op[s]] /\ bearers = [s \in Supervisors |-> bearers[s]]
        BY DEF Init
    <2>4. /\ up \in [Supervisors -> BOOLEAN] /\ kept \in [Supervisors -> SUBSET Packages]
          /\ exited \in [Supervisors -> SUBSET Services]
        BY DEF Init
    <2>5. \A s \in Supervisors : op[s].kind = "idle"
        BY <1>1 DEF Idle
    <2> QED BY <1>1, <2>1, <2>2, <2>3, <2>4, <2>5, EmptyMeaning DEF Types, TypeOK
<1> QED BY <1>2, <1>3, <1>4 DEF LiveInv

\* Every step keeps the invariant.
LEMMA NextInv == LiveInv /\ [Next]_vars => LiveInv'
<1> SUFFICES ASSUME LiveInv, [Next]_vars PROVE LiveInv'
    OBVIOUS
<1>1. CASE UNCHANGED vars
    <2>1. UNCHANGED <<page, disk, lock, up, observed, active, rollback, kept, exited, bearers, op, acked>>
        BY <1>1 DEF vars, memory
    <2>2. \A t \in Supervisors : SupervisorInv(t)'
        BY <2>1, Bystander
    <2>3. Types' /\ FileInv'
        BY <2>1 DEF LiveInv, Types, TypeOK, FileInv
    <2> QED BY <2>2, <2>3 DEF LiveInv
<1>2. ASSUME NEW s \in Supervisors, SupervisorStep(s)
      PROVE  LiveInv'
    <2>1. CASE Start(s) \/ (\E p \in Packages : RollbackStageFails(s, p))
               \/ (\E x \in Services, id \in Bearers : ServiceCapability(s, x, id))
               \/ (\E x \in Services : ComposeFails(s, x) \/ WorkerExits(s, x))
               \/ (\E b \in bearers[s] : Invoke(s, b))
        BY <2>1, WorkerSteps
    <2>2. CASE ReconstructRead(s) \/ ReconstructFails(s) \/ RestartCrashed(s) \/ RestartGivesUp(s)
               \/ RestartService(s) \/ RestartNext(s)
        BY <2>2, OperationSteps
    <2>3. CASE \E d \in Digests : ActivateStage(s, d)
        BY <2>3, ActivateInv
    <2>4. CASE \E d \in Digests : ActivateAgain(s, d)
        BY <1>1, <2>4 DEF ActivateAgain
    <2>5. CASE \E p \in Packages : RollbackStage(s, p)
        BY <2>5, RollbackInv
    <2>6. CASE Reconstructed(s)
        BY <2>6, ReconstructedInv
    <2>7. CASE PublishFails(s) \/ SyncFails(s)
        BY <2>7, FailsInv
    <2>8. CASE PublishRename(s)
        BY <2>8, PublishInv
    <2>9. CASE SyncDirectory(s)
        BY <2>9, SyncInv
    <2>10. CASE Crash(s)
        BY <2>10, ForgetInv DEF Crash
    <2> QED BY <1>2, <2>1, <2>2, <2>3, <2>4, <2>5, <2>6, <2>7, <2>8, <2>9, <2>10 DEF SupervisorStep
<1>3. CASE PowerLoss
    BY <1>3, ForgetInv DEF PowerLoss
<1>4. CASE Next
    BY <1>2, <1>3, <1>4 DEF Next
<1> QED BY <1>1, <1>4

\* The invariant, with the type invariant in it, holds in every state of every instance.
THEOREM LiveInvariant == Spec => []LiveInv
BY InitInv, NextInv, PTL DEF Spec

-----------------------------------------------------------------------------
(***************************************************************************)
(* What the invariant says.                                                *)
(***************************************************************************)

\* A supervisor at the file's revision holds what the file holds, so the compare on the revision
\* alone in compare_exchange_active_set compares the sets.
THEOREM ComparesTheSet == Spec => []ViewIsTheFile
<1>1. LiveInv => ViewIsTheFile
    BY DEF LiveInv, SupervisorInv, Known, ViewIsTheFile
<1> QED BY <1>1, LiveInvariant, PTL

\* No bearer outlives the generation or the version it names (revoke_services).
THEOREM BearersNameWorkers == Spec => []BearersAreCurrent
<1>1. LiveInv => BearersAreCurrent
    <2> SUFFICES ASSUME LiveInv, NEW s \in Supervisors, NEW b \in bearers[s]
                 PROVE  /\ b.service \in ActiveServices(s)
                        /\ active[s][OwnerOf(s, b.service)].generation[b.service] = b.generation
                        /\ active[s][OwnerOf(s, b.service)].digest = b.digest
        BY DEF BearersAreCurrent
    <2>1. PICK p \in Packages : /\ b.service \in Declared(active[s][p])
                                /\ b.generation = active[s][p].generation[b.service]
                                /\ b.digest = active[s][p].digest
        BY DEF LiveInv, SupervisorInv, Names
    <2>2. b.service \in ActiveServices(s)
        BY <2>1 DEF ActiveServices
    <2>3. p = OwnerOf(s, b.service)
        BY <2>1, <2>2, OwnerMeaning
    <2> QED BY <2>1, <2>2, <2>3
<1> QED BY <1>1, LiveInvariant, PTL

\* A revision reported as committed is on the disk, whatever crashes.
THEOREM CommittedIsDurable == Spec => []AckedIsDurable
<1>1. LiveInv => AckedIsDurable
    BY DEF LiveInv, FileInv, AckedIsDurable
<1> QED BY <1>1, LiveInvariant, PTL

-----------------------------------------------------------------------------
(***************************************************************************)
(* What the steps do to the file.                                          *)
(***************************************************************************)

\* Only a rename, a barrier and a power loss reach the file.
LEMMA FileSteps ==
    ASSUME LiveInv, [Next]_vars
    PROVE  \/ page' = page /\ disk' = disk
           \/ \E s \in Supervisors : PublishRename(s)
           \/ disk' = page /\ page' = page
           \/ disk' = disk /\ page' = disk
<1>1. CASE UNCHANGED vars
    BY <1>1 DEF vars
<1>2. ASSUME NEW s \in Supervisors, SupervisorStep(s), ~PublishRename(s)
      PROVE  page' = page /\ disk' \in {disk, page}
    <2>1. CASE SyncDirectory(s)
        BY <2>1 DEF SyncDirectory
    <2>2. CASE ~SyncDirectory(s)
        BY <1>2, <2>2 DEF SupervisorStep, Start, ReconstructRead, Reconstructed, ReconstructFails,
            ActivateStage, ActivateAgain, RollbackStage, RollbackStageFails, RestartService,
            RestartStage, RestartCrashed, RestartNext, RestartGivesUp, PublishFails, SyncFails,
            ServiceCapability, ComposeFails, WorkerExits, Invoke, Crash, vars
    <2> QED BY <2>1, <2>2
<1>3. CASE PowerLoss
    BY <1>3 DEF PowerLoss
<1>4. CASE Next
    BY <1>2, <1>3, <1>4 DEF Next
<1> QED BY <1>1, <1>4

\* A rename replaces one record of the file's own set.
LEMMA RenameMeaning ==
    ASSUME LiveInv, NEW s \in Supervisors, PublishRename(s)
    PROVE  LET p == op[s].package
               r == op[s].record IN
           /\ p \in Packages /\ r \in Record /\ r.digest \in Digests
           /\ page' = NextSet(s) /\ disk' = disk
           /\ page'.revision = page.revision + 1
           /\ page'.active = [page.active EXCEPT ![p] = r]
           /\ page.active = active[s]
           /\ \A q \in Packages \ {p} : page'.rollback[q].digest = page.rollback[q].digest
           /\ page'.rollback[p].digest =
                IF op[s].kind # "restart" THEN page.active[p].digest ELSE page.rollback[p].digest
           /\ OperationFits(s)
<1> DEFINE p == op[s].package
           r == op[s].record
<1>1. /\ op[s].kind \in Publishing /\ page.revision = observed[s] /\ page' = NextSet(s) /\ disk' = disk
    BY DEF PublishRename, IsStaged, Publishing
<1>2. /\ OperationFits(s) /\ page.active = active[s] /\ Coherent(active[s], rollback[s])
      /\ \A q \in Packages : rollback[s][q].digest = page.rollback[q].digest
    BY <1>1 DEF LiveInv, SupervisorInv, OperationInv, Known
<1>3. p \in Packages /\ r \in Record /\ r.digest \in Digests
    BY <1>2 DEF OperationFits, Present, Record
<1>4. /\ page'.revision = page.revision + 1 /\ page'.active = [page.active EXCEPT ![p] = r]
      /\ \A q \in Packages \ {p} : page'.rollback[q].digest = page.rollback[q].digest
    BY <1>1, <1>2, NextSetMeaning
<1>5. page'.rollback[p] = IF op[s].kind # "restart" /\ Present(active[s][p])
                          THEN active[s][p] ELSE rollback[s][p]
    BY <1>1, NextSetMeaning
<1>6. page'.rollback[p].digest =
        IF op[s].kind # "restart" THEN page.active[p].digest ELSE page.rollback[p].digest
    BY <1>2, <1>3, <1>5 DEF Coherent, Present
<1> QED BY <1>1, <1>2, <1>3, <1>4, <1>6

\* A published change shows, and what it changes gets generations above all those it replaces.
THEOREM PublicationsRotate == Spec => GenerationsRotate
<1> DEFINE now(p, x) == page'.active[p].generation[x]
           Fresh == {g \in 1..MaxGeneration :
                       \A h \in Generations(RecordsOf(page.active, Packages)) : h < g}
           Goal == page'.revision > page.revision =>
                     /\ page'.active # page.active
                     /\ \A p \in Packages, x \in Services :
                          now(p, x) \in {0, page.active[p].generation[x]} \cup Fresh
<1>1. ASSUME LiveInv, NEW s \in Supervisors, PublishRename(s)
      PROVE  Goal
    <2> DEFINE p == op[s].package
               r == op[s].record
    <2>1. /\ p \in Packages /\ r \in Record /\ OperationFits(s) /\ page.active = active[s]
          /\ page'.active = [active[s] EXCEPT ![p] = r]
        BY <1>1, RenameMeaning
    <2>2. active[s] \in [Packages -> Record]
        BY <1>1, TypeFacts
    <2>3. page'.active[p] = r /\ \A q \in Packages \ {p} : page'.active[q] = active[s][q]
        BY <2>1, <2>2
    <2>4. page'.active # page.active
        <3>1. CASE op[s].kind # "restart"
            BY <2>1, <2>3, <3>1 DEF OperationFits
        <3>2. CASE op[s].kind = "restart"
            <4>1. op[s].service \in Services /\ Rotates(s, r.generation[op[s].service])
                BY <2>1, <3>2 DEF OperationFits
            <4>2. active[s][p].generation[op[s].service] < r.generation[op[s].service]
                BY <2>1, <4>1 DEF Rotates
            <4>3. active[s][p].generation[op[s].service] \in Int
                BY <2>1, <2>2, <4>1 DEF Record
            <4> QED BY <2>1, <2>3, <4>2, <4>3
        <3> QED BY <3>1, <3>2
    <2>5. ASSUME NEW q \in Packages, NEW x \in Services
          PROVE  now(q, x) \in {0, page.active[q].generation[x]} \cup Fresh
        <3>1. CASE q # p
            BY <2>1, <2>3, <3>1
        <3>2. CASE q = p /\ Rotates(s, r.generation[x]) /\ r.generation[x] # 0
            <4>1. r.generation[x] \in 1..MaxGeneration
                BY <1>1, <2>1, <3>2, TypeFacts DEF Record
            <4>2. \A h \in Generations(RecordsOf(page.active, Packages)) : h < r.generation[x]
                BY <2>1, <3>2 DEF Rotates, Generations, RecordsOf
            <4> QED BY <2>3, <3>2, <4>1, <4>2
        <3>3. CASE q = p /\ (r.generation[x] = 0 \/ r.generation[x] = active[s][p].generation[x])
            BY <2>1, <2>3, <3>3
        <3> QED BY <2>1, <3>1, <3>2, <3>3 DEF OperationFits
    <2> QED BY <2>4, <2>5
<1>2. LiveInv /\ [Next]_vars => Goal
    <2> SUFFICES ASSUME LiveInv, [Next]_vars PROVE Goal
        OBVIOUS
    <2>1. CASE \E s \in Supervisors : PublishRename(s)
        BY <1>1, <2>1
    <2>2. CASE page' \in {page, disk}
        <3>1. disk.revision <= page.revision
            BY DEF LiveInv, FileInv
        <3>2. ~(page'.revision > page.revision)
            BY <2>2, <3>1, TypeFacts
        <3> QED BY <3>2
    <2> QED BY <2>1, <2>2, FileSteps
<1>3. LiveInv /\ [Next]_vars => [Goal]_vars
    BY <1>2
<1>4. Spec => [][Goal]_vars
    BY <1>3, LiveInvariant, PTL DEF Spec
<1> QED BY <1>4 DEF GenerationsRotate

-----------------------------------------------------------------------------
(***************************************************************************)
(* The active-set file implements ActiveSetRegister.                       *)
(***************************************************************************)

\* The first file is the empty register.
LEMMA RegisterInit == Init => Register!Init
<1> SUFFICES ASSUME Init PROVE Register!Init
    OBVIOUS
<1>1. View(EmptySet) = Register!Empty
    BY DEF View, DigestsOf, EmptySet, Absent, Register!Empty
<1> QED BY <1>1 DEF Init, Register!Init

\* A rename replaces a package's digest or, for a restart, none.
LEMMA RegisterRename ==
    ASSUME LiveInv, NEW s \in Supervisors, PublishRename(s)
    PROVE  Register!Next
<1> DEFINE p == op[s].package
           r == op[s].record
           d == r.digest
<1>1. /\ p \in Packages /\ r \in Record /\ d \in Digests /\ disk' = disk
      /\ page'.revision = page.revision + 1
      /\ page'.active = [page.active EXCEPT ![p] = r]
      /\ page.active = active[s]
      /\ \A q \in Packages \ {p} : page'.rollback[q].digest = page.rollback[q].digest
      /\ page'.rollback[p].digest =
            IF op[s].kind # "restart" THEN page.active[p].digest ELSE page.rollback[p].digest
      /\ OperationFits(s)
    BY RenameMeaning
<1>2. page.active \in [Packages -> Record]
    BY TypeFacts DEF PersistedActiveSet
<1> HIDE DEF p, r
<1>3. DigestsOf(page'.active) = [DigestsOf(page.active) EXCEPT ![p] = d]
    BY <1>1, <1>2 DEF DigestsOf
<1>4. View(disk') = View(disk)
    BY <1>1
<1>5. CASE op[s].kind # "restart"
    <2>1. d # DigestsOf(page.active)[p]
        BY <1>1, <1>5 DEF OperationFits, DigestsOf, p, r
    <2>2. DigestsOf(page'.rollback) =
            [DigestsOf(page.rollback) EXCEPT ![p] = DigestsOf(page.active)[p]]
        BY <1>1, <1>5 DEF DigestsOf
    <2>3. Register!Replace(p, d)
        BY <1>1, <1>3, <1>4, <2>1, <2>2 DEF Register!Replace, View
    <2> QED BY <1>1, <2>3 DEF Register!Next
<1>6. CASE op[s].kind = "restart"
    <2>1. d = DigestsOf(page.active)[p] /\ d # NoDigest
        BY <1>1, <1>6, LiveAssumption DEF OperationFits, DigestsOf, p, r
    <2>2. DigestsOf(page'.active) = DigestsOf(page.active)
        BY <1>1, <1>3, <2>1 DEF DigestsOf
    <2>3. DigestsOf(page'.rollback) = DigestsOf(page.rollback)
        BY <1>1, <1>6 DEF DigestsOf
    <2>4. Register!Restart
        BY <1>1, <1>4, <2>1, <2>2, <2>3 DEF Register!Restart, View
    <2> QED BY <2>4 DEF Register!Next
<1> QED BY <1>5, <1>6

\* The supervisors' file is the register of its readers: one package at a time, computed from the
\* value it replaces, and only what no barrier has settled can be lost.
THEOREM FileIsARegister == Spec => IsARegister
<1>1. LiveInv /\ [Next]_vars => [Register!Next]_(Register!vars)
    <2> SUFFICES ASSUME LiveInv, [Next]_vars PROVE [Register!Next]_(Register!vars)
        OBVIOUS
    <2>1. CASE page' = page /\ disk' = disk
        BY <2>1 DEF Register!vars, View, DigestsOf
    <2>2. CASE \E s \in Supervisors : PublishRename(s)
        BY <2>2, RegisterRename
    <2>3. CASE disk' = page /\ page' = page
        BY <2>3 DEF Register!Next, Register!Settle, View, DigestsOf
    <2>4. CASE disk' = disk /\ page' = disk
        BY <2>4 DEF Register!Next, Register!Lose, View, DigestsOf
    <2> QED BY <2>1, <2>2, <2>3, <2>4, FileSteps
<1> QED BY <1>1, RegisterInit, LiveInvariant, PTL DEF Spec, IsARegister, Register!Spec
=============================================================================
