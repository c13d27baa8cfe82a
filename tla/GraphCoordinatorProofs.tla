----------------------- MODULE GraphCoordinatorProofs -----------------------
(***************************************************************************)
(* Proofs about the graph coordinator, for every plan, every number of     *)
(* operations and slots, and every order of completions: what the trace    *)
(* and the visible outputs are, which failure a run reports, and what may  *)
(* start before what.                                                      *)
(***************************************************************************)
EXTENDS GraphCoordinator, FiniteSetTheorems, SequenceTheorems, WellFoundedInduction, TLAPS

-----------------------------------------------------------------------------
(***************************************************************************)
(* The inductive invariant.  Until the run ends, the settled operations    *)
(* are the first Len(trace), each with its event, and all but perhaps the  *)
(* last have succeeded; so the frontier is the next operation.             *)
(***************************************************************************)

Good == {"finished", "member"}

\* No operation has failed.
AllGood == \A i \in 1 .. Len(trace) : trace[i].kind \in Good

\* The plan and what its operations compute.
PlanInv == plan \in Plans /\ \A o \in Ops : fate[o] \in Fates(o)

\* The settled operations are a prefix of the plan, and only the last may have failed.
PrefixInv ==
    /\ \A o \in Ops : state[o] = "Settled" <=> o <= Len(trace)
    /\ \A i \in 1 .. Len(trace) :
          /\ i \in Ops /\ trace[i].op = i
          /\ trace[i].kind \in Good => ~Stops(i)
          /\ trace[i].kind \notin Good => i = Len(trace) /\ trace[i].kind = "failed" /\ Stops(i)

\* What the pool does for an operation, and what of it is visible.
OpInv(o) ==
    /\ worker[o] # "none" <=> state[o] = "InFlight"
    /\ state[o] \in {"InFlight", "Buffered", "Published"} => WorkerLane(o) /\ fate[o] # "unsafe"
    /\ result[o] \in {"none", fate[o], "infra"}
    /\ worker[o] = "done" \/ state[o] = "Buffered" => result[o] # "none"
    /\ state[o] = "Published" => fate[o] = "ok"
    /\ o \in materialized <=>
          state[o] = "Published" \/ (o <= Len(trace) /\ trace[o].kind \in Good)
    /\ state[o] # "Published" => provisional[o] = 0

\* Provisional results: an operation that started has its inputs, from its own group or settled;
\* a result published early carries the group of every revocable result it is computed from.
PrivateInv(o) ==
    /\ state[o] # "Pending" => \A d \in plan[o].deps :
          state[d] \in {"Published", "Settled"} /\ provisional[d] \in {0, plan[o].group}
    /\ state[o] # "Pending" => \A a \in Ancestors[o] : state[a] # "Pending"
    /\ state[o] = "Published" => \A a \in Ancestors[o] \cup {o} :
          a \in Started /\ WorkerGroup(a) # 0 => provisional[o] = WorkerGroup(a)

\* The operations, while the run lasts.
DataInv == PrefixInv /\ \A o \in Ops : OpInv(o) /\ PrivateInv(o)

DataTypes ==
    /\ fate \in [Ops -> {"ok", "err", "fatal", "unsafe"}]
    /\ state \in [Ops -> {"Pending", "InFlight", "Buffered", "Published", "Settled"}]
    /\ worker \in [Ops -> {"none", "running", "asking", "abandoned", "answered", "gone", "done"}]
    /\ result \in [Ops -> {"none", "ok", "err", "fatal", "infra"}]
    /\ materialized \subseteq Ops /\ provisional \in [Ops -> Nat]
    /\ trace \in Seq([op : Ops, kind : {"finished", "member", "failed", "discarded"}])

Data == DataTypes /\ PlanInv /\ DataInv /\ EffectsInOrder /\ ProvisionalIsPrivate

\* The drive loop has met no failure.
Driving == phase \in {"top", "events", "settle", "plan"}

\* The error of each phase, and how far an abort has got.
ErrorInv ==
    /\ Driving => error = NoError
    /\ phase \in {"abort", "abortsettle"} => error.kind \in {"scheduler", "cancelled"}
    /\ phase = "abortsettle" => Outstanding = {}
    /\ ~AllGood => phase = "discard" /\ error = Fault("semantic", Len(trace))
    /\ phase = "discard" =>
          /\ error.kind # "none" /\ (error.kind = "semantic" => ~AllGood)
          /\ error.kind = "scheduler" =>
                Outstanding = {} /\ \A o \in Ops : AtFrontier(o) => state[o] = "Pending"

\* After the end.
EndInv ==
    /\ \A o \in Ops : worker[o] = "none" /\ state[o] \in {"Pending", "Settled"}
    /\ TraceInOrder /\ FirstFailureWins /\ NoPreemption /\ NothingSurvives

CoordinatorInv ==
    /\ TypeOK /\ PlanInv
    /\ phase # "ended" => DataInv /\ ErrorInv
    /\ phase = "ended" => EndInv
    /\ EffectsInOrder /\ ProvisionalIsPrivate

-----------------------------------------------------------------------------
(***************************************************************************)
(* The plan.                                                               *)
(***************************************************************************)

\* What admission recorded.
LEMMA PlanMeaning ==
    ASSUME PlanInv
    PROVE  /\ NumOps \in Nat
           /\ \A o \in Ops :
                /\ plan[o].adapter \in Adapters /\ plan[o].group \in Nat /\ plan[o].batch \in BOOLEAN
                /\ plan[o].deps \subseteq Ops /\ \A d \in plan[o].deps : d < o
                /\ plan[o].adapter = "shim" => plan[o].group # 0
<1>1. plan \in [Ops -> [adapter : Adapters, group : Nat, batch : BOOLEAN, deps : SUBSET Ops]]
    BY PlanAssumption DEF PlanInv
<1> QED BY <1>1, PlanAssumption DEF PlanInv

\* The ancestors of an operation come before it.
LEMMA AncestorsMeaning ==
    ASSUME PlanInv
    PROVE  \A o \in Ops :
             /\ Ancestors[o] = plan[o].deps \cup UNION {Ancestors[d] : d \in plan[o].deps}
             /\ \A a \in Ancestors[o] : a \in Ops /\ a < o
<1> DEFINE Closed(S, o) == plan[o].deps \subseteq S /\ \A x \in S : plan[x].deps \subseteq S
           F(o) == {a \in Ops : \A S \in SUBSET Ops : Closed(S, o) => a \in S}
           f == [o \in Ops |-> F(o)]
<1>1. \A o \in Ops : plan[o].deps \subseteq Ops /\ \A d \in plan[o].deps : d < o
    BY PlanMeaning
<1>2. ASSUME NEW o \in Ops
      PROVE  F(o) = plan[o].deps \cup UNION {F(d) : d \in plan[o].deps}
    <2> DEFINE R == plan[o].deps \cup UNION {F(d) : d \in plan[o].deps}
    <2>1. R \subseteq F(o)
        <3>1. plan[o].deps \subseteq F(o)
            BY <1>1
        <3>2. \A d \in plan[o].deps : F(d) \subseteq F(o)
            BY <1>1
        <3> QED BY <3>1, <3>2
    <2>2. \A d \in Ops : \A x \in F(d) : plan[x].deps \subseteq F(d)
        BY <1>1
    <2>3. \A d \in Ops : plan[d].deps \subseteq F(d)
        BY <1>1
    <2>4. R \in SUBSET Ops
        BY <1>1
    <2>5. Closed(R, o)
        <3> HIDE DEF F
        <3>1. ASSUME NEW x \in R PROVE plan[x].deps \subseteq R
            <4>1. CASE x \in plan[o].deps
                BY <1>1, <2>3, <4>1
            <4>2. CASE \E d \in plan[o].deps : x \in F(d)
                BY <1>1, <2>2, <4>2
            <4> QED BY <4>1, <4>2
        <3> QED BY <3>1
    <2>6. F(o) \subseteq R
        <3> HIDE DEF R, Closed
        <3> QED BY <2>4, <2>5
    <2> QED BY <2>1, <2>6
<1>3. f = [o \in Ops |-> plan[o].deps \cup UNION {f[d] : d \in plan[o].deps}]
    <2> HIDE DEF F
    <2>1. \A o \in Ops : F(o) = plan[o].deps \cup UNION {f[d] : d \in plan[o].deps}
        <3> SUFFICES ASSUME NEW o \in Ops
                     PROVE  F(o) = plan[o].deps \cup UNION {f[d] : d \in plan[o].deps}
            OBVIOUS
        <3>1. \A d \in plan[o].deps : f[d] = F(d)
            BY <1>1
        <3>2. {f[d] : d \in plan[o].deps} = {F(d) : d \in plan[o].deps}
            BY <3>1
        <3> QED BY <1>2, <3>2
    <2> QED BY <2>1
<1> HIDE DEF f
<1>4. Ancestors = [o \in Ops |-> plan[o].deps \cup UNION {Ancestors[d] : d \in plan[o].deps}]
    BY <1>3 DEF Ancestors
<1>5. \A o \in Ops : Ancestors[o] = plan[o].deps \cup UNION {Ancestors[d] : d \in plan[o].deps}
    BY <1>4
<1> DEFINE Bad == {o \in Ops : \E a \in Ancestors[o] : ~(a \in Ops /\ a < o)}
           Less == OpToRel(<, Nat)
<1>6. Bad = {}
    <2> SUFFICES ASSUME Bad # {} PROVE FALSE
        OBVIOUS
    <2>1. Bad \subseteq Nat /\ Bad # {}
        BY PlanMeaning DEF Ops
    <2> HIDE DEF Bad
    <2>2. PICK o \in Bad : \A u \in Bad : ~(<<u, o>> \in Less)
        BY <2>1, NatLessThanWellFounded, WFMin
    <2>3. \A u \in Bad : ~(u < o)
        BY <2>1, <2>2 DEF OpToRel
    <2>4. PICK a \in Ancestors[o] : ~(a \in Ops /\ a < o)
        BY DEF Bad
    <2>5. o \in Ops
        BY DEF Bad
    <2>6. a \notin plan[o].deps
        BY <1>1, <2>4, <2>5
    <2>7. PICK d \in plan[o].deps : a \in Ancestors[d]
        <3>1. Ancestors[o] = plan[o].deps \cup UNION {Ancestors[d] : d \in plan[o].deps}
            BY <1>5, <2>5
        <3> QED BY <2>4, <2>6, <3>1
    <2>8. d \in Ops /\ d < o
        BY <1>1, <2>5
    <2>9. d \notin Bad
        BY <2>3, <2>8
    <2>10. a \in Ops /\ a < d
        BY <2>7, <2>8, <2>9 DEF Bad
    <2> QED BY <2>4, <2>5, <2>8, <2>10, PlanMeaning DEF Ops
<1> QED BY <1>5, <1>6

-----------------------------------------------------------------------------
(***************************************************************************)
(* The frontier and the trace.                                             *)
(***************************************************************************)

\* The length of the trace, and the parts of the invariant.
LEMMA TraceFacts ==
    ASSUME Data
    PROVE  Len(trace) \in Nat /\ NumOps \in Nat /\ Ops \subseteq Nat /\ PrefixInv
<1>1. Len(trace) \in Nat
    BY LenProperties DEF Data, DataTypes
<1>2. NumOps \in Nat /\ PrefixInv
    BY PlanMeaning DEF Data, DataInv
<1> QED BY <1>1, <1>2 DEF Ops

\* The frontier is the operation after the settled ones.
LEMMA FrontierMeaning ==
    ASSUME Data, NEW o \in Ops, AtFrontier(o)
    PROVE  o = Len(trace) + 1 /\ \A p \in Ops : p < o => state[p] = "Settled"
<1>1. Len(trace) \in Nat /\ PrefixInv
    BY TraceFacts
<1>2. o > Len(trace)
    BY <1>1 DEF AtFrontier, Unsettled, PrefixInv, Ops
<1>3. Len(trace) + 1 \in Ops
    BY <1>1, <1>2, TraceFacts DEF Ops
<1>4. state[Len(trace) + 1] # "Settled"
    BY <1>1, <1>3 DEF PrefixInv
<1>5. o <= Len(trace) + 1
    BY <1>3, <1>4 DEF AtFrontier, Unsettled
<1>6. o = Len(trace) + 1
    BY <1>1, <1>2, <1>5 DEF Ops
<1> QED BY <1>1, <1>6 DEF PrefixInv, Ops

\* An operation has succeeded when its event, at its place, says so.
LEMMA SucceededMeaning ==
    ASSUME Data, NEW o \in Ops
    PROVE  Succeeded(o) <=> o <= Len(trace) /\ trace[o].kind \in Good
BY TraceFacts DEF Succeeded, PrefixInv, Good, Ops

-----------------------------------------------------------------------------
(***************************************************************************)
(* What the steps do to the operations.                                    *)
(***************************************************************************)

dataVars == <<plan, fate, state, worker, result, materialized, provisional, trace>>

\* A step that leaves the operations alone.
LEMMA DataSame ==
    ASSUME Data, UNCHANGED dataVars
    PROVE  Data'
<1>1. UNCHANGED <<plan, fate, state, worker, result, materialized, provisional, trace>>
    BY DEF dataVars
<1>2. Ancestors' = Ancestors /\ Started' = Started
    BY <1>1 DEF Ancestors, Started
<1>3. DataTypes' /\ PlanInv'
    BY <1>1 DEF Data, DataTypes, PlanInv, Fates, WorkerLane
<1>4. PrefixInv'
    BY <1>1 DEF Data, DataInv, PrefixInv, Stops, Infallible
<1>5. \A o \in Ops : OpInv(o)' /\ PrivateInv(o)'
    BY <1>1, <1>2 DEF Data, DataInv, OpInv, WorkerLane, PrivateInv, WorkerGroup
<1>6. EffectsInOrder'
    BY <1>1 DEF Data, EffectsInOrder, Succeeded, WorkerGroup
<1>7. ProvisionalIsPrivate'
    BY <1>1, <1>2 DEF Data, ProvisionalIsPrivate, WorkerGroup
<1> QED BY <1>3, <1>4, <1>5, <1>6, <1>7 DEF Data, DataInv

\* The pool moves on with an operation in flight.
LEMMA PoolData ==
    ASSUME Data, NEW o \in Ops, state[o] = "InFlight",
           NEW w \in {"running", "asking", "abandoned", "answered", "gone", "done"},
           NEW r \in {"none", "ok", "err", "fatal", "infra"},
           r \in {"none", fate[o], "infra"}, w = "done" => r # "none",
           worker' = [worker EXCEPT ![o] = w], result' = [result EXCEPT ![o] = r],
           UNCHANGED <<plan, fate, state, materialized, provisional, trace>>
    PROVE  Data'
<1>1. Ancestors' = Ancestors /\ Started' = Started
    BY DEF Ancestors, Started
<1>2. DataTypes' /\ PlanInv'
    BY DEF Data, DataTypes, PlanInv, Fates, WorkerLane
<1>3. PrefixInv'
    BY DEF Data, DataInv, PrefixInv, Stops, Infallible
<1>4. \A p \in Ops : PrivateInv(p)'
    BY <1>1 DEF Data, DataInv, PrivateInv, WorkerGroup
<1>5. \A p \in Ops : OpInv(p)'
    BY DEF Data, DataTypes, DataInv, OpInv, WorkerLane
<1>6. EffectsInOrder'
    BY DEF Data, EffectsInOrder, Succeeded, WorkerGroup
<1>7. ProvisionalIsPrivate'
    BY <1>1 DEF Data, ProvisionalIsPrivate, WorkerGroup
<1> QED BY <1>2, <1>3, <1>4, <1>5, <1>6, <1>7 DEF Data, DataInv

\* The group of an early publication.
LEMMA PublicationMeaning ==
    ASSUME Data, NEW o \in Ops, state[o] = "InFlight"
    PROVE  /\ PublicationGroup(o) \in Nat
           /\ \A a \in Ancestors[o] \cup {o} :
                 a \in Started /\ WorkerGroup(a) # 0 => PublicationGroup(o) = WorkerGroup(a)
<1> DEFINE inherited == {provisional[d] : d \in plan[o].deps} \ {0}
<1>1. PrivateInv(o) /\ plan[o].group \in Nat /\ plan[o].deps \subseteq Ops
    BY PlanMeaning DEF Data, DataInv
<1>2. inherited \subseteq {plan[o].group}
    BY <1>1 DEF PrivateInv
<1>3. WorkerGroup(o) \in {0, plan[o].group}
    BY DEF WorkerGroup
<1>4. PublicationGroup(o) = IF WorkerGroup(o) # 0 \/ inherited = {} THEN WorkerGroup(o)
                            ELSE plan[o].group
    BY <1>2 DEF PublicationGroup
<1>5. PublicationGroup(o) \in Nat
    BY <1>1, <1>3, <1>4
<1> HIDE DEF inherited
<1>6. ASSUME NEW a \in Ancestors[o], a \in Started, WorkerGroup(a) # 0
      PROVE  PublicationGroup(o) = WorkerGroup(a)
    <2>1. plan[o].group = WorkerGroup(a)
        BY <1>6 DEF Data, ProvisionalIsPrivate
    <2>2. PICK d \in plan[o].deps : a = d \/ a \in Ancestors[d]
        <3>1. Ancestors[o] = plan[o].deps \cup UNION {Ancestors[d] : d \in plan[o].deps}
            BY AncestorsMeaning DEF Data
        <3> QED BY <1>6, <3>1
    <2>3. d \in Ops /\ a \in Ops /\ a <= d
        BY <1>1, <2>2, AncestorsMeaning, TraceFacts DEF Data, Ops
    <2>4. state[d] # "Settled"
        <3>1. state[a] # "Settled"
            BY <1>6 DEF Started
        <3> QED BY <2>3, <3>1, TraceFacts DEF PrefixInv, Ops
    <2>5. state[d] = "Published"
        BY <1>1, <2>4 DEF PrivateInv
    <2>6. provisional[d] = WorkerGroup(a)
        BY <1>6, <2>2, <2>3, <2>5 DEF Data, DataInv, PrivateInv
    <2>7. inherited # {}
        BY <1>6, <2>6 DEF inherited
    <2> QED BY <1>3, <1>4, <2>1, <2>7
<1>7. WorkerGroup(o) # 0 => PublicationGroup(o) = WorkerGroup(o)
    BY <1>4
<1> QED BY <1>5, <1>6, <1>7

\* buffer_worker_completion().
LEMMA BufferData ==
    ASSUME Data, NEW o \in Ops, worker[o] = "done", Buffer(o), UNCHANGED <<plan, fate>>
    PROVE  Data'
<1>1. state[o] = "InFlight" /\ OpInv(o) /\ PrivateInv(o)
    BY DEF Data, DataInv, OpInv
<1>2. Ancestors' = Ancestors /\ trace' = trace
    BY DEF Ancestors, Buffer
<1>3. /\ worker' = [worker EXCEPT ![o] = "none"]
      /\ \A p \in Ops \ {o} : /\ state'[p] = state[p] /\ result'[p] = result[p]
                              /\ provisional'[p] = provisional[p]
                              /\ p \in materialized' <=> p \in materialized
                              /\ worker'[p] = worker[p]
    BY DEF Buffer, Data, DataTypes
<1>4. \/ /\ state'[o] = "Buffered" /\ ~PublishesEarly(o)
         /\ result'[o] = result[o] /\ provisional'[o] = provisional[o]
         /\ materialized' = materialized
      \/ /\ state'[o] = "Published" /\ PublishesEarly(o)
         /\ result'[o] = "none" /\ provisional'[o] = PublicationGroup(o)
         /\ materialized' = materialized \cup {o}
    BY DEF Buffer, Data, DataTypes
<1>5. \A p \in Ops : p \in Started' <=> p \in Started
    BY <1>1, <1>3, <1>4 DEF Started
<1>6. DataTypes' /\ PlanInv'
    <2>1. PublicationGroup(o) \in Nat
        BY <1>1, PublicationMeaning
    <2>2. PlanInv' /\ DataTypes
        BY DEF Data, PlanInv, Fates, WorkerLane
    <2>3. CASE PublishesEarly(o)
        <3>1. provisional' = [provisional EXCEPT ![o] = PublicationGroup(o)]
            BY <2>3 DEF Buffer
        <3>2. provisional' \in [Ops -> Nat]
            BY <2>1, <2>2, <3>1 DEF DataTypes
        <3>3. /\ state' = [state EXCEPT ![o] = "Published"] /\ result' = [result EXCEPT ![o] = "none"]
              /\ materialized' = materialized \cup {o}
            BY <2>3 DEF Buffer
        <3> QED BY <1>2, <1>3, <2>2, <3>2, <3>3 DEF DataTypes
    <2>4. CASE ~PublishesEarly(o)
        BY <2>2, <2>4 DEF Buffer, DataTypes
    <2> QED BY <2>2, <2>3, <2>4
<1>7. PrefixInv'
    <2>1. \A p \in Ops : state'[p] = "Settled" <=> state[p] = "Settled"
        BY <1>1, <1>3, <1>4
    <2> QED BY <1>2, <2>1 DEF Data, DataInv, PrefixInv, Stops, Infallible
<1>8. ASSUME NEW p \in Ops PROVE OpInv(p)'
    <2>1. CASE p # o
        BY <1>2, <1>3, <2>1 DEF Data, DataInv, OpInv, WorkerLane
    <2>2. CASE p = o
        <3>1. worker'[o] = "none"
            BY <1>3 DEF Data, DataTypes
        <3>2. PublishesEarly(o) => fate[o] = "ok"
            BY <1>1 DEF PublishesEarly, OpInv
        <3> QED BY <1>1, <1>2, <1>4, <2>2, <3>1, <3>2 DEF OpInv, WorkerLane
    <2> QED BY <2>1, <2>2
<1>9. ASSUME NEW p \in Ops PROVE PrivateInv(p)'
    <2>1. state'[p] # "Pending" <=> state[p] # "Pending"
        BY <1>1, <1>3, <1>4
    <2>2. state'[p] # "Pending" => \A d \in plan[p].deps :
            state'[d] \in {"Published", "Settled"} /\ provisional'[d] \in {0, plan[p].group}
        <3>1. plan[p].deps \subseteq Ops /\ PrivateInv(p)
            BY PlanMeaning DEF Data, DataInv
        <3>2. state[p] # "Pending" => o \notin plan[p].deps
            BY <1>1, <3>1 DEF PrivateInv
        <3> QED BY <1>3, <2>1, <3>1, <3>2 DEF PrivateInv
    <2>3. ASSUME state'[p] = "Published", NEW a \in Ancestors[p] \cup {p},
                 a \in Started', WorkerGroup(a) # 0
          PROVE  provisional'[p] = WorkerGroup(a)
        <3>1. a \in Started
            BY <1>5, <2>3 DEF Started
        <3>2. CASE p = o
            BY <1>1, <1>4, <2>3, <3>1, <3>2, PublicationMeaning
        <3>3. CASE p # o
            BY <1>3, <2>3, <3>1, <3>3 DEF Data, DataInv, PrivateInv
        <3> QED BY <3>2, <3>3
    <2>4. state'[p] # "Pending" => \A a \in Ancestors[p] : state'[a] # "Pending"
        <3>1. Ancestors[p] \subseteq Ops
            BY AncestorsMeaning DEF Data
        <3> QED BY <1>1, <1>3, <1>4, <2>1, <3>1 DEF Data, DataInv, PrivateInv
    <2> QED BY <1>2, <2>2, <2>3, <2>4 DEF PrivateInv, WorkerGroup
<1>10. \A p \in Ops : state'[p] # "Pending" <=> state[p] # "Pending"
    BY <1>1, <1>3, <1>4
<1>11. EffectsInOrder'
    BY <1>2, <1>10 DEF Data, EffectsInOrder, Succeeded, WorkerGroup
<1>12. ProvisionalIsPrivate'
    <2>1. \A a : a \in Started' => a \in Started
        BY <1>5 DEF Started
    <2> QED BY <1>2, <1>10, <2>1 DEF Data, ProvisionalIsPrivate, WorkerGroup
<1> QED BY <1>6, <1>7, <1>8, <1>9, <1>11, <1>12 DEF Data, DataInv

\* The frontier operation settles with an event: it succeeds, or it is the first to fail.
LEMMA SettleData ==
    ASSUME Data, AllGood, NEW o \in Ops, AtFrontier(o), worker[o] = "none",
           NEW kind \in {"finished", "member", "failed"},
           IF kind \in Good THEN ~Stops(o) ELSE Stops(o),
           state' = [state EXCEPT ![o] = "Settled"], result' = [result EXCEPT ![o] = "none"],
           materialized' = IF kind \in Good THEN materialized \cup {o} ELSE materialized \ {o},
           provisional' = [provisional EXCEPT ![o] = 0],
           trace' = Append(trace, [op |-> o, kind |-> kind]),
           UNCHANGED <<plan, fate, worker>>
    PROVE  Data' /\ (AllGood' <=> kind \in Good) /\ Len(trace') = o
<1> DEFINE e == [op |-> o, kind |-> kind]
<1>1. o = Len(trace) + 1 /\ \A p \in Ops : p < o => state[p] = "Settled"
    BY FrontierMeaning
<1>2. /\ Len(trace') = o /\ trace'[o] = e /\ \A i \in 1 .. Len(trace) : trace'[i] = trace[i]
      /\ trace' \in Seq([op : Ops, kind : {"finished", "member", "failed", "discarded"}])
      /\ e.op = o /\ e.kind = kind
    BY <1>1, AppendProperties DEF Data, DataTypes
<1>3. Len(trace) \in Nat /\ Ops \subseteq Nat /\ PrefixInv
    BY TraceFacts
<1>4. Ancestors' = Ancestors
    BY DEF Ancestors
<1>5. DataTypes' /\ PlanInv'
    BY <1>2 DEF Data, DataTypes, PlanInv, Fates, WorkerLane
<1>6. /\ state'[o] = "Settled" /\ result'[o] = "none" /\ provisional'[o] = 0
      /\ \A p \in Ops \ {o} : /\ state'[p] = state[p] /\ result'[p] = result[p]
                              /\ provisional'[p] = provisional[p]
                              /\ p \in materialized' <=> p \in materialized
    BY DEF Data, DataTypes
<1>7. PrefixInv'
    <2>1. \A p \in Ops : state'[p] = "Settled" <=> p <= Len(trace')
        BY <1>1, <1>2, <1>3, <1>6 DEF PrefixInv
    <2>2. ASSUME NEW i \in 1 .. Len(trace')
          PROVE  /\ i \in Ops /\ trace'[i].op = i
                 /\ trace'[i].kind \in Good => ~Stops(i)
                 /\ trace'[i].kind \notin Good =>
                       i = Len(trace') /\ trace'[i].kind = "failed" /\ Stops(i)
        <3>1. CASE i = o
            BY <1>2, <3>1 DEF Good
        <3>2. CASE i # o
            <4>1. i \in 1 .. Len(trace)
                BY <1>1, <1>2, <1>3, <3>2
            <4> QED BY <1>2, <1>3, <4>1 DEF PrefixInv, AllGood
        <3> QED BY <3>1, <3>2
    <2> QED BY <2>1, <2>2 DEF PrefixInv, Stops, Infallible
<1>8. AllGood' <=> kind \in Good
    BY <1>1, <1>2, <1>3 DEF AllGood
<1>9. ASSUME NEW p \in Ops PROVE OpInv(p)'
    <2>1. OpInv(p)
        BY DEF Data, DataInv
    <2>2. CASE p = o
        BY <1>1, <1>2, <1>3, <1>6, <2>2 DEF OpInv, WorkerLane, Good
    <2>3. CASE p # o
        <3>1. (p <= Len(trace') /\ trace'[p].kind \in Good) <=> (p <= Len(trace) /\ trace[p].kind \in Good)
            BY <1>1, <1>2, <1>3, <2>3 DEF Ops
        <3> QED BY <1>6, <2>1, <2>3, <3>1 DEF OpInv, WorkerLane
    <2> QED BY <2>2, <2>3
<1>10. \A a \in Ops : a \in Started' => a \in Started /\ a # o
    BY <1>6 DEF Started
<1>11. ASSUME NEW p \in Ops PROVE PrivateInv(p)'
    <2>1. plan[p].deps \subseteq Ops /\ PrivateInv(p) /\ \A d \in plan[p].deps : d < p
        BY PlanMeaning DEF Data, DataInv
    <2>2. \A d \in Ops : state[d] = "Settled" => provisional[d] = 0
        BY DEF Data, DataInv, OpInv
    <2>3. state'[p] # "Pending" => \A d \in plan[p].deps :
            state'[d] \in {"Published", "Settled"} /\ provisional'[d] \in {0, plan[p].group}
        <3>1. CASE p = o
            <4>1. \A d \in plan[o].deps : d \in Ops \ {o} /\ d < o
                BY <1>3, <2>1, <3>1
            <4>2. \A d \in plan[o].deps : state'[d] = state[d] /\ provisional'[d] = provisional[d]
                BY <1>6, <4>1
            <4>3. \A d \in plan[o].deps : state[d] = "Settled" /\ provisional[d] = 0
                BY <1>1, <2>2, <4>1
            <4> QED BY <3>1, <4>2, <4>3
        <3>2. CASE p # o
            BY <1>6, <2>1, <3>2 DEF PrivateInv
        <3> QED BY <3>1, <3>2
    <2>4. state'[p] = "Published" => \A a \in Ancestors[p] \cup {p} :
            a \in Started' /\ WorkerGroup(a) # 0 => provisional'[p] = WorkerGroup(a)
        <3>1. \A a \in Ancestors[p] : a \in Ops
            BY AncestorsMeaning DEF Data
        <3> QED BY <1>6, <1>10, <2>1, <3>1 DEF PrivateInv
    <2>5. state'[p] # "Pending" => \A a \in Ancestors[p] : state'[a] # "Pending"
        <3>1. \A a \in Ancestors[p] : a \in Ops /\ a < p
            BY AncestorsMeaning DEF Data
        <3>2. CASE p = o
            BY <1>1, <1>6, <3>1, <3>2
        <3>3. CASE p # o
            BY <1>6, <2>1, <3>1, <3>3 DEF PrivateInv
        <3> QED BY <3>2, <3>3
    <2> QED BY <1>4, <2>3, <2>4, <2>5 DEF PrivateInv, WorkerGroup
<1>12. \A p \in Ops : Succeeded(p) => Succeeded(p)'
    BY <1>1, <1>2, <1>3 DEF Succeeded
<1>13. EffectsInOrder'
    <2>1. \A p \in Ops : p < o => Succeeded(p)
        BY <1>1, <1>3, SucceededMeaning DEF AllGood, PrefixInv, Ops
    <2>2. ASSUME NEW q \in Ops, state'[q] # "Pending", plan[q].adapter \in {"shim", "coordinator"},
                 NEW p \in Ops, p < q,
                 WorkerGroup(q) # 0 => \A u \in Ops : plan[u].group = plan[q].group => p < u
          PROVE  Succeeded(p)'
        <3>1. CASE q = o
            BY <1>12, <2>1, <2>2, <3>1
        <3>2. CASE q # o
            BY <1>6, <1>12, <2>2, <3>2 DEF Data, EffectsInOrder
        <3> QED BY <3>1, <3>2
    <2> QED BY <2>2 DEF EffectsInOrder, WorkerGroup
<1>14. ProvisionalIsPrivate'
    <2>1. ASSUME NEW q \in Ops, state'[q] # "Pending", NEW a \in Ancestors[q],
                 a \in Started', WorkerGroup(a) # 0
          PROVE  plan[q].group = WorkerGroup(a)
        <3>1. a \in Ops /\ a < q /\ a \in Started
            BY <1>10, <2>1, AncestorsMeaning DEF Data
        <3>2. q # o
            BY <1>1, <3>1 DEF Started
        <3> QED BY <1>6, <2>1, <3>1, <3>2 DEF Data, ProvisionalIsPrivate
    <2> QED BY <1>4, <2>1 DEF ProvisionalIsPrivate, WorkerGroup
<1> QED BY <1>2, <1>5, <1>7, <1>8, <1>9, <1>11, <1>13, <1>14 DEF Data, DataInv

\* Workers start only runnable operations, and shims only through their group's boundary.
LEMMA CandidatesMeaning ==
    ASSUME NEW o \in Candidates
    PROVE  o \in Ops /\ Runnable(o) /\ (plan[o].adapter = "shim" => o \in GroupCandidates)
<1>1. o \in GroupCandidates \cup PrefixCandidates \cup {p \in Ops : Runnable(p) /\ Infallible(p)}
    BY DEF Candidates, Lowest
<1>2. o \in GroupCandidates => o \in Ops /\ Runnable(o)
    BY DEF GroupCandidates
<1>3. o \in PrefixCandidates => o \in Ops /\ Runnable(o) /\ plan[o].adapter # "shim"
    BY DEF PrefixCandidates, MayFail
<1> QED BY <1>1, <1>2, <1>3 DEF Infallible

\* dispatch_workers().
LEMMA DispatchData ==
    ASSUME Data, AllGood, NEW sent \in SUBSET Candidates,
           state' = [o \in Ops |-> IF o \in sent THEN "InFlight" ELSE state[o]],
           worker' = [o \in Ops |-> IF o \in sent THEN "running" ELSE worker[o]],
           UNCHANGED <<plan, fate, result, materialized, provisional, trace>>
    PROVE  Data'
<1>1. \A o \in sent : /\ o \in Ops /\ Ready(o) /\ IsWorkerSafe(o)
                      /\ plan[o].adapter = "shim" => o \in GroupCandidates
    BY CandidatesMeaning DEF Runnable
<1>2. /\ \A o \in sent : state'[o] = "InFlight" /\ worker'[o] = "running" /\ state[o] = "Pending"
      /\ \A o \in Ops \ sent : state'[o] = state[o] /\ worker'[o] = worker[o]
    BY <1>1 DEF Ready
<1>3. Ancestors' = Ancestors
    BY DEF Ancestors
<1>4. DataTypes' /\ PlanInv'
    <2>1. PlanInv' /\ DataTypes
        BY DEF Data, PlanInv, Fates, WorkerLane
    <2> QED BY <2>1 DEF DataTypes
<1>5. PrefixInv'
    <2>1. \A p \in Ops : state'[p] = "Settled" <=> state[p] = "Settled"
        BY <1>2
    <2> QED BY <2>1 DEF Data, DataInv, PrefixInv, Stops, Infallible
<1>6. ASSUME NEW p \in Ops PROVE OpInv(p)'
    <2>1. OpInv(p)
        BY DEF Data, DataInv
    <2>2. CASE p \in sent
        BY <1>1, <1>2, <2>1, <2>2 DEF OpInv, WorkerLane, IsWorkerSafe
    <2>3. CASE p \notin sent
        BY <1>2, <2>1, <2>3 DEF OpInv, WorkerLane
    <2> QED BY <2>2, <2>3
<1>7. \A d \in Ops : d \in materialized => d \notin sent /\ state[d] \in {"Published", "Settled"}
    <2>1. \A d \in Ops : d \in materialized => state[d] \in {"Published", "Settled"}
        BY TraceFacts DEF Data, DataInv, OpInv, PrefixInv
    <2> QED BY <1>2, <2>1
<1>8. ASSUME NEW a \in Ops, a \in Started', a \notin Started PROVE a \in sent
    BY <1>2, <1>8 DEF Started
<1>9. ASSUME NEW p \in Ops PROVE PrivateInv(p)'
    <2>1. plan[p].deps \subseteq Ops /\ PrivateInv(p) /\ Ancestors[p] \subseteq Ops
        BY PlanMeaning, AncestorsMeaning DEF Data, DataInv
    <2>2. state'[p] # "Pending" => \A d \in plan[p].deps :
            state'[d] \in {"Published", "Settled"} /\ provisional[d] \in {0, plan[p].group}
        <3>1. CASE p \in sent
            BY <1>1, <1>2, <1>7, <2>1, <3>1 DEF Ready
        <3>2. CASE p \notin sent
            BY <1>2, <2>1, <3>2 DEF PrivateInv
        <3> QED BY <3>1, <3>2
    <2>3. ASSUME state'[p] = "Published", NEW a \in Ancestors[p] \cup {p},
                 a \in Started', WorkerGroup(a) # 0
          PROVE  provisional[p] = WorkerGroup(a)
        <3>1. state[p] = "Published" /\ p \notin sent
            BY <1>2, <2>3
        <3>2. a \notin sent
            BY <1>2, <2>1, <3>1 DEF PrivateInv
        <3> QED BY <1>8, <2>1, <2>3, <3>1, <3>2 DEF PrivateInv
    <2>4. state'[p] # "Pending" => \A a \in Ancestors[p] : state'[a] # "Pending"
        <3>1. state[p] # "Pending" => \A a \in Ancestors[p] : state[a] # "Pending"
            BY <2>1 DEF PrivateInv
        <3>2. \A a \in Ops : state[a] # "Pending" => state'[a] # "Pending"
            BY <1>2
        <3>3. CASE p \notin sent
            BY <1>2, <2>1, <3>1, <3>2, <3>3
        <3>4. ASSUME p \in sent, NEW a \in Ancestors[p]
              PROVE  state[a] # "Pending"
            <4>1. PICK d \in plan[p].deps : a = d \/ a \in Ancestors[d]
                <5>1. Ancestors[p] = plan[p].deps \cup UNION {Ancestors[d] : d \in plan[p].deps}
                    BY AncestorsMeaning DEF Data
                <5> QED BY <3>4, <5>1
            <4>2. d \in Ops /\ state[d] # "Pending" /\ PrivateInv(d)
                BY <1>1, <1>7, <2>1, <3>4 DEF Ready, Data, DataInv
            <4> QED BY <4>1, <4>2 DEF PrivateInv
        <3> QED BY <2>1, <3>2, <3>3, <3>4
    <2> QED BY <1>3, <2>2, <2>3, <2>4 DEF PrivateInv, WorkerGroup
<1>10. EffectsInOrder'
    <2>1. \A p \in Ops : state[p] = "Settled" => Succeeded(p)
        BY TraceFacts, SucceededMeaning DEF AllGood, PrefixInv, Ops
    <2>2. ASSUME NEW q \in Ops, state'[q] # "Pending", plan[q].adapter \in {"shim", "coordinator"},
                 NEW p \in Ops, p < q,
                 WorkerGroup(q) # 0 => \A u \in Ops : plan[u].group = plan[q].group => p < u
          PROVE  Succeeded(p)
        <3>1. CASE q \notin sent
            BY <1>2, <2>2, <3>1 DEF Data, EffectsInOrder
        <3>2. CASE q \in sent
            <4>1. plan[q].adapter = "shim" /\ q \in GroupCandidates
                BY <1>1, <2>2, <3>2 DEF IsWorkerSafe, WorkerLane
            <4>2. WorkerGroup(q) = plan[q].group /\ WorkerGroup(q) # 0
                BY <4>1, PlanMeaning DEF WorkerGroup, Data
            <4>3. PICK first \in Ops : /\ BoundaryClear(first, WorkerGroup(first))
                                       /\ WorkerGroup(q) = WorkerGroup(first)
                BY <4>1 DEF GroupCandidates
            <4>4. plan[first].group = plan[q].group
                BY <4>2, <4>3 DEF WorkerGroup
            <4>5. p < first /\ plan[p].group # plan[q].group
                BY <2>2, <4>2, <4>4, TraceFacts
            <4>6. state[p] = "Settled"
                BY <4>2, <4>3, <4>5 DEF BoundaryClear
            <4> QED BY <2>1, <4>6
        <3> QED BY <3>1, <3>2
    <2> QED BY <2>2 DEF EffectsInOrder, Succeeded, WorkerGroup
<1>11. ProvisionalIsPrivate'
    <2>1. ASSUME NEW q \in Ops, state'[q] # "Pending", NEW a \in Ancestors[q],
                 a \in Started', WorkerGroup(a) # 0
          PROVE  plan[q].group = WorkerGroup(a)
        <3>1. a \in Ops /\ PrivateInv(q)' /\ a \notin sent
            <4>1. a \in Ops
                BY <2>1, AncestorsMeaning DEF Data
            <4>2. a \notin sent
                <5>1. CASE q \notin sent
                    BY <1>2, <2>1, <5>1 DEF Data, DataInv, PrivateInv
                <5>2. CASE q \in sent
                    <6>1. PICK d \in plan[q].deps : a = d \/ a \in Ancestors[d]
                        <7>1. Ancestors[q] = plan[q].deps \cup UNION {Ancestors[d] : d \in plan[q].deps}
                            BY AncestorsMeaning DEF Data
                        <7> QED BY <2>1, <7>1
                    <6>2. d \in Ops /\ d \in materialized
                        BY <1>1, <5>2, PlanMeaning DEF Ready, Data
                    <6>3. state[d] # "Pending" /\ d \notin sent /\ PrivateInv(d)
                        BY <1>7, <6>2 DEF Data, DataInv
                    <6> QED BY <1>2, <6>1, <6>3 DEF PrivateInv
                <5> QED BY <5>1, <5>2
            <4> QED BY <1>9, <4>1, <4>2
        <3>2. a \in Started /\ state[a] # "Settled"
            BY <1>8, <2>1, <3>1 DEF Started
        <3>3. CASE q \notin sent
            BY <1>2, <2>1, <3>2, <3>3 DEF Data, ProvisionalIsPrivate
        <3>4. CASE q \in sent
            <4>1. PICK d \in plan[q].deps : a = d \/ a \in Ancestors[d]
                <5>1. Ancestors[q] = plan[q].deps \cup UNION {Ancestors[d] : d \in plan[q].deps}
                    BY AncestorsMeaning DEF Data
                <5> QED BY <2>1, <5>1
            <4>2. /\ d \in Ops /\ d \in materialized /\ PrivateInv(d)
                  /\ provisional[d] # 0 => plan[q].group = provisional[d]
                BY <1>1, <3>4, PlanMeaning DEF Ready, Data, DataInv
            <4>3. a <= d
                BY <3>1, <4>1, <4>2, AncestorsMeaning, TraceFacts DEF Data
            <4>4. state[d] # "Settled"
                BY <3>1, <3>2, <4>2, <4>3, TraceFacts DEF PrefixInv, Ops
            <4>5. state[d] = "Published"
                BY <1>7, <4>2, <4>4
            <4>6. provisional[d] = WorkerGroup(a)
                BY <2>1, <3>2, <4>1, <4>2, <4>5 DEF PrivateInv
            <4> QED BY <2>1, <4>2, <4>6
        <3> QED BY <3>3, <3>4
    <2> QED BY <1>3, <2>1 DEF ProvisionalIsPrivate, WorkerGroup
<1> QED BY <1>4, <1>5, <1>6, <1>9, <1>10, <1>11 DEF Data, DataInv

-----------------------------------------------------------------------------
(***************************************************************************)
(* The end of a run.                                                       *)
(***************************************************************************)

\* Ascending lists a set of operations, each once, in plan order.
LEMMA AscendingMeaning ==
    ASSUME NumOps \in Nat, NEW S \in SUBSET Ops
    PROVE  /\ Cardinality(S) \in Nat /\ Ascending(S) \in [1 .. Cardinality(S) -> S]
           /\ \A i, j \in 1 .. Cardinality(S) : i < j => Ascending(S)[i] < Ascending(S)[j]
           /\ \A o \in S : \E i \in 1 .. Cardinality(S) : Ascending(S)[i] = o
<1> DEFINE n == Cardinality(S)
           below(y) == {x \in S : x < y}
           rank(y) == Cardinality(below(y))
           f == [y \in S |-> rank(y) + 1]
<1>1. IsFiniteSet(S) /\ n \in Nat /\ \A o \in S : o \in Nat
    <2>1. IsFiniteSet(Ops) /\ Ops \subseteq Nat
        BY FS_Interval DEF Ops
    <2> QED BY <2>1, FS_Subset, FS_CardinalityType
<1>2. ASSUME NEW o \in S
      PROVE  IsFiniteSet(below(o)) /\ rank(o) \in Nat /\ rank(o) + 1 <= n
    <2>1. below(o) \in SUBSET S /\ o \notin below(o) /\ below(o) \cup {o} \in SUBSET S
        BY <1>1
    <2>2. IsFiniteSet(below(o)) /\ rank(o) \in Nat
        BY <1>1, <2>1, FS_Subset, FS_CardinalityType
    <2>3. Cardinality(below(o) \cup {o}) = rank(o) + 1
        BY <2>1, <2>2, FS_AddElement
    <2>4. Cardinality(below(o) \cup {o}) <= n
        BY <1>1, <2>1, FS_Subset
    <2> QED BY <2>2, <2>3, <2>4
<1>3. ASSUME NEW o \in S, NEW p \in S, o < p
      PROVE  rank(o) < rank(p)
    <2>1. o \notin below(o) /\ below(o) \cup {o} \in SUBSET below(p)
        <3>1. o \in Nat /\ p \in Nat /\ \A q \in S : q \in Nat
            BY <1>1
        <3>2. \A q \in S : q < o => q < p
            BY <1>3, <3>1
        <3>3. o \notin below(o)
            BY <3>1
        <3>4. o \in below(p) /\ \A q \in below(o) : q \in below(p)
            BY <1>3, <3>2
        <3> HIDE DEF below
        <3> QED BY <3>3, <3>4
    <2>2. rank(o) \in Nat /\ rank(p) \in Nat /\ IsFiniteSet(below(o)) /\ IsFiniteSet(below(p))
        BY <1>2
    <2>3. Cardinality(below(o) \cup {o}) = rank(o) + 1
        BY <2>1, <2>2, FS_AddElement
    <2>4. Cardinality(below(o) \cup {o}) <= rank(p)
        BY <2>1, <2>2, FS_Subset
    <2> HIDE DEF rank
    <2> QED BY <2>2, <2>3, <2>4
<1> HIDE DEF rank, below, n
<1>4. f \in Injection(S, 1 .. n)
    <2>1. f \in [S -> 1 .. n]
        BY <1>1, <1>2
    <2>2. \A o, p \in S : f[o] = f[p] => o = p
        BY <1>1, <1>2, <1>3
    <2> QED BY <2>1, <2>2 DEF Injection, IsInjective
<1>5. IsFiniteSet(1 .. n) /\ Cardinality(1 .. n) = n
    BY <1>1, FS_Interval
<1> HIDE DEF f
<1>6. f \in Surjection(S, 1 .. n)
    BY <1>4, <1>5, FS_Injection DEF n
<1>7. ASSUME NEW i \in 1 .. n PROVE \E y \in S : rank(y) = i - 1
    <2>1. PICK y \in S : f[y] = i
        BY <1>6 DEF Surjection
    <2> QED BY <1>1, <1>2, <2>1 DEF f
<1> DEFINE A == [i \in 1 .. n |-> CHOOSE o \in S : rank(o) = i - 1]
<1>9. Ascending(S) = A
    BY DEF Ascending, rank, below, n
<1>10. \A i \in 1 .. n : A[i] \in S /\ rank(A[i]) = i - 1
    BY <1>7
<1> HIDE DEF A
<1>11. A \in [1 .. n -> S]
    BY <1>10 DEF A
<1>12. \A i, j \in 1 .. n : i < j => A[i] < A[j]
    <2> SUFFICES ASSUME NEW i \in 1 .. n, NEW j \in 1 .. n, i < j
                 PROVE  A[i] < A[j]
        OBVIOUS
    <2>1. A[i] \in S /\ A[j] \in S /\ rank(A[i]) = i - 1 /\ rank(A[j]) = j - 1
        BY <1>10
    <2>2. A[i] # A[j]
        BY <1>1, <2>1
    <2>3. ~(A[j] < A[i])
        BY <1>1, <1>3, <2>1
    <2> QED BY <1>1, <2>1, <2>2, <2>3
<1>13. \A o \in S : \E i \in 1 .. n : A[i] = o
    <2> SUFFICES ASSUME NEW o \in S PROVE \E i \in 1 .. n : A[i] = o
        OBVIOUS
    <2>1. rank(o) + 1 \in 1 .. n
        BY <1>1, <1>2
    <2>2. A[rank(o) + 1] \in S /\ rank(A[rank(o) + 1]) = rank(o)
        BY <1>2, <1>10, <2>1
    <2>3. A[rank(o) + 1] = o
        BY <1>1, <1>2, <1>3, <2>2
    <2> QED BY <2>1, <2>3
<1> QED BY <1>1, <1>9, <1>11, <1>12, <1>13 DEF n

Events4 == [op : Ops, kind : {"finished", "member", "failed", "discarded"}]

\* The trace of a run that discards: the settled prefix, then what was started, in plan order.
LEMMA DiscardTrace ==
    ASSUME Data, DiscardStarted
    PROVE  LET k == Len(trace)
               n == Cardinality(Started) IN
           /\ n \in Nat /\ Len(trace') = k + n /\ trace' \in Seq(Events4)
           /\ \A i \in 1 .. k : trace'[i] = trace[i]
           /\ \A i \in (k + 1) .. (k + n) : trace'[i].kind = "discarded" /\ trace'[i].op \in Started
           /\ \A i, j \in (k + 1) .. (k + n) : i < j => trace'[i].op < trace'[j].op
           /\ \A o \in Started : \E i \in (k + 1) .. (k + n) : trace'[i].op = o
<1> DEFINE k == Len(trace)
           n == Cardinality(Started)
           A == Ascending(Started)
           D == [i \in 1 .. n |-> [op |-> A[i], kind |-> "discarded"]]
<1>1. k \in Nat /\ NumOps \in Nat /\ Started \in SUBSET Ops /\ trace \in Seq(Events4)
    BY TraceFacts DEF Started, Data, DataTypes, Events4
<1>2. /\ n \in Nat /\ A \in [1 .. n -> Started]
      /\ \A i, j \in 1 .. n : i < j => A[i] < A[j]
      /\ \A o \in Started : \E i \in 1 .. n : A[i] = o
    BY <1>1, AscendingMeaning
<1>3. trace' = trace \o D
    BY DEF DiscardStarted
<1> HIDE DEF A, n, k
<1>4. D \in [1 .. n -> Events4] /\ \A i \in 1 .. n : D[i].op = A[i] /\ D[i].kind = "discarded"
    BY <1>1, <1>2 DEF Events4
<1> HIDE DEF D
<1>5. D \in Seq(Events4)
    BY <1>2, <1>4, SeqDef
<1>6. Len(D) = n
    <2>1. DOMAIN D = 1 .. n /\ DOMAIN D = 1 .. Len(D) /\ Len(D) \in Nat
        BY <1>4, <1>5, LenProperties
    <2> QED BY <1>2, <2>1
<1>7. /\ trace' \in Seq(Events4) /\ Len(trace') = k + n
      /\ \A i \in 1 .. k + n : trace'[i] = IF i <= k THEN trace[i] ELSE D[i - k]
    BY <1>1, <1>3, <1>5, <1>6, ConcatProperties DEF k
<1>8. \A i \in 1 .. k : trace'[i] = trace[i]
    BY <1>1, <1>2, <1>7
<1>9. \A i \in (k + 1) .. (k + n) : i - k \in 1 .. n /\ trace'[i] = D[i - k]
    BY <1>1, <1>2, <1>7
<1>10. \A i \in (k + 1) .. (k + n) : /\ i - k \in 1 .. n /\ trace'[i].kind = "discarded"
                                     /\ trace'[i].op = A[i - k]
    BY <1>4, <1>9
<1>11. \A i \in (k + 1) .. (k + n) : trace'[i].op \in Started
    BY <1>2, <1>10
<1>12. \A i, j \in (k + 1) .. (k + n) : i < j => trace'[i].op < trace'[j].op
    BY <1>1, <1>2, <1>10
<1>13. ASSUME NEW o \in Started PROVE \E i \in (k + 1) .. (k + n) : trace'[i].op = o
    <2>1. PICK i \in 1 .. n : A[i] = o
        BY <1>2
    <2>2. k + i \in (k + 1) .. (k + n) /\ (k + i) - k = i
        BY <1>1, <1>2
    <2>3. trace'[k + i].op = o
        BY <1>10, <2>1, <2>2
    <2> QED BY <2>2, <2>3
<1> QED BY <1>2, <1>7, <1>8, <1>10, <1>11, <1>12, <1>13 DEF k, n

\* discard_started_workers() ends the run.
LEMMA DiscardInv ==
    ASSUME CoordinatorInv, DiscardStarted
    PROVE  CoordinatorInv'
<1> DEFINE k == Len(trace)
           n == Cardinality(Started)
<1>1. Data /\ ErrorInv /\ phase = "discard" /\ Outstanding = {} /\ PlanInv
    BY DEF CoordinatorInv, Data, DiscardStarted, TypeOK, DataTypes
<1>2. /\ k \in Nat /\ Ops \subseteq Nat /\ PrefixInv /\ Started \subseteq Ops
      /\ \A o \in Started : o > k
    <2>1. k \in Nat /\ Ops \subseteq Nat /\ PrefixInv
        BY <1>1, TraceFacts
    <2>2. \A o \in Started : o \in Ops /\ state[o] # "Settled"
        BY DEF Started
    <2>3. \A o \in Ops : state[o] # "Settled" => o > k
        BY <2>1 DEF PrefixInv
    <2>4. \A o \in Started : o > k
        BY <2>2, <2>3
    <2>5. Started \subseteq Ops
        BY <2>2
    <2> HIDE DEF k
    <2> QED BY <2>1, <2>4, <2>5
<1>3. /\ n \in Nat /\ Len(trace') = k + n /\ trace' \in Seq(Events4)
      /\ \A i \in 1 .. k : trace'[i] = trace[i]
      /\ \A i \in (k + 1) .. (k + n) : trace'[i].kind = "discarded" /\ trace'[i].op \in Started
      /\ \A i, j \in (k + 1) .. (k + n) : i < j => trace'[i].op < trace'[j].op
      /\ \A o \in Started : \E i \in (k + 1) .. (k + n) : trace'[i].op = o
    BY <1>1, DiscardTrace
<1> HIDE DEF k, n
<1>4. /\ \A o \in Ops : /\ state'[o] = IF o \in Started THEN "Settled" ELSE state[o]
                        /\ result'[o] = "none"
                        /\ provisional'[o] = IF o \in Started THEN 0 ELSE provisional[o]
      /\ materialized' = materialized \ Started /\ phase' = "ended" /\ error' = error
      /\ UNCHANGED <<plan, fate, worker, cancelled>>
    BY DEF DiscardStarted, Goto, runVars
<1>5. Started' = {} /\ \A o \in Ops : state'[o] # "Pending" <=> state[o] # "Pending"
    BY <1>4 DEF Started
<1>6. TypeOK' /\ PlanInv'
    <2>1. state' \in [Ops -> {"Pending", "InFlight", "Buffered", "Published", "Settled"}]
        BY DEF DiscardStarted, CoordinatorInv, TypeOK
    <2>2. provisional' \in [Ops -> Nat] /\ result' \in [Ops -> {"none", "ok", "err", "fatal", "infra"}]
        BY DEF DiscardStarted, CoordinatorInv, TypeOK
    <2>3. PlanInv'
        BY <1>1, <1>4 DEF PlanInv, Fates, WorkerLane
    <2> QED BY <1>3, <1>4, <2>1, <2>2, <2>3 DEF CoordinatorInv, TypeOK, Events4, Phases
<1>7. ASSUME NEW o \in Ops PROVE Succeeded(o)' <=> o <= k /\ trace[o].kind \in Good
    <2>1. Succeeded(o) <=> o <= k /\ trace[o].kind \in Good
        BY <1>1, SucceededMeaning DEF k
    <2>2. ASSUME NEW i \in 1 .. k + n, trace'[i].kind \in {"finished", "member"}
          PROVE  i \in 1 .. k
        BY <1>2, <1>3, <2>2
    <2>3. Succeeded(o)' <=> Succeeded(o)
        BY <1>2, <1>3, <2>2 DEF Succeeded, k
    <2> QED BY <2>1, <2>3
<1>8. \A o \in Ops : Succeeded(o)' <=> Succeeded(o)
    BY <1>1, <1>7, SucceededMeaning DEF k
<1>9. EffectsInOrder'
    BY <1>1, <1>4, <1>5, <1>8 DEF Data, EffectsInOrder, WorkerGroup
<1>10. ProvisionalIsPrivate'
    BY <1>5 DEF ProvisionalIsPrivate
<1>11. TraceInOrder'
    <2>1. \A i \in 1 .. k : trace'[i].op = i /\ (i < k => trace'[i].kind \in Good)
        BY <1>2, <1>3 DEF PrefixInv, k
    <2>2. \A i \in 1 .. k + n : i \in 1 .. k \/ i \in (k + 1) .. (k + n)
        BY <1>2, <1>3
    <2>3. \A i \in 1 .. k + n : trace'[i].kind # "discarded" => trace'[i].op = i
        BY <1>3, <2>1, <2>2
    <2>4. ASSUME NEW i \in 1 .. k + n, NEW j \in 1 .. k + n, i < j
          PROVE  trace'[i].op < trace'[j].op
        <3>1. CASE i \in (k + 1) .. (k + n)
            BY <1>2, <1>3, <2>4, <3>1
        <3>2. CASE i \in 1 .. k /\ j \in 1 .. k
            BY <2>1, <2>4, <3>2
        <3>3. CASE i \in 1 .. k /\ j \in (k + 1) .. (k + n)
            <4>1. trace'[j].op \in Started /\ trace'[i].op = i
                BY <1>3, <2>1, <3>3
            <4>2. trace'[j].op > k /\ trace'[j].op \in Nat
                BY <1>2, <4>1
            <4> QED BY <1>2, <3>3, <4>1, <4>2
        <3> QED BY <2>2, <3>1, <3>2, <3>3
    <2>5. ASSUME NEW i \in 1 .. (k + n) - 1, trace'[i].kind \in {"failed", "discarded"}
          PROVE  trace'[i + 1].kind = "discarded"
        <3>1. ~(i \in 1 .. k /\ i < k)
            BY <2>1, <2>5 DEF Good
        <3>2. i + 1 \in (k + 1) .. (k + n)
            BY <1>2, <1>3, <3>1
        <3> QED BY <1>3, <3>2
    <2> QED BY <1>3, <2>3, <2>4, <2>5 DEF TraceInOrder
<1>12. NothingSurvives'
    <2>1. ASSUME NEW o \in Ops
          PROVE  state'[o] # "Pending" <=> \E i \in 1 .. Len(trace') : trace'[i].op = o
        <3>1. CASE o \in Started
            <4>1. PICK i \in (k + 1) .. (k + n) : trace'[i].op = o
                BY <1>3, <3>1
            <4>2. i \in 1 .. Len(trace')
                BY <1>2, <1>3
            <4> QED BY <1>4, <3>1, <4>1, <4>2
        <3>2. CASE state[o] = "Settled"
            <4>1. o \in 1 .. k /\ state'[o] = "Settled"
                BY <1>2, <1>4, <3>2 DEF PrefixInv, Ops, k
            <4>2. trace'[o].op = o /\ o \in 1 .. Len(trace')
                BY <1>2, <1>3, <4>1 DEF PrefixInv, k
            <4> QED BY <4>1, <4>2
        <3>3. CASE state[o] = "Pending"
            <4>1. state'[o] = "Pending" /\ o \notin Started
                BY <1>4, <3>3 DEF Started
            <4>2. ASSUME NEW i \in 1 .. k + n, trace'[i].op = o PROVE FALSE
                <5>1. CASE i \in 1 .. k
                    BY <1>2, <1>3, <3>3, <4>2, <5>1 DEF PrefixInv, k
                <5>2. CASE i \in (k + 1) .. (k + n)
                    BY <1>3, <4>1, <4>2, <5>2
                <5> QED BY <1>2, <1>3, <5>1, <5>2
            <4> QED BY <1>3, <4>1, <4>2
        <3> QED BY <3>1, <3>2, <3>3 DEF Started, CoordinatorInv, TypeOK
    <2>2. \A o \in Ops : o \in materialized' <=> Succeeded(o)'
        <3>1. \A o \in Ops : o \in materialized <=>
                state[o] = "Published" \/ (o <= k /\ trace[o].kind \in Good)
            BY <1>1 DEF Data, DataInv, OpInv, k
        <3>2. \A o \in Ops : o <= k => o \notin Started
            BY <1>2
        <3> QED BY <1>4, <1>7, <3>1, <3>2 DEF Started
    <2>3. \A o \in Ops : provisional'[o] = 0
        BY <1>1, <1>4 DEF Data, DataInv, OpInv, Started
    <2> QED BY <1>4, <1>6, <2>1, <2>2, <2>3 DEF NothingSurvives, TypeOK
<1>13. \A o \in Ops : Stops(o)' <=> Stops(o)
    BY <1>4 DEF Stops, Infallible
<1>14. FirstFailureWins'
    <2>1. error'.kind # "none"
        BY <1>1, <1>4 DEF ErrorInv
    <2>2. ASSUME error'.kind = "semantic"
          PROVE  Stops(error.op) /\ \A o \in Ops : Stops(o) => error.op <= o
        <3>1. ~AllGood /\ error = Fault("semantic", k)
            BY <1>1, <1>4, <2>2 DEF ErrorInv, k
        <3>2. error.op = k
            BY <3>1 DEF Fault
        <3>3. PICK i \in 1 .. k : trace[i].kind \notin Good
            BY <3>1 DEF AllGood, k
        <3>4. i = k /\ Stops(k) /\ \A j \in 1 .. k : j # k => ~Stops(j)
            BY <1>2, <3>3 DEF PrefixInv, k
        <3> QED BY <1>2, <3>2, <3>4 DEF Ops
    <2>3. error'.kind = "semantic" => error.op \in Ops
        <3>1. error'.kind = "semantic" => ~AllGood /\ error.op = k
            BY <1>1, <1>4 DEF ErrorInv, k, Fault
        <3> QED BY <1>2, <3>1 DEF AllGood, PrefixInv, k
    <2> QED BY <1>4, <1>13, <2>1, <2>2, <2>3 DEF FirstFailureWins
<1>15. NoPreemption'
    <2>1. ASSUME error'.kind = "scheduler", NEW o \in Ops, ~Succeeded(o)',
                 \A p \in Ops : p < o => Succeeded(p)'
          PROVE  state'[o] = "Pending"
        <3>1. AllGood /\ \A p \in Ops : AtFrontier(p) => state[p] = "Pending"
            BY <1>1, <1>4, <2>1 DEF ErrorInv, Fault
        <3>2. o > k
            BY <1>2, <1>7, <2>1, <3>1 DEF AllGood, Ops, k
        <3>3. AtFrontier(o)
            <4>1. state[o] # "Settled"
                BY <1>2, <3>2 DEF PrefixInv, k
            <4>2. \A p \in Ops : state[p] # "Settled" => ~(p < o)
                BY <1>2, <1>7, <2>1 DEF PrefixInv, k
            <4> QED BY <1>2, <4>1, <4>2 DEF AtFrontier, Unsettled
        <3> QED BY <1>5, <3>1, <3>3
    <2> QED BY <2>1 DEF NoPreemption
<1>16. EndInv'
    <2>1. \A o \in Ops : worker'[o] = "none"
        BY <1>1, <1>4 DEF Outstanding
    <2>2. \A o \in Ops : state'[o] \in {"Pending", "Settled"}
        BY <1>4 DEF Started, CoordinatorInv, TypeOK
    <2> QED BY <1>11, <1>12, <1>14, <1>15, <2>1, <2>2 DEF EndInv
<1> QED BY <1>4, <1>6, <1>9, <1>10, <1>16 DEF CoordinatorInv

-----------------------------------------------------------------------------
(***************************************************************************)
(* The steps of a run that goes on.                                        *)
(***************************************************************************)

Errors == [kind : {"none", "semantic", "infrastructure", "scheduler", "context", "cancelled",
                   "stalled"}, op : Ops \cup {0}]

\* The invariant before the end, from its parts.
LEMMA Goes ==
    ASSUME CoordinatorInv, phase # "ended"
    PROVE  /\ Data /\ ErrorInv /\ phase \in Phases /\ error \in Errors /\ cancelled \in BOOLEAN
           /\ phase # "discard" => AllGood
BY DEF CoordinatorInv, TypeOK, Data, DataTypes, Errors, ErrorInv

LEMMA GoesOn ==
    ASSUME Data', ErrorInv', phase' \in Phases \ {"ended"}, error' \in Errors, cancelled' \in BOOLEAN
    PROVE  CoordinatorInv'
BY DEF CoordinatorInv, TypeOK, Data, DataTypes, Errors

LEMMA FaultMeaning ==
    ASSUME NEW k \in {"semantic", "infrastructure", "scheduler", "context", "cancelled", "stalled"},
           NEW o \in Ops \cup {0}
    PROVE  Fault(k, o) \in Errors /\ Fault(k, o).kind = k /\ Fault(k, o).op = o
BY DEF Fault, Errors

\* A step of the loop that leaves the operations alone.
LEMMA ControlStep ==
    ASSUME CoordinatorInv, phase # "ended", phase # "discard",
           UNCHANGED <<opVars, runVars, worker>>, cancelled' \in BOOLEAN,
           \/ /\ phase' \in {"top", "events", "settle", "plan"} /\ Driving /\ error' = error
           \/ /\ phase' = "abort" /\ \E k \in {"scheduler", "cancelled"} : error' = Fault(k, 0)
           \/ /\ phase' = "abortsettle" /\ phase = "abort" /\ Outstanding = {} /\ error' = error
           \/ /\ phase' = "discard"
              /\ \E k \in {"infrastructure", "context", "cancelled", "stalled"}, o \in Ops \cup {0} :
                    error' = Fault(k, o)
           \/ phase' = phase /\ error' = error
    PROVE  CoordinatorInv'
<1>1. Data /\ ErrorInv /\ phase \in Phases /\ error \in Errors /\ AllGood
    BY Goes
<1>2. UNCHANGED dataVars /\ trace' = trace /\ Outstanding' = Outstanding
    BY DEF dataVars, opVars, runVars, Outstanding
<1>3. Data'
    BY <1>1, <1>2, DataSame
<1>4. AllGood'
    BY <1>1, <1>2 DEF AllGood
<1>5. phase' \in Phases \ {"ended"}
    BY <1>1 DEF Phases
<1>6. error' \in Errors
    BY <1>1, FaultMeaning
<1>7. ErrorInv'
    <2>1. CASE phase' \in {"top", "events", "settle", "plan"} /\ Driving /\ error' = error
        BY <1>1, <1>4, <2>1 DEF ErrorInv, Driving
    <2>2. CASE phase' = "abort" /\ \E k \in {"scheduler", "cancelled"} : error' = Fault(k, 0)
        BY <1>4, <2>2, FaultMeaning DEF ErrorInv, Driving
    <2>3. CASE phase' = "abortsettle" /\ phase = "abort" /\ Outstanding = {} /\ error' = error
        BY <1>1, <1>2, <1>4, <2>3 DEF ErrorInv, Driving
    <2>4. CASE /\ phase' = "discard"
               /\ \E k \in {"infrastructure", "context", "cancelled", "stalled"}, o \in Ops \cup {0} :
                     error' = Fault(k, o)
        <3>1. error'.kind \in {"infrastructure", "context", "cancelled", "stalled"}
            BY <2>4, FaultMeaning
        <3> QED BY <1>4, <2>4, <3>1 DEF ErrorInv, Driving
    <2>5. CASE phase' = phase /\ error' = error
        BY <1>1, <1>2, <1>4, <2>5 DEF ErrorInv, Driving
    <2> QED BY <2>1, <2>2, <2>3, <2>4, <2>5
<1> QED BY <1>3, <1>5, <1>6, <1>7, GoesOn

\* The coordinator takes an event off the channel.
LEMMA EventData ==
    ASSUME Data, NEW o \in Ops, UNCHANGED <<plan, fate>>,
           \/ worker[o] = "done" /\ Buffer(o)
           \/ worker[o] = "asking" /\ Respond(o)
           \/ worker[o] = "abandoned" /\ RespondTooLate(o)
    PROVE  Data' /\ trace' = trace
<1>1. CASE worker[o] = "done" /\ Buffer(o)
    BY <1>1, BufferData DEF Buffer
<1>2. ASSUME worker[o] \in {"asking", "abandoned"}, UNCHANGED opVars,
             NEW w \in {"answered", "gone"}, worker' = [worker EXCEPT ![o] = w]
      PROVE  Data'
    <2>1. state[o] = "InFlight" /\ result[o] \in {"none", fate[o], "infra"}
          /\ result[o] \in {"none", "ok", "err", "fatal", "infra"} /\ result \in [Ops -> {"none", "ok", "err", "fatal", "infra"}]
        BY <1>2 DEF Data, DataTypes, DataInv, OpInv
    <2>2. result' = [result EXCEPT ![o] = result[o]]
        BY <1>2, <2>1 DEF opVars
    <2>3. UNCHANGED <<state, materialized, provisional, trace>>
        BY <1>2 DEF opVars
    <2> QED BY <1>2, <2>1, <2>2, <2>3, PoolData
<1>3. CASE worker[o] = "asking" /\ Respond(o)
    BY <1>2, <1>3 DEF Respond, opVars
<1>4. CASE worker[o] = "abandoned" /\ RespondTooLate(o)
    BY <1>2, <1>4 DEF RespondTooLate, opVars
<1> QED BY <1>1, <1>3, <1>4

\* accept_worker_event_or_abort(), in the loop.
LEMMA AcceptInv ==
    ASSUME CoordinatorInv, Driving, NEW next \in {"top", "events"}, AcceptEvent(next),
           UNCHANGED <<runVars, cancelled>>
    PROVE  CoordinatorInv'
<1>1. Data /\ ErrorInv /\ AllGood /\ error = NoError /\ error \in Errors /\ cancelled \in BOOLEAN
    BY Goes DEF Driving, ErrorInv
<1>2. PICK o \in Events :
        /\ \/ worker[o] = "done" /\ Buffer(o)
           \/ worker[o] = "asking" /\ Respond(o)
           \/ worker[o] = "abandoned" /\ RespondTooLate(o)
        /\ Goto(next) \/ Abort
    BY DEF AcceptEvent
<1>3. o \in Ops
    BY DEF Events
<1>4. Data' /\ trace' = trace
    BY <1>1, <1>2, <1>3, EventData DEF runVars
<1>5. AllGood'
    BY <1>1, <1>4 DEF AllGood
<1>6. CASE Goto(next)
    BY <1>1, <1>4, <1>5, <1>6, GoesOn DEF Goto, ErrorInv, Driving, Phases
<1>7. CASE Abort
    <2>1. phase' = "abort" /\ error' \in Errors /\ error'.kind = "scheduler"
        BY <1>7, FaultMeaning DEF Abort, Stop
    <2> QED BY <1>1, <1>4, <1>5, <2>1, GoesOn DEF ErrorInv, Driving, Phases
<1> QED BY <1>2, <1>6, <1>7

\* drain_outstanding_workers().
LEMMA DrainInv ==
    ASSUME CoordinatorInv, Drain
    PROVE  CoordinatorInv'
<1>1. /\ Data /\ ErrorInv /\ phase \in {"abort", "discard"} /\ error \in Errors
      /\ cancelled \in BOOLEAN
    BY Goes DEF Drain, Draining
<1>2. PICK o \in Events :
        /\ \/ worker[o] = "done" /\ Buffer(o)
           \/ worker[o] = "asking" /\ Respond(o)
           \/ worker[o] = "abandoned" /\ RespondTooLate(o)
        /\ error' = error \/ (phase = "abort" /\ error' = Fault("scheduler", 0))
    BY DEF Drain
<1>3. o \in Ops /\ Outstanding # {}
    BY DEF Events, Outstanding
<1>4. Data' /\ trace' = trace /\ phase' = phase /\ cancelled' = cancelled
    BY <1>1, <1>2, <1>3, EventData DEF Drain, runVars
<1>5. AllGood' <=> AllGood
    BY <1>4 DEF AllGood
<1>6. error' \in Errors /\ (error' # error => error'.kind = "scheduler" /\ phase = "abort")
    BY <1>1, <1>2, FaultMeaning
<1>7. ErrorInv'
    <2>1. CASE phase = "abort"
        BY <1>1, <1>4, <1>5, <1>6, <2>1 DEF ErrorInv, Driving
    <2>2. CASE phase = "discard"
        <3>1. error' = error /\ error.kind # "scheduler"
            BY <1>1, <1>3, <1>6, <2>2 DEF ErrorInv
        <3> QED BY <1>1, <1>4, <1>5, <2>2, <3>1 DEF ErrorInv, Driving
    <2> QED BY <1>1, <2>1, <2>2
<1> QED BY <1>1, <1>4, <1>6, <1>7, GoesOn DEF Phases

\* The pool: a worker asks, gives up or completes.
LEMMA PoolInv ==
    ASSUME CoordinatorInv, NEW o \in Ops, WorkerCompletes(o) \/ WorkerAsks(o) \/ WorkerGivesUp(o)
    PROVE  CoordinatorInv'
<1>1. worker[o] # "none"
    BY DEF WorkerCompletes, WorkerAsks, WorkerGivesUp
<1>2. phase # "ended" /\ Outstanding # {}
    BY <1>1 DEF CoordinatorInv, EndInv, Outstanding
<1>3. Data /\ ErrorInv /\ phase \in Phases /\ error \in Errors /\ cancelled \in BOOLEAN
    BY <1>2, Goes
<1>4. /\ state[o] = "InFlight" /\ result[o] \in {"none", fate[o], "infra"}
      /\ fate[o] \in {"ok", "err", "fatal"}
      /\ result[o] \in {"none", "ok", "err", "fatal", "infra"}
      /\ result \in [Ops -> {"none", "ok", "err", "fatal", "infra"}]
    BY <1>1, <1>3 DEF Data, DataTypes, DataInv, OpInv
<1>5. UNCHANGED <<plan, fate, state, materialized, provisional, trace, phase, error, cancelled>>
    BY DEF WorkerCompletes, WorkerAsks, WorkerGivesUp, opVars, runVars
<1>6. Data'
    <2>1. CASE WorkerCompletes(o)
        <3>1. PICK r \in {fate[o], "infra"} : result' = [result EXCEPT ![o] = r]
            BY <2>1 DEF WorkerCompletes
        <3>2. worker' = [worker EXCEPT ![o] = "done"]
            BY <2>1 DEF WorkerCompletes
        <3> QED BY <1>3, <1>4, <1>5, <3>1, <3>2, PoolData
    <2>2. CASE WorkerAsks(o) \/ WorkerGivesUp(o)
        <3>1. PICK w \in {"asking", "abandoned"} : worker' = [worker EXCEPT ![o] = w]
            BY <2>2 DEF WorkerAsks, WorkerGivesUp
        <3>2. result' = [result EXCEPT ![o] = result[o]]
            BY <1>4, <2>2 DEF WorkerAsks, WorkerGivesUp, opVars
        <3> QED BY <1>3, <1>4, <1>5, <3>1, <3>2, PoolData
    <2> QED BY <2>1, <2>2
<1>7. ErrorInv'
    <2>1. AllGood' <=> AllGood
        BY <1>5 DEF AllGood
    <2>2. phase # "abortsettle" /\ (phase = "discard" => error.kind # "scheduler")
        BY <1>2, <1>3 DEF ErrorInv
    <2> QED BY <1>3, <1>5, <2>1, <2>2 DEF ErrorInv, Driving
<1> QED BY <1>2, <1>3, <1>5, <1>6, <1>7, GoesOn

\* dispatch_workers().
LEMMA DispatchInv ==
    ASSUME CoordinatorInv, Dispatch
    PROVE  CoordinatorInv'
<1>1. /\ Data /\ ErrorInv /\ AllGood /\ error = NoError /\ error \in Errors
      /\ cancelled \in BOOLEAN
    BY Goes DEF Dispatch, ErrorInv, Driving
<1>2. PICK sent \in SUBSET Candidates :
        /\ state' = [o \in Ops |-> IF o \in sent THEN "InFlight" ELSE state[o]]
        /\ worker' = [o \in Ops |-> IF o \in sent THEN "running" ELSE worker[o]]
        /\ Goto("top") \/ Abort
    BY DEF Dispatch
<1>3. UNCHANGED <<plan, fate, result, materialized, provisional, trace, cancelled>>
    BY DEF Dispatch, runVars
<1>4. Data'
    BY <1>1, <1>2, <1>3, DispatchData
<1>5. AllGood'
    BY <1>1, <1>3 DEF AllGood
<1>6. CASE Goto("top")
    BY <1>1, <1>3, <1>4, <1>5, <1>6, GoesOn DEF Goto, ErrorInv, Driving, Phases
<1>7. CASE Abort
    <2>1. phase' = "abort" /\ error' \in Errors /\ error'.kind = "scheduler"
        BY <1>7, FaultMeaning DEF Abort, Stop
    <2> QED BY <1>1, <1>3, <1>4, <1>5, <2>1, GoesOn DEF ErrorInv, Driving, Phases
<1> QED BY <1>2, <1>6, <1>7

-----------------------------------------------------------------------------
(***************************************************************************)
(* Settlement.                                                             *)
(***************************************************************************)

\* The frontier operation succeeds and the loop goes on.
LEMMA FinishInv ==
    ASSUME CoordinatorInv, NEW o \in Ops, AtFrontier(o), worker[o] = "none", ~Stops(o),
           phase \in {"settle", "plan", "abortsettle"}, NEW kind \in Good, Finish(o, kind),
           UNCHANGED <<plan, fate, worker, cancelled, error>>,
           phase' = IF phase = "plan" THEN "top" ELSE phase
    PROVE  CoordinatorInv'
<1>1. Data /\ ErrorInv /\ AllGood /\ error \in Errors /\ cancelled \in BOOLEAN
    BY Goes
<1>2. kind \in {"finished", "member", "failed"}
    BY DEF Good
<1>3. /\ state' = [state EXCEPT ![o] = "Settled"] /\ result' = [result EXCEPT ![o] = "none"]
      /\ materialized' = IF kind \in Good THEN materialized \cup {o} ELSE materialized \ {o}
      /\ provisional' = [provisional EXCEPT ![o] = 0]
      /\ trace' = Append(trace, [op |-> o, kind |-> kind])
    BY DEF Finish
<1>4. IF kind \in Good THEN ~Stops(o) ELSE Stops(o)
    OBVIOUS
<1>5. Data' /\ AllGood'
    BY <1>1, <1>2, <1>3, <1>4, SettleData
<1>6. Outstanding' = Outstanding
    BY DEF Outstanding
<1>7. ErrorInv'
    BY <1>1, <1>5, <1>6 DEF ErrorInv, Driving
<1> QED BY <1>1, <1>5, <1>7, GoesOn DEF Phases

\* The frontier operation is the first that fails.
LEMMA FailInv ==
    ASSUME CoordinatorInv, NEW o \in Ops, AtFrontier(o), worker[o] = "none", Stops(o),
           phase \in {"settle", "plan", "abortsettle"}, Fail(o),
           UNCHANGED <<plan, fate, worker, cancelled>>, Stop("discard", Fault("semantic", o))
    PROVE  CoordinatorInv'
<1> DEFINE kind == "failed"
<1>1. Data /\ ErrorInv /\ AllGood /\ error \in Errors /\ cancelled \in BOOLEAN
    BY Goes
<1>2. kind \in {"finished", "member", "failed"} /\ kind \notin Good
    BY DEF Good
<1>3. /\ state' = [state EXCEPT ![o] = "Settled"] /\ result' = [result EXCEPT ![o] = "none"]
      /\ materialized' = IF kind \in Good THEN materialized \cup {o} ELSE materialized \ {o}
      /\ provisional' = [provisional EXCEPT ![o] = 0]
      /\ trace' = Append(trace, [op |-> o, kind |-> kind])
    BY <1>2 DEF Fail
<1>4. IF kind \in Good THEN ~Stops(o) ELSE Stops(o)
    BY <1>2
<1> HIDE DEF kind
<1>5. Data' /\ ~AllGood' /\ Len(trace') = o
    BY <1>1, <1>2, <1>3, <1>4, SettleData
<1>6. phase' = "discard" /\ error' = Fault("semantic", o)
    BY DEF Stop
<1>7. error' \in Errors /\ error'.kind = "semantic"
    BY <1>6, FaultMeaning
<1>8. ErrorInv'
    BY <1>5, <1>6, <1>7 DEF ErrorInv, Driving
<1> QED BY <1>1, <1>5, <1>6, <1>7, <1>8, GoesOn DEF Phases

\* settle_ready() takes the frontier operation's result.
LEMMA SettleInv ==
    ASSUME CoordinatorInv, NEW o \in Ops,
           SettleSuccess(o) \/ SettleMemberError(o) \/ SettleFailure(o)
    PROVE  CoordinatorInv'
<1>1. phase \in {"settle", "abortsettle"} /\ AtFrontier(o) /\ state[o] \in {"Buffered", "Published"}
    BY DEF SettleSuccess, SettleMemberError, SettleFailure, Settling, Settleable
<1>2. Data /\ OpInv(o) /\ UNCHANGED <<plan, fate, worker, cancelled>> /\ cancelled \in BOOLEAN
    BY <1>1, Goes DEF Data, DataInv, SettleSuccess, SettleMemberError, SettleFailure, runVars
<1>3. worker[o] = "none"
    BY <1>1, <1>2 DEF OpInv
<1>4. CASE SettleSuccess(o)
    <2>1. fate[o] = "ok"
        BY <1>1, <1>2, <1>4 DEF OpInv, SettleSuccess
    <2>2. ~Stops(o) /\ "finished" \in Good
        BY <2>1 DEF Stops, Good
    <2>3. Finish(o, "finished") /\ UNCHANGED <<phase, error>>
        BY <1>4 DEF SettleSuccess
    <2> QED BY <1>1, <1>2, <1>3, <2>2, <2>3, FinishInv
<1>5. CASE SettleMemberError(o)
    <2>1. fate[o] = "err"
        BY <1>1, <1>2, <1>5 DEF OpInv, SettleMemberError
    <2>2. ~Stops(o) /\ "member" \in Good
        BY <1>5, <2>1 DEF Stops, Good, SettleMemberError
    <2>3. Finish(o, "member") /\ UNCHANGED <<phase, error>>
        BY <1>5 DEF SettleMemberError
    <2> QED BY <1>1, <1>2, <1>3, <2>2, <2>3, FinishInv
<1>6. ASSUME result[o] = "fatal" \/ (result[o] = "err" /\ ~plan[o].batch), Fail(o),
             Stop("discard", Fault("semantic", o))
      PROVE  CoordinatorInv'
    <2>1. Stops(o)
        BY <1>2, <1>6 DEF OpInv, Stops
    <2> QED BY <1>1, <1>2, <1>3, <1>6, <2>1, FailInv
<1>7. ASSUME UNCHANGED opVars, Stop("discard", Fault("infrastructure", o))
      PROVE  CoordinatorInv'
    <2>1. UNCHANGED <<opVars, runVars, worker>> /\ cancelled' \in BOOLEAN
        BY <1>2, <1>7 DEF runVars
    <2>2. phase' = "discard" /\ error' = Fault("infrastructure", o)
        BY <1>7 DEF Stop
    <2> QED BY <1>1, <2>1, <2>2, ControlStep
<1>8. CASE SettleFailure(o)
    BY <1>6, <1>7, <1>8 DEF SettleFailure
<1> QED BY <1>4, <1>5, <1>8

\* run_coordinator_op().
LEMMA CoordinatorOpInv ==
    ASSUME CoordinatorInv, NEW o \in Ops, RunCoordinatorOp(o)
    PROVE  CoordinatorInv'
<1>1. phase = "plan" /\ AtFrontier(o) /\ ~WorkerLane(o) /\ state[o] = "Pending"
    BY DEF RunCoordinatorOp, CoordinatorTurn, Ready
<1>2. Data /\ OpInv(o) /\ UNCHANGED <<plan, fate, worker, cancelled>> /\ cancelled \in BOOLEAN
    BY <1>1, Goes DEF Data, DataInv, RunCoordinatorOp, runVars
<1>3. worker[o] = "none" /\ ~Infallible(o)
    BY <1>1, <1>2 DEF OpInv, Infallible, WorkerLane
<1>4. CASE fate[o] = "ok" /\ Finish(o, "finished") /\ Goto("top")
    <2>1. ~Stops(o) /\ "finished" \in Good
        BY <1>4 DEF Stops, Good
    <2> QED BY <1>1, <1>2, <1>3, <1>4, <2>1, FinishInv DEF Goto
<1>5. CASE fate[o] = "err" /\ plan[o].batch /\ Finish(o, "member") /\ Goto("top")
    <2>1. ~Stops(o) /\ "member" \in Good
        BY <1>3, <1>5 DEF Stops, Good
    <2> QED BY <1>1, <1>2, <1>3, <1>5, <2>1, FinishInv DEF Goto
<1>6. CASE /\ fate[o] = "fatal" \/ (fate[o] = "err" /\ ~plan[o].batch)
           /\ Fail(o) /\ Stop("discard", Fault("semantic", o))
    <2>1. Stops(o)
        BY <1>6 DEF Stops
    <2> QED BY <1>1, <1>2, <1>3, <1>6, <2>1, FailInv
<1>7. CASE CanFail /\ UNCHANGED opVars /\ Stop("discard", Fault("context", o))
    <2>1. UNCHANGED <<opVars, runVars, worker>> /\ cancelled' \in BOOLEAN
        BY <1>2, <1>7 DEF runVars
    <2>2. phase' = "discard" /\ error' = Fault("context", o)
        BY <1>7 DEF Stop
    <2> QED BY <1>1, <2>1, <2>2, ControlStep
<1> QED BY <1>4, <1>5, <1>6, <1>7 DEF RunCoordinatorOp

\* Settlement stops at the frontier; after an abort the run is discarded.
LEMMA SettleStopsInv ==
    ASSUME CoordinatorInv, SettleStops
    PROVE  CoordinatorInv'
<1>1. phase \in {"settle", "abortsettle"} /\ error' = error
    BY DEF SettleStops, Settling, Goto
<1>2. /\ Data /\ ErrorInv /\ AllGood /\ UNCHANGED <<opVars, runVars, worker, cancelled>>
      /\ cancelled \in BOOLEAN /\ error \in Errors
    BY <1>1, Goes DEF SettleStops
<1>3. CASE phase = "settle"
    <2>1. phase' = "plan" /\ Driving /\ cancelled' \in BOOLEAN
        BY <1>2, <1>3 DEF SettleStops, Goto, Driving
    <2> QED BY <1>1, <1>2, <1>3, <2>1, ControlStep
<1>4. CASE phase = "abortsettle"
    <2>1. phase' = "discard"
        BY <1>4 DEF SettleStops, Goto
    <2>2. UNCHANGED <<dataVars, state>> /\ trace' = trace /\ Outstanding' = Outstanding
        BY <1>2 DEF dataVars, opVars, runVars, Outstanding
    <2>3. Data' /\ AllGood'
        BY <1>2, <2>2, DataSame DEF AllGood
    <2>4. Outstanding = {} /\ error.kind \in {"scheduler", "cancelled"}
        BY <1>2, <1>4 DEF ErrorInv
    <2>5. ASSUME NEW o \in Ops, AtFrontier(o) PROVE state[o] = "Pending"
        <3>1. worker[o] = "none"
            BY <2>4 DEF Outstanding
        <3>2. state[o] \notin {"InFlight", "Settled"}
            BY <1>2, <2>5, <3>1 DEF Data, DataInv, OpInv, AtFrontier, Unsettled
        <3>3. state[o] \notin {"Buffered", "Published"}
            BY <2>5 DEF SettleStops, Settleable
        <3> QED BY <1>2, <3>2, <3>3 DEF Data, DataTypes
    <2>6. ASSUME NEW o \in Ops, AtFrontier(o)' PROVE state'[o] = "Pending"
        BY <2>2, <2>5, <2>6 DEF AtFrontier, Unsettled
    <2>7. ErrorInv'
        BY <1>1, <2>1, <2>2, <2>3, <2>4, <2>6 DEF ErrorInv, Driving
    <2> QED BY <1>1, <1>2, <2>1, <2>3, <2>7, GoesOn DEF Phases
<1> QED BY <1>1, <1>3, <1>4

\* The run ends with every operation settled: all of them succeeded.
LEMMA AllSettledInv ==
    ASSUME CoordinatorInv, AllSettled
    PROVE  CoordinatorInv'
<1>1. /\ phase = "plan" /\ phase' = "ended" /\ error' = error
      /\ UNCHANGED <<opVars, runVars, worker, cancelled>>
    BY DEF AllSettled, Goto
<1>2. Data /\ ErrorInv /\ AllGood /\ error = NoError /\ cancelled \in BOOLEAN /\ error \in Errors
    BY <1>1, Goes DEF ErrorInv, Driving
<1>3. UNCHANGED <<plan, fate, state, worker, result, materialized, provisional, trace>>
    BY <1>1 DEF opVars, runVars
<1>4. Data'
    BY <1>2, <1>3, DataSame DEF dataVars
<1>5. Len(trace) \in Nat /\ Ops \subseteq Nat /\ PrefixInv
    BY <1>2, TraceFacts
<1>6. \A o \in Ops : state[o] = "Settled" /\ o <= Len(trace)
    BY <1>5 DEF AllSettled, Unsettled, PrefixInv
<1>7. \A o \in Ops : Succeeded(o) /\ trace[o].kind \in Good /\ o \in 1 .. Len(trace)
    <2>1. \A o \in Ops : trace[o].kind \in Good /\ o \in 1 .. Len(trace)
        BY <1>2, <1>5, <1>6 DEF AllGood, Ops
    <2> QED BY <1>2, <1>6, <2>1, SucceededMeaning
<1>8. \A i \in 1 .. Len(trace) : i \in Ops /\ trace[i].op = i /\ trace[i].kind \in Good /\ ~Stops(i)
    BY <1>2, <1>5 DEF AllGood, PrefixInv
<1>9. \A o \in Ops : Succeeded(o)' /\ Stops(o)' = Stops(o)
    BY <1>3, <1>7 DEF Succeeded, Stops, Infallible
<1>10. TraceInOrder'
    <2>1. TraceInOrder
        BY <1>5, <1>8 DEF TraceInOrder, Good
    <2> QED BY <1>3, <2>1 DEF TraceInOrder
<1>11. NothingSurvives'
    <2>1. \A o \in Ops : o \in materialized /\ provisional[o] = 0
        BY <1>2, <1>6, <1>7 DEF Data, DataInv, OpInv
    <2>2. materialized' = {o \in Ops : Succeeded(o)'}
        BY <1>2, <1>3, <1>9, <2>1 DEF Data, DataTypes
    <2>3. \A o \in Ops : state'[o] # "Pending" /\ \E i \in 1 .. Len(trace') : trace'[i].op = o
        BY <1>3, <1>6, <1>7, <1>8
    <2> QED BY <1>3, <2>1, <2>2, <2>3 DEF NothingSurvives
<1>12. FirstFailureWins'
    <2>1. error'.kind = "none"
        BY <1>1, <1>2 DEF NoError
    <2>2. \A o \in Ops : ~Stops(o)
        BY <1>7, <1>8
    <2> QED BY <1>9, <2>1, <2>2 DEF FirstFailureWins
<1>13. NoPreemption'
    BY <1>9 DEF NoPreemption
<1>14. EndInv'
    <2>1. \A o \in Ops : worker'[o] = "none" /\ state'[o] = "Settled"
        BY <1>2, <1>3, <1>6 DEF Data, DataInv, OpInv
    <2> QED BY <1>10, <1>11, <1>12, <1>13, <2>1 DEF EndInv
<1> QED BY <1>1, <1>2, <1>4, <1>14 DEF CoordinatorInv, TypeOK, Data, DataTypes, Errors, Phases

-----------------------------------------------------------------------------
(***************************************************************************)
(* The invariant, and what it says.                                        *)
(***************************************************************************)

LEMMA InitInv ==
    ASSUME Init
    PROVE  CoordinatorInv
<1>1. NumOps \in Nat
    BY PlanAssumption
<1>2. PlanInv /\ fate \in [Ops -> {"ok", "err", "fatal", "unsafe"}]
    BY DEF Init, PlanInv
<1>3. trace = <<>> /\ Len(trace) = 0
    BY DEF Init
<1>4. \A o \in Ops : state[o] = "Pending" /\ worker[o] = "none" /\ result[o] = "none"
                     /\ provisional[o] = 0
    BY DEF Init
<1>5. DataTypes
    <2>1. trace \in Seq([op : Ops, kind : {"finished", "member", "failed", "discarded"}])
        BY <1>3
    <2> QED BY <1>2, <2>1 DEF Init, DataTypes
<1>6. PrefixInv
    BY <1>1, <1>3, <1>4 DEF PrefixInv, Ops
<1>7. \A o \in Ops : OpInv(o) /\ PrivateInv(o)
    BY <1>1, <1>3, <1>4 DEF OpInv, PrivateInv, Init, Ops
<1>8. ErrorInv
    BY <1>3 DEF ErrorInv, Init, Driving, AllGood
<1>9. EffectsInOrder /\ ProvisionalIsPrivate
    BY <1>4 DEF EffectsInOrder, ProvisionalIsPrivate
<1>10. phase = "top" /\ phase \in Phases /\ error \in Errors /\ cancelled \in BOOLEAN
    BY DEF Init, Phases, Errors, NoError
<1> QED BY <1>2, <1>5, <1>6, <1>7, <1>8, <1>9, <1>10 DEF CoordinatorInv, TypeOK, DataTypes, DataInv, Errors

\* The steps that only move the loop.
LEMMA LoopInv ==
    ASSUME CoordinatorInv,
           CheckControl \/ EventsDrained \/ FrontierUnsafe \/ AbortDrained \/ Cancel
    PROVE  CoordinatorInv'
<1>1. /\ phase \in Phases \ {"ended"} /\ cancelled \in BOOLEAN
      /\ UNCHANGED <<opVars, runVars, worker>> /\ cancelled' \in BOOLEAN
    BY DEF CoordinatorInv, TypeOK, CheckControl, EventsDrained, FrontierUnsafe, AbortDrained, Cancel
<1>2. CASE CheckControl
    <2>1. phase = "top" /\ Driving
        BY <1>2 DEF CheckControl, Driving
    <2>2. \/ phase' = "discard" /\ error' = Fault("cancelled", 0)
          \/ phase' = "events" /\ error' = error
        BY <1>2 DEF CheckControl, Stop, Goto
    <2> QED BY <1>1, <2>1, <2>2, ControlStep
<1>3. CASE EventsDrained
    <2>1. phase = "events" /\ Driving /\ phase' = "settle" /\ error' = error
        BY <1>3 DEF EventsDrained, Driving, Goto
    <2> QED BY <1>1, <2>1, ControlStep
<1>4. CASE FrontierUnsafe
    <2>1. phase = "plan" /\ phase' = "abort" /\ error' = Fault("scheduler", 0)
        BY <1>4 DEF FrontierUnsafe, Abort, Stop
    <2> QED BY <1>1, <2>1, ControlStep
<1>5. CASE AbortDrained
    <2>1. phase = "abort" /\ Outstanding = {} /\ phase' = "abortsettle" /\ error' = error
        BY <1>5 DEF AbortDrained, Goto
    <2> QED BY <1>1, <2>1, ControlStep
<1>6. CASE Cancel
    <2>1. phase' = phase /\ error' = error
        BY <1>6 DEF Cancel
    <2>2. CASE phase # "discard"
        BY <1>1, <2>1, <2>2, ControlStep
    <2>3. CASE phase = "discard"
        <3>1. Data /\ ErrorInv /\ error \in Errors
            BY <1>1, Goes
        <3>2. UNCHANGED <<plan, fate, state, worker, result, materialized, provisional, trace>>
            BY <1>1 DEF opVars, runVars
        <3>3. Data'
            BY <3>1, <3>2, DataSame DEF dataVars
        <3>4. ErrorInv'
            BY <2>1, <3>1, <3>2
               DEF ErrorInv, Driving, AllGood, Outstanding, AtFrontier, Unsettled
        <3> QED BY <1>1, <2>1, <3>1, <3>3, <3>4, GoesOn
    <2> QED BY <2>2, <2>3
<1> QED BY <1>2, <1>3, <1>4, <1>5, <1>6

\* The loop waits for an event, a cancelled request, or another round.
LEMMA WaitInv ==
    ASSUME CoordinatorInv, Wait
    PROVE  CoordinatorInv'
<1>1. phase = "plan" /\ Driving /\ UNCHANGED <<runVars, cancelled>>
    BY DEF Wait, NothingToStart, Driving
<1>2. cancelled \in BOOLEAN
    BY DEF CoordinatorInv, TypeOK
<1>3. CASE Outstanding = {} \/ Events = {}
    <2>1. UNCHANGED <<opVars, runVars, worker>> /\ cancelled' \in BOOLEAN
        BY <1>1, <1>2, <1>3 DEF Wait
    <2>2. \/ phase' = "discard" /\ error' = Fault("stalled", 0)
          \/ phase' = "abort" /\ error' = Fault("cancelled", 0)
          \/ phase' = "top" /\ error' = error
        BY <1>3 DEF Wait, Stop, Goto
    <2> QED BY <1>1, <2>1, <2>2, ControlStep
<1>4. CASE ~(Outstanding = {} \/ Events = {})
    <2>1. AcceptEvent("top")
        BY <1>4 DEF Wait
    <2> QED BY <1>1, <2>1, AcceptInv
<1> QED BY <1>3, <1>4

LEMMA StutterInv ==
    ASSUME CoordinatorInv, UNCHANGED vars
    PROVE  CoordinatorInv'
<1>1. UNCHANGED <<plan, fate, state, worker, result, materialized, provisional, trace, phase,
                  error, cancelled>>
    BY DEF vars
<1>2. CASE phase # "ended"
    <2>1. Data /\ ErrorInv /\ phase \in Phases /\ error \in Errors /\ cancelled \in BOOLEAN
        BY <1>2, Goes
    <2>2. Data'
        BY <1>1, <2>1, DataSame DEF dataVars
    <2>3. ErrorInv'
        BY <1>1, <2>1 DEF ErrorInv, Driving, AllGood, Outstanding, AtFrontier, Unsettled
    <2> QED BY <1>1, <1>2, <2>1, <2>2, <2>3, GoesOn
<1>3. CASE phase = "ended"
    <2>1. EndInv /\ TypeOK /\ PlanInv /\ EffectsInOrder /\ ProvisionalIsPrivate
        BY <1>3 DEF CoordinatorInv
    <2>2. Ancestors' = Ancestors /\ Started' = Started
        BY <1>1 DEF Ancestors, Started
    <2>3. \A o \in Ops : Succeeded(o)' <=> Succeeded(o)
        BY <1>1 DEF Succeeded
    <2>4. TypeOK' /\ PlanInv'
        BY <1>1, <2>1 DEF TypeOK, PlanInv, Fates, WorkerLane
    <2>5. EffectsInOrder'
        BY <1>1, <2>1, <2>3 DEF EffectsInOrder, WorkerGroup
    <2>6. ProvisionalIsPrivate'
        BY <1>1, <2>1, <2>2 DEF ProvisionalIsPrivate, WorkerGroup
    <2>7. TraceInOrder' /\ NoPreemption' /\ NothingSurvives'
        BY <1>1, <2>1, <2>3 DEF EndInv, TraceInOrder, NoPreemption, NothingSurvives
    <2>8. FirstFailureWins'
        BY <1>1, <2>1, <2>3 DEF EndInv, FirstFailureWins, Stops, Infallible
    <2>9. EndInv'
        BY <1>1, <2>1, <2>7, <2>8 DEF EndInv
    <2> QED BY <1>1, <1>3, <2>4, <2>5, <2>6, <2>9 DEF CoordinatorInv
<1> QED BY <1>2, <1>3

LEMMA NextInv ==
    ASSUME CoordinatorInv, Next
    PROVE  CoordinatorInv'
<1>1. CASE CheckControl \/ EventsDrained \/ FrontierUnsafe \/ AbortDrained \/ Cancel
    BY <1>1, LoopInv
<1>2. CASE DrainEvents
    <2>1. Driving /\ AcceptEvent("events") /\ UNCHANGED <<runVars, cancelled>>
        BY <1>2 DEF DrainEvents, Driving
    <2> QED BY <2>1, AcceptInv
<1>3. CASE \E o \in Ops : SettleSuccess(o) \/ SettleMemberError(o) \/ SettleFailure(o)
    BY <1>3, SettleInv
<1>4. CASE SettleStops
    BY <1>4, SettleStopsInv
<1>5. CASE AllSettled
    BY <1>5, AllSettledInv
<1>6. CASE Dispatch
    BY <1>6, DispatchInv
<1>7. CASE \E o \in Ops : RunCoordinatorOp(o)
    BY <1>7, CoordinatorOpInv
<1>8. CASE Wait
    BY <1>8, WaitInv
<1>9. CASE Drain
    BY <1>9, DrainInv
<1>10. CASE DiscardStarted
    BY <1>10, DiscardInv
<1>11. CASE \E o \in Ops : WorkerCompletes(o) \/ WorkerAsks(o) \/ WorkerGivesUp(o)
    BY <1>11, PoolInv
<1>12. CASE Ended
    <2>1. UNCHANGED vars
        BY <1>12 DEF Ended
    <2> QED BY <2>1, StutterInv
<1> QED BY <1>1, <1>2, <1>3, <1>4, <1>5, <1>6, <1>7, <1>8, <1>9, <1>10, <1>11, <1>12
        DEF Next, Coordinator

\* Whatever the plan, the pool and the order of completions, the coordinator keeps its
\* invariant: until the run ends the settled operations are a prefix of the plan and only the
\* last may have failed; afterwards the trace, the outputs and the error agree.
THEOREM CoordinatorInvariant == Spec => []CoordinatorInv
<1>1. Init => CoordinatorInv
    BY InitInv
<1>2. CoordinatorInv /\ [Next]_vars => CoordinatorInv'
    BY NextInv, StutterInv
<1> QED BY <1>1, <1>2, PTL DEF Spec

\* A run that reports success had every operation succeed, and the operation a failed run
\* blames is the one at which the serial executor would have stopped.
THEOREM SerialOutcome == Spec => []FirstFailureWins
<1>1. CoordinatorInv => FirstFailureWins
    BY DEF CoordinatorInv, EndInv, FirstFailureWins
<1> QED BY <1>1, CoordinatorInvariant, PTL

\* abort_after_worker_error(): a preparation or pool fault never hides a failure of a started
\* operation that comes first in the plan.
THEOREM FaultsDoNotPreempt == Spec => []NoPreemption
<1>1. CoordinatorInv => NoPreemption
    BY DEF CoordinatorInv, EndInv, NoPreemption
<1> QED BY <1>1, CoordinatorInvariant, PTL

\* The trace lists operations in plan order, the discarded ones last, each at most once.
THEOREM TraceIsOrdered == Spec => []TraceInOrder
<1>1. CoordinatorInv => TraceInOrder
    <2> SUFFICES ASSUME CoordinatorInv, phase # "ended" PROVE TraceInOrder
        BY DEF CoordinatorInv, EndInv
    <2>1. Data
        BY Goes
    <2>2. Len(trace) \in Nat /\ PrefixInv
        BY <2>1, TraceFacts
    <2>3. \A i \in 1 .. Len(trace) : trace[i].op = i
        BY <2>2 DEF PrefixInv
    <2>4. ASSUME NEW i \in 1 .. Len(trace) - 1
          PROVE  trace[i].kind \in Good /\ ~(trace[i].kind \in {"failed", "discarded"})
        <3>1. i \in 1 .. Len(trace) /\ i # Len(trace)
            BY <2>2
        <3> QED BY <2>2, <3>1 DEF PrefixInv, Good
    <2> QED BY <2>2, <2>3, <2>4 DEF TraceInOrder
<1> QED BY <1>1, CoordinatorInvariant, PTL

\* discard_started_workers(): at the end every started operation has its event, and the
\* visible outputs are those of the operations that succeeded.
THEOREM NoSpeculativeResult == Spec => []NothingSurvives
<1>1. CoordinatorInv => NothingSurvives
    BY DEF CoordinatorInv, EndInv, NothingSurvives
<1> QED BY <1>1, CoordinatorInvariant, PTL

\* Hosted effects run in plan order, group by group.
THEOREM EffectsOrdered == Spec => []EffectsInOrder
<1>1. CoordinatorInv => EffectsInOrder
    BY DEF CoordinatorInv
<1> QED BY <1>1, CoordinatorInvariant, PTL

\* A result that may yet be revoked reaches its own group only, through any chain of
\* operations computed from it.
THEOREM ProvisionalStaysPrivate == Spec => []ProvisionalIsPrivate
<1>1. CoordinatorInv => ProvisionalIsPrivate
    BY DEF CoordinatorInv
<1> QED BY <1>1, CoordinatorInvariant, PTL
=============================================================================
