------------------------- MODULE HostedStoreProofs -------------------------
(***************************************************************************)
(* Proofs about the session store of a hosted node, for any number of      *)
(* sessions, any bounds and any sequence of failures, crashes and power    *)
(* losses: a collected session stays collected and, unless a power loss    *)
(* takes what an open had found and nothing had synchronized, an           *)
(* acknowledged entry survives and the store opens again.                  *)
(***************************************************************************)
EXTENDS HostedStore, SequenceTheorems, WellFoundedInduction, TLAPS

-----------------------------------------------------------------------------
(***************************************************************************)
(* The inductive invariant.  It is stated so that it speaks of every state *)
(* a power loss can leave: of each prefix of a journal from the part that  *)
(* is synchronized or was found by the open on, and of the names that are  *)
(* visible and those that are synchronized or were found.                  *)
(***************************************************************************)

Plain == [seq : Nat, kind : {"opened", "work", "closed"}, of : Journals, kept : {<<>>}]

Control == [seq : Nat, kind : {"refused", "repaired", "authorized", "completed"},
            of : Journals, kept : Seq(Plain)]

Frames == {Torn} \cup Plain \cup Control

GcSteps == {"archive", "source", "remove", "removed", "complete"}

Types ==
    /\ file \in [Journals -> Seq(Frames)] /\ \A s \in Sessions : file[s] \in Seq({Torn} \cup Plain)
    /\ found \in [Journals -> Nat] /\ head \in [Journals -> Int]
    /\ names \in [Sessions -> SUBSET {"dir", "live", "archive"}]
    /\ held \in [Sessions -> SUBSET {"dir", "live", "archive"}]
    /\ phase \in {"down", "opening", "up"} /\ poisoned \in BOOLEAN
    /\ debit \in Nat /\ writing \subseteq Journals /\ cut \subseteq Journals
    /\ task \in {Idle} \cup [at : GcSteps \cup {"install"}, of : Sessions]
    /\ acked \in [Journals -> Seq(Frames)]

\* Only the last frame is torn, and entries are numbered.
Whole(f) == \A i \in 1..Len(f) : IF f[i] = Torn THEN i = Len(f) ELSE f[i].seq = i

\* Journal f with n synchronized frames keeps what was acknowledged.
Keeps(x, f, n) == Len(x) <= n /\ \A i \in 1..Len(x) : x[i] = f[i] /\ f[i] # Torn

\* The cached head h of journal f, which is being written if w, in a store that is poisoned if p.
HeadInv(f, h, w, p) ==
    /\ h \in -1..Len(f)
    /\ w => h >= 0 /\ Len(f) = h + 1 /\ ~IsTorn(f)
    /\ h >= 0 /\ ~p => ~IsTorn(f) /\ (~w => Len(f) = h)

JournalInv(j) ==
    /\ Whole(file[j]) /\ found[j] <= Len(file[j])
    /\ Keeps(acked[j], file[j], found[j])
    /\ HeadInv(file[j], head[j], j \in writing, poisoned)
    /\ phase = "up" => head[j] <= found[j]

\* What authority_control_debit computes after each entry of journal f.
Debits(d, f) ==
    /\ d \in [0..Len(f) -> Nat] /\ d[0] = 0
    /\ \A i \in 1..Len(f) : f[i] # Torn => d[i] = DebitAfter(d[i - 1], f[i]) /\ d[i] <= Headroom

ProcessInv ==
    /\ phase = "down" => head = Unregistered /\ ~poisoned /\ writing = {} /\ task = Idle
    /\ phase # "down" => head[Authority] >= 0
    /\ phase # "up" => writing \subseteq {Authority} /\ task = Idle
    /\ \E d : /\ Debits(d, file[Authority])
              /\ phase # "down" /\ ~poisoned => debit = d[Len(file[Authority])]

\* Journal f is closed and on the disk with all its n synchronized frames.
Final(f, n) == f # <<>> /\ n = Len(f) /\ Last(f).kind = "closed"

\* A collection is authorized once, for a journal that is final, before it is completed.
AuthorityInv ==
    \A i \in 1..Len(file[Authority]) :
       LET e == file[Authority][i] IN
       /\ e.kind = "authorized" =>
             /\ e.of \in Sessions \ writing /\ e.kept = file[e.of]
             /\ Final(file[e.of], found[e.of])
             /\ \A k \in 1..Len(file[Authority]) :
                   file[Authority][k].kind = "authorized" /\ file[Authority][k].of = e.of => k = i
       /\ e.kind = "completed" =>
             \E k \in 1..(i - 1) : /\ file[Authority][k].kind = "authorized"
                                   /\ file[Authority][k].of = e.of

Installed == {"dir", "live"}
Both == {"dir", "live", "archive"}
Moved == {"dir", "archive"}
Gone == {"archive"}

\* Visible and durable names of a session that is not, or that is, being collected.
Open == {<<{}, {}>>, <<Installed, {}>>, <<Installed, Installed>>}

Collecting ==
    {<<Installed, Installed>>, <<Both, Both>>, <<Moved, Installed>>, <<Moved, Both>>,
     <<Moved, Moved>>, <<Gone, Moved>>, <<Gone, Gone>>}

Authorized == Retired(file[Authority])

\* The authorizations a power loss cannot take.
Durable == {s \in Sessions : \E i \in 1..found[Authority] :
              file[Authority][i].kind = "authorized" /\ file[Authority][i].of = s}

NamesInv(s) ==
    /\ s \notin Authorized =>
          /\ <<names[s], held[s]>> \in Open
          /\ head[s] >= 0 => names[s] = Installed
          /\ (head[s] >= 0 /\ phase = "up") \/ acked[s] # <<>> => held[s] = Installed
    /\ s \in Authorized => <<names[s], held[s]>> \in Collecting
    /\ s \in Authorized \ Durable => names[s] = Installed /\ held[s] = Installed
    /\ s \in Of(file[Authority], "completed") => names[s] = Gone /\ held[s] = Gone
    /\ "live" \in names[s] \cup held[s] => found[s] >= 1 /\ file[s][1] # Torn

TaskInv ==
    /\ task.at = "install" =>
          /\ task.of \notin Authorized /\ names[task.of] = Installed /\ head[task.of] = -1
          /\ Len(file[task.of]) = 1 /\ found[task.of] = 1 /\ file[task.of][1] # Torn
    /\ task.at \in GcSteps => writing = {} /\ task.of \in Durable
    /\ task.at = "archive" => "archive" \in names[task.of]
    /\ task.at = "source" => names[task.of] \in {Moved, Gone} /\ "archive" \in held[task.of]
    /\ task.at = "remove" => names[task.of] \in {Moved, Gone} /\ held[task.of] \in {Moved, Gone}
    /\ task.at = "removed" => names[task.of] = Gone /\ held[task.of] \in {Moved, Gone}
    /\ task.at = "complete" => names[task.of] = Gone /\ held[task.of] = Gone

StoreInv ==
    /\ Types /\ ProcessInv /\ AuthorityInv /\ TaskInv
    /\ \A j \in Journals : JournalInv(j)
    /\ \A s \in Sessions : NamesInv(s)

-----------------------------------------------------------------------------
(***************************************************************************)
(* Frames and journals.                                                    *)
(***************************************************************************)

LEMMA FrameTypes ==
    /\ Torn \in Frames /\ Torn.kind = "torn" /\ Plain \subseteq Frames /\ Control \subseteq Frames
    /\ \A e \in Frames : e = Torn <=> e.kind = "torn"
    /\ \A e \in Plain \cup Control : e # Torn /\ e.kind # "torn"
<1>1. Torn.kind = "torn" /\ \A e \in Plain \cup Control : e.kind # "torn"
    BY DEF Torn, Plain, Control
<1> QED BY <1>1 DEF Frames

\* scan_validated_journal drops a torn frame and nothing else.
LEMMA EntriesMeaning ==
    ASSUME NEW f \in Seq(Frames), Whole(f)
    PROVE  /\ Entries(f) \in Seq(Frames) /\ Len(Entries(f)) \in Nat /\ Len(f) \in Nat
           /\ IsTorn(f) => Len(f) = Len(Entries(f)) + 1
           /\ ~IsTorn(f) => Entries(f) = f
           /\ \A i \in 1..Len(Entries(f)) : Entries(f)[i] = f[i] /\ f[i] # Torn /\ f[i] \in Frames
           /\ \A i \in 1..Len(f) : f[i] # Torn => i <= Len(Entries(f))
           /\ Whole(Entries(f)) /\ ~IsTorn(Entries(f)) /\ ~Corrupt(f)
<1> DEFINE g == Entries(f)
<1>1. Len(f) \in Nat /\ \A i \in 1..Len(f) : f[i] \in Frames
    BY LenProperties
<1>2. /\ g \in Seq(Frames) /\ \A i \in 1..Len(g) : g[i] = f[i] /\ f[i] # Torn
      /\ Len(g) \in Nat /\ Len(g) <= Len(f)
      /\ IsTorn(f) => Len(f) = Len(g) + 1
      /\ \A i \in 1..Len(f) : f[i] # Torn => i <= Len(g)
    <2>1. CASE IsTorn(f)
        <3>1. Len(f) # 0 /\ f[Len(f)] = Torn
            BY <2>1, EmptySeq DEF IsTorn, Last
        <3>2. g = SubSeq(f, 1, Len(f) - 1)
            BY <2>1 DEF Entries, Front
        <3>3. \A i \in 1..(Len(f) - 1) : f[i] \in Frames /\ f[i] # Torn
            BY <1>1, <3>1 DEF Whole
        <3>4. /\ g \in Seq(Frames) /\ Len(g) = IF 1 <= Len(f) - 1 THEN Len(f) - 1 - 1 + 1 ELSE 0
              /\ \A i \in 1..(Len(f) - 1 - 1 + 1) : g[i] = f[1 + i - 1]
            BY <1>1, <3>2, <3>3, SubSeqProperties
        <3> HIDE DEF g
        <3>5. Len(g) = Len(f) - 1 /\ Len(f) - 1 \in Nat
            <4>1. Len(f) \in Nat /\ Len(f) # 0
                BY <1>1, <3>1
            <4>2. Len(g) = IF 1 <= Len(f) - 1 THEN Len(f) - 1 - 1 + 1 ELSE 0
                BY <3>4
            <4>3. ASSUME NEW n \in Nat, n # 0
                  PROVE  (IF 1 <= n - 1 THEN n - 1 - 1 + 1 ELSE 0) = n - 1 /\ n - 1 \in Nat
                BY <4>3
            <4> QED BY ONLY <4>1, <4>2, <4>3
        <3>6. \A i \in 1..(Len(f) - 1) : g[i] = f[i]
            BY <1>1, <3>4
        <3>7. \A i \in 1..Len(f) : f[i] # Torn => i <= Len(f) - 1
            BY <1>1, <3>1
        <3> QED BY <1>1, <3>3, <3>4, <3>5, <3>6, <3>7
    <2>2. CASE ~IsTorn(f)
        <3>1. g = f
            BY <2>2 DEF Entries
        <3>2. f # <<>> => f[Len(f)] # Torn
            BY <2>2 DEF IsTorn, Last
        <3>3. Len(f) # 0 => f # <<>>
            BY EmptySeq
        <3>4. \A i \in 1..Len(f) : f[i] # Torn
            BY <1>1, <3>2, <3>3 DEF Whole
        <3> HIDE DEF g
        <3> QED BY <1>1, <2>2, <3>1, <3>4
    <2> QED BY <2>1, <2>2
<1>3. ~IsTorn(f) => g = f
    BY DEF Entries
<1>4. \A i \in 1..Len(g) : f[i].seq = i /\ i \in 1..Len(f)
    BY <1>1, <1>2 DEF Whole
<1>5. DOMAIN g = 1..Len(g)
    BY <1>2, LenProperties
<1>6. ~Corrupt(f)
    BY <1>2, <1>4, <1>5 DEF Corrupt
<1> HIDE DEF g
<1>7. Whole(g) /\ ~IsTorn(g)
    <2>1. g # <<>> => Len(g) \in 1..Len(g)
        BY <1>2, EmptySeq
    <2>2. Whole(g)
        BY <1>2, <1>4 DEF Whole
    <2> QED BY <1>2, <2>1, <2>2 DEF IsTorn, Last
<1> QED BY <1>1, <1>2, <1>3, <1>4, <1>6, <1>7 DEF g

\* A journal with one frame more.
LEMMA Appended ==
    ASSUME NEW f \in Seq(Frames), NEW e \in Frames, Whole(f), ~IsTorn(f),
           e = Torn \/ e.seq = Len(f) + 1
    PROVE  LET g == Append(f, e) IN
           /\ g \in Seq(Frames) /\ Len(f) \in Nat /\ Len(g) = Len(f) + 1 /\ Whole(g)
           /\ g[Len(f) + 1] = e /\ \A i \in 1..Len(f) : g[i] = f[i] /\ f[i] # Torn
           /\ IsTorn(g) <=> e = Torn
<1> DEFINE g == Append(f, e)
<1>1. /\ g \in Seq(Frames) /\ g # <<>> /\ Len(g) = Len(f) + 1
      /\ g[Len(f) + 1] = e /\ \A i \in 1..Len(f) : g[i] = f[i]
    BY AppendProperties
<1> HIDE DEF g
<1>2. Len(f) \in Nat /\ (f = <<>> => Len(f) = 0)
    BY LenProperties, EmptySeq
<1>3. \A i \in 1..Len(f) : f[i] # Torn
    BY <1>2 DEF Whole, IsTorn, Last
<1>4. Whole(g)
    BY <1>1, <1>2, <1>3 DEF Whole
<1>5. IsTorn(g) <=> e = Torn
    BY <1>1 DEF IsTorn, Last
<1> QED BY <1>1, <1>2, <1>3, <1>4, <1>5 DEF g

\* What a power loss leaves of a journal: n frames of it, the next one perhaps torn.
LEMMA Shortened ==
    ASSUME NEW f \in Seq(Frames), Whole(f), NEW n \in 0..Len(f), NEW g,
           \/ g = SubSeq(f, 1, n)
           \/ n < Len(f) /\ g = Append(SubSeq(f, 1, n), Torn)
    PROVE  /\ g \in Seq(Frames) /\ Whole(g) /\ Len(g) \in Nat /\ n <= Len(g)
           /\ \A i \in 1..n : g[i] = f[i]
           /\ \A i \in 1..Len(g) : i > n => g[i] = Torn
<1> DEFINE h == SubSeq(f, 1, n)
<1>1. Len(f) \in Nat /\ n \in Nat /\ \A i \in 1..n : f[i] \in Frames
    BY LenProperties
<1>2. h \in Seq(Frames) /\ Len(h) = n /\ \A i \in 1..n : h[i] = f[i]
    <2>1. /\ h \in Seq(Frames) /\ Len(h) = IF 1 <= n THEN n - 1 + 1 ELSE 0
          /\ \A i \in 1..(n - 1 + 1) : h[i] = f[1 + i - 1]
        BY <1>1, SubSeqProperties
    <2> HIDE DEF h
    <2> QED BY <1>1, <2>1
<1> HIDE DEF h
<1>3. CASE g = h
    BY <1>1, <1>2, <1>3 DEF Whole
<1>4. CASE n < Len(f) /\ g = Append(h, Torn)
    <2>1. \A i \in 1..n : f[i] # Torn /\ f[i].seq = i
        BY <1>1, <1>4 DEF Whole
    <2>2. /\ g \in Seq(Frames) /\ Len(g) = n + 1 /\ g[n + 1] = Torn
          /\ \A i \in 1..n : g[i] = h[i]
        BY <1>2, <1>4, FrameTypes, AppendProperties
    <2>3. \A i \in 1..n : g[i] = f[i]
        BY <1>2, <2>2
    <2>4. \A i \in 1..Len(g) : i \in 1..n \/ i = n + 1
        BY <1>1, <2>2
    <2>5. Whole(g)
        BY <1>1, <2>1, <2>2, <2>3, <2>4 DEF Whole
    <2> QED BY <1>1, <2>2, <2>3, <2>4, <2>5
<1> QED BY <1>3, <1>4 DEF h

\* Collections that a journal records.
LEMMA OfMeaning ==
    ASSUME NEW f \in Seq(Frames), NEW kind, NEW s
    PROVE  s \in Of(f, kind) <=> \E i \in 1..Len(f) : f[i].kind = kind /\ f[i].of = s
<1>1. DOMAIN f = 1..Len(f)
    BY LenProperties
<1> QED BY <1>1 DEF Of

(***************************************************************************)
(* authority_control_debit.                                                *)
(***************************************************************************)

LEMMA DebitTypes ==
    ASSUME NEW d \in Nat, NEW e \in Plain \cup Control, e.kind = "completed" => e.of \in Sessions
    PROVE  DebitAfter(d, e) \in Nat
<1>1. e.kind = "completed" => Payload[e.of] \in Nat
    BY StoreAssumption
<1> QED BY <1>1 DEF DebitAfter

\* The recursion has one solution.
LEMMA DebitMeaning ==
    ASSUME NEW f \in Seq(Frames), NEW d, Debits(d, f), ~IsTorn(f), Whole(f)
    PROVE  DebitOf(f) = d[Len(f)]
<1> DEFINE n == Len(f)
           F(g) == [i \in 0..n |-> IF i = 0 THEN 0 ELSE DebitAfter(g[i - 1], f[i])]
           spent == CHOOSE g : g = F(g)
<1>1. n \in Nat /\ \A i \in 1..n : f[i] # Torn
    BY LenProperties, EmptySeq DEF Whole, IsTorn, Last
<1>2. DebitOf(f) = spent[n]
    BY DEF DebitOf
<1>3. d = F(d)
    BY <1>1 DEF Debits
<1>4. spent = F(spent)
    BY <1>3
<1> HIDE DEF spent
<1>5. spent[0] = 0 /\ \A i \in 1..n : spent[i] = DebitAfter(spent[i - 1], f[i])
    BY <1>1, <1>4
<1>6. d[0] = 0 /\ \A i \in 1..n : d[i] = DebitAfter(d[i - 1], f[i])
    BY <1>1 DEF Debits
<1> DEFINE Bad == {i \in 0..n : spent[i] # d[i]}
           Less == OpToRel(<, Nat)
<1>7. Bad = {}
    <2> SUFFICES ASSUME Bad # {} PROVE FALSE
        OBVIOUS
    <2>1. Bad \subseteq Nat
        BY <1>1
    <2> HIDE DEF Bad
    <2>2. PICK i \in Bad : \A u \in Bad : ~(<<u, i>> \in Less)
        BY <2>1, NatLessThanWellFounded, WFMin
    <2>3. \A u \in Bad : ~(u < i)
        BY <2>1, <2>2 DEF OpToRel
    <2>4. i \in 0..n /\ spent[i] # d[i]
        BY DEF Bad
    <2>5. i \in 1..n /\ i - 1 \in 0..n /\ i - 1 < i
        BY <1>1, <1>5, <1>6, <2>4
    <2>6. spent[i - 1] = d[i - 1]
        BY <2>3, <2>5 DEF Bad
    <2> QED BY <1>5, <1>6, <2>4, <2>5, <2>6
<1> QED BY <1>1, <1>2, <1>7

\* The debits of what is left of a journal.
LEMMA DebitsShorter ==
    ASSUME NEW f \in Seq(Frames), NEW d, Debits(d, f), NEW n \in 0..Len(f),
           NEW g \in Seq(Frames), n <= Len(g), \A i \in 1..n : g[i] = f[i],
           \A i \in 1..Len(g) : i > n => g[i] = Torn
    PROVE  \E c : Debits(c, g) /\ (Len(g) <= Len(f) => c[n] = d[n])
<1> DEFINE c == [i \in 0..Len(g) |-> IF i <= n THEN d[i] ELSE 0]
<1>1. Len(f) \in Nat /\ Len(g) \in Nat /\ n \in Nat
    BY LenProperties
<1>2. c \in [0..Len(g) -> Nat] /\ c[0] = 0 /\ c[n] = d[n]
    BY <1>1 DEF Debits
<1>3. \A i \in 1..Len(g) : g[i] # Torn => c[i] = DebitAfter(c[i - 1], g[i]) /\ c[i] <= Headroom
    <2> SUFFICES ASSUME NEW i \in 1..Len(g), g[i] # Torn
                 PROVE  c[i] = DebitAfter(c[i - 1], g[i]) /\ c[i] <= Headroom
        OBVIOUS
    <2>1. i \in 1..n /\ i \in 1..Len(f) /\ g[i] = f[i]
        BY <1>1
    <2>2. c[i] = d[i] /\ c[i - 1] = d[i - 1]
        BY <1>1, <2>1
    <2> HIDE DEF c
    <2> QED BY <2>1, <2>2 DEF Debits
<1> QED BY <1>2, <1>3 DEF Debits

LEMMA DebitsLonger ==
    ASSUME NEW f \in Seq(Frames), NEW d, Debits(d, f), NEW g \in Seq(Frames), NEW v \in Nat,
           Len(g) = Len(f) + 1, \A i \in 1..Len(f) : g[i] = f[i],
           g[Len(g)] # Torn => v = DebitAfter(d[Len(f)], g[Len(g)]) /\ v <= Headroom
    PROVE  \E c : Debits(c, g) /\ c[Len(g)] = v
<1> DEFINE c == [i \in 0..Len(g) |-> IF i <= Len(f) THEN d[i] ELSE v]
<1>1. Len(f) \in Nat
    BY LenProperties
<1>2. c \in [0..Len(g) -> Nat] /\ c[0] = 0 /\ c[Len(g)] = v /\ \A i \in 0..Len(f) : c[i] = d[i]
    BY <1>1 DEF Debits
<1> HIDE DEF c
<1>3. \A i \in 1..Len(g) : g[i] # Torn => c[i] = DebitAfter(c[i - 1], g[i]) /\ c[i] <= Headroom
    <2> SUFFICES ASSUME NEW i \in 1..Len(g), g[i] # Torn
                 PROVE  c[i] = DebitAfter(c[i - 1], g[i]) /\ c[i] <= Headroom
        OBVIOUS
    <2>1. CASE i \in 1..Len(f)
        <3>1. c[i] = d[i] /\ c[i - 1] = d[i - 1]
            BY <1>1, <1>2, <2>1
        <3> QED BY <2>1, <3>1 DEF Debits
    <2>2. CASE i = Len(g)
        <3>1. i - 1 = Len(f) /\ c[i - 1] = d[Len(f)] /\ c[i] = v
            BY <1>1, <1>2, <2>2
        <3> QED BY <2>2, <3>1
    <2> QED BY <1>1, <2>1, <2>2
<1> QED BY <1>2, <1>3 DEF Debits

-----------------------------------------------------------------------------
(***************************************************************************)
(* Facts of a state.                                                       *)
(***************************************************************************)

LEMMA JournalFacts ==
    ASSUME StoreInv, NEW j \in Journals
    PROVE  /\ file[j] \in Seq(Frames) /\ Len(file[j]) \in Nat /\ found[j] \in 0..Len(file[j])
           /\ head[j] \in Int /\ Whole(file[j]) /\ JournalInv(j)
           /\ \A i \in 1..Len(file[j]) : file[j][i] \in Frames
           /\ acked[j] \in Seq(Frames) /\ Len(acked[j]) \in Nat
           /\ Len(Entries(file[j])) \in Nat
<1>1. file[j] \in Seq(Frames) /\ found[j] \in Nat /\ head[j] \in Int /\ acked[j] \in Seq(Frames)
    BY DEF StoreInv, Types
<1>2. JournalInv(j)
    BY DEF StoreInv
<1>3. Len(file[j]) \in Nat /\ Len(acked[j]) \in Nat
      /\ \A i \in 1..Len(file[j]) : file[j][i] \in Frames
    BY <1>1, LenProperties
<1>4. Whole(file[j]) /\ found[j] <= Len(file[j])
    BY <1>2 DEF JournalInv
<1> QED BY <1>1, <1>2, <1>3, <1>4, EntriesMeaning

LEMMA AuthorityFacts ==
    ASSUME StoreInv
    PROVE  /\ Authority \in Journals /\ Sessions \subseteq Journals /\ Authority \notin Sessions
           /\ \A s : s \in Authorized <=>
                 \E i \in 1..Len(file[Authority]) :
                    file[Authority][i].kind = "authorized" /\ file[Authority][i].of = s
           /\ \A s : s \in Of(file[Authority], "completed") <=>
                 \E i \in 1..Len(file[Authority]) :
                    file[Authority][i].kind = "completed" /\ file[Authority][i].of = s
           /\ Durable \subseteq Authorized /\ Authorized \subseteq Sessions
           /\ Of(file[Authority], "completed") \subseteq Authorized
           /\ \A s \in Authorized : Final(file[s], found[s]) /\ s \notin writing
<1>1. Authority \in Journals /\ Sessions \subseteq Journals /\ Authority \notin Sessions
    BY StoreAssumption DEF Journals
<1>2. /\ file[Authority] \in Seq(Frames) /\ Len(file[Authority]) \in Nat
      /\ found[Authority] \in 0..Len(file[Authority])
    BY <1>1, JournalFacts
<1>3. \A s : s \in Authorized <=>
         \E i \in 1..Len(file[Authority]) :
            file[Authority][i].kind = "authorized" /\ file[Authority][i].of = s
    BY <1>2, OfMeaning DEF Authorized, Retired
<1>4. \A s : s \in Of(file[Authority], "completed") <=>
         \E i \in 1..Len(file[Authority]) :
            file[Authority][i].kind = "completed" /\ file[Authority][i].of = s
    BY <1>2, OfMeaning
<1>5. Durable \subseteq Authorized
    BY <1>2, <1>3 DEF Durable
<1>6. /\ Authorized \subseteq Sessions
      /\ \A s \in Authorized : Final(file[s], found[s]) /\ s \notin writing
    BY <1>3 DEF StoreInv, AuthorityInv
<1>7. Of(file[Authority], "completed") \subseteq Authorized
    <2> SUFFICES ASSUME NEW s \in Of(file[Authority], "completed") PROVE s \in Authorized
        OBVIOUS
    <2>1. PICK i \in 1..Len(file[Authority]) :
             file[Authority][i].kind = "completed" /\ file[Authority][i].of = s
        BY <1>4
    <2>2. PICK k \in 1..(i - 1) : file[Authority][k].kind = "authorized" /\ file[Authority][k].of = s
        BY <2>1 DEF StoreInv, AuthorityInv
    <2>3. k \in 1..Len(file[Authority])
        BY <1>2
    <2> QED BY <1>3, <2>2, <2>3
<1> QED BY <1>1, <1>3, <1>4, <1>5, <1>6, <1>7

\* The last frame of a journal that is closed is whole.
LEMMA FinalMeaning ==
    ASSUME NEW f \in Seq(Frames), NEW n, Final(f, n)
    PROVE  ~IsTorn(f) /\ Len(f) \in Nat \ {0} /\ n = Len(f) /\ f[Len(f)].kind = "closed"
<1>1. Len(f) \in Nat \ {0} /\ f[Len(f)].kind = "closed" /\ n = Len(f)
    BY EmptySeq DEF Final, Last
<1>2. Torn.kind # "closed"
    BY FrameTypes
<1> QED BY <1>1, <1>2 DEF IsTorn, Last

\* A store that is up, is not poisoned and writes nothing has all of a registered journal
\* on the disk.
LEMMA Registered ==
    ASSUME StoreInv, NEW j \in Journals, phase = "up", head[j] >= 0, j \notin writing,
           ~poisoned \/ head[j] = Len(file[j])
    PROVE  found[j] = Len(file[j])
<1>1. head[j] <= found[j] /\ HeadInv(file[j], head[j], j \in writing, poisoned)
    BY DEF StoreInv, JournalInv
<1>2. head[j] = Len(file[j])
    BY <1>1 DEF HeadInv
<1> QED BY <1>1, <1>2, JournalFacts

(***************************************************************************)
(* Steps that leave the journals alone.                                    *)
(***************************************************************************)

LEMMA Frame ==
    ASSUME StoreInv, UNCHANGED <<file, found, phase, debit, acked>>,
           writing' \subseteq writing, cut' \subseteq Journals,
           \/ poisoned' = poisoned /\ writing' = writing
           \/ poisoned' = TRUE,
           head' \in [Journals -> Int],
           \A j \in Journals : head'[j] = head[j] \/ (phase # "down" /\ j \in Sessions \ writing' /\ head'[j] = -1),
           task' \in {Idle} \cup [at : GcSteps \cup {"install"}, of : Sessions],
           phase # "up" => task' = Idle, phase = "down" => poisoned' = poisoned,
           names' \in [Sessions -> SUBSET {"dir", "live", "archive"}],
           held' \in [Sessions -> SUBSET {"dir", "live", "archive"}],
           TaskInv', \A s \in Sessions : NamesInv(s)'
    PROVE  StoreInv'
<1>1. Types'
    BY DEF StoreInv, Types
<1>2. ASSUME NEW j \in Journals PROVE JournalInv(j)'
    <2>1. JournalInv(j) /\ Len(file[j]) \in Nat /\ head[j] \in Int /\ found[j] \in 0..Len(file[j])
        BY JournalFacts
    <2>2. HeadInv(file[j], head[j], j \in writing, poisoned)
        BY <2>1 DEF JournalInv
    <2>3. HeadInv(file[j], head'[j], j \in writing', poisoned')
        BY <2>1, <2>2 DEF HeadInv
    <2>4. phase = "up" => head'[j] <= found[j]
        BY <2>1 DEF JournalInv
    <2> QED BY <2>1, <2>3, <2>4 DEF JournalInv
<1>3. AuthorityInv'
    BY DEF StoreInv, AuthorityInv
<1>4. ProcessInv'
    <2>1. Authority \in Journals /\ Authority \notin Sessions
        BY AuthorityFacts
    <2>2. phase = "down" => head' = Unregistered
        BY DEF StoreInv, ProcessInv, Unregistered, Types
    <2>3. \E d : /\ Debits(d, file[Authority])
                 /\ phase # "down" /\ ~poisoned' => debit = d[Len(file[Authority])]
        BY DEF StoreInv, ProcessInv
    <2> QED BY <2>1, <2>2, <2>3 DEF StoreInv, ProcessInv, Debits, DebitAfter, Types
<1> QED BY <1>1, <1>2, <1>3, <1>4 DEF StoreInv

\* What the journals say of a session changes only with them.
LEMMA SameJournals ==
    ASSUME file'[Authority] = file[Authority], found'[Authority] = found[Authority]
    PROVE  /\ Authorized' = Authorized /\ Durable' = Durable
           /\ Of(file'[Authority], "completed") = Of(file[Authority], "completed")
<1>1. Authorized' = Authorized
    BY DEF Authorized, Retired, Of
<1>2. Durable' = Durable
    BY DEF Durable
<1> QED BY <1>1, <1>2

\* A synchronization of the sessions directory completes what was begun.
LEMMA SyncedNames ==
    ASSUME NEW s \in Sessions
    PROVE  /\ <<names[s], held[s]>> \in Open =>
                 /\ <<names[s], SessionsSynced(held)[s]>> \in Open
                 /\ names[s] = Installed => SessionsSynced(held)[s] = Installed
           /\ <<names[s], held[s]>> \in Collecting =>
                 /\ <<names[s], SessionsSynced(held)[s]>> \in Collecting
                 /\ names[s] = Gone => SessionsSynced(held)[s] = Gone
                 /\ names[s] = Moved => SessionsSynced(held)[s] = held[s]
                 /\ names[s] = Installed => SessionsSynced(held)[s] = Installed
           /\ "live" \in SessionsSynced(held)[s] => "live" \in names[s] \cup held[s]
<1>1. SessionsSynced(held)[s] = IF "dir" \in names[s] THEN held[s] \cup (names[s] \cap {"dir", "live"})
                          ELSE held[s] \ {"dir", "live"}
    BY DEF SessionsSynced
<1>2. ASSUME NEW n, NEW d, NEW r, r = IF "dir" \in n THEN d \cup (n \cap {"dir", "live"}) ELSE d \ {"dir", "live"}
      PROVE  /\ n = {} /\ d = {} => r = {}
             /\ n = Installed /\ d \in {{}, Installed} => r = Installed
             /\ n = Both /\ d = Both => r = Both
             /\ n = Moved /\ d \in {Installed, Both, Moved} => r = d
             /\ n = Gone /\ d \in {Moved, Gone} => r = Gone
             /\ "live" \in r => "live" \in n \cup d
    BY <1>2 DEF Installed, Both, Moved, Gone
<1>3. /\ Installed # {} /\ Both # {} /\ Moved # {} /\ Gone # {} /\ Installed # Both
      /\ Installed # Moved /\ Installed # Gone /\ Both # Moved /\ Both # Gone /\ Moved # Gone
    BY DEF Installed, Both, Moved, Gone
<1> QED BY <1>1, <1>2, <1>3 DEF Open, Collecting

\* A session whose visible names stay as they are.
LEMMA NamesKept ==
    ASSUME StoreInv, NEW s \in Sessions, phase' = phase,
           file'[Authority] = file[Authority], found'[Authority] = found[Authority],
           file'[s] = file[s], found'[s] = found[s], acked'[s] = acked[s],
           names'[s] = names[s], head'[s] \in {head[s], -1}, held'[s] \in {held[s], SessionsSynced(held)[s]}
    PROVE  NamesInv(s)'
<1>1. NamesInv(s)
    BY DEF StoreInv
<1>2. Authorized' = Authorized /\ Durable' = Durable /\ Of(file'[Authority], "completed") = Of(file[Authority], "completed")
    BY SameJournals
<1>3. CASE held'[s] = held[s]
    BY <1>1, <1>2, <1>3 DEF NamesInv
<1>4. CASE held'[s] = SessionsSynced(held)[s]
    <2>4. <<names[s], held[s]>> \in Open /\ held[s] = Installed => names[s] = Installed
        <3>1. Installed # {}
            BY DEF Installed
        <3> QED BY <3>1 DEF Open
    <2>1. s \notin Authorized =>
          /\ <<names[s], held'[s]>> \in Open
          /\ head'[s] >= 0 => names[s] = Installed
          /\ (head'[s] >= 0 /\ phase = "up") \/ acked[s] # <<>> => held'[s] = Installed
        <3> SUFFICES ASSUME s \notin Authorized
                     PROVE  /\ <<names[s], held'[s]>> \in Open
                            /\ head'[s] >= 0 => names[s] = Installed
                            /\ (head'[s] >= 0 /\ phase = "up") \/ acked[s] # <<>> => held'[s] = Installed
            OBVIOUS
        <3>1. /\ <<names[s], held[s]>> \in Open
              /\ head[s] >= 0 => names[s] = Installed
              /\ acked[s] # <<>> => held[s] = Installed
            BY <1>1 DEF NamesInv
        <3>2. head'[s] >= 0 => head[s] >= 0
            OBVIOUS
        <3> QED BY <1>4, <2>4, <3>1, <3>2, SyncedNames
    <2>2. /\ s \in Authorized => <<names[s], held'[s]>> \in Collecting
          /\ s \in Authorized \ Durable => names[s] = Installed /\ held'[s] = Installed
          /\ s \in Of(file[Authority], "completed") => names[s] = Gone /\ held'[s] = Gone
        BY <1>1, <1>4, SyncedNames, AuthorityFacts DEF NamesInv
    <2>3. "live" \in names[s] \cup held'[s] => found[s] >= 1 /\ file[s][1] # Torn
        BY <1>1, <1>4, SyncedNames DEF NamesInv
    <2> QED BY <1>2, <2>1, <2>2, <2>3 DEF NamesInv
<1> QED BY <1>3, <1>4

\* A collected session whose names move.
LEMMA NamesMoved ==
    ASSUME StoreInv, UNCHANGED <<file, found>>, NEW s \in Durable,
           <<names'[s], held'[s]>> \in Collecting,
           names[s] = Gone /\ held[s] = Gone => names'[s] = Gone /\ held'[s] = Gone,
           "live" \in names'[s] \cup held'[s] => "live" \in names[s] \cup held[s]
    PROVE  NamesInv(s)'
<1>1. NamesInv(s) /\ s \in Sessions /\ s \in Authorized
    BY AuthorityFacts DEF StoreInv
<1>2. Authorized' = Authorized /\ Durable' = Durable /\ Of(file'[Authority], "completed") = Of(file[Authority], "completed")
    BY SameJournals
<1> QED BY <1>1, <1>2 DEF NamesInv

\* Of an authorized session: which journal, on the disk, and how its names are.
LEMMA CollectedNames ==
    ASSUME StoreInv, NEW s \in Authorized
    PROVE  /\ s \in Sessions /\ <<names[s], held[s]>> \in Collecting
           /\ names[s] \in {Installed, Both, Moved, Gone} /\ held[s] \in {Installed, Both, Moved, Gone}
           /\ names[s] = Gone => held[s] \in {Moved, Gone}
<1>1. s \in Sessions /\ NamesInv(s)
    BY AuthorityFacts DEF StoreInv
<1>2. <<names[s], held[s]>> \in Collecting
    BY <1>1 DEF NamesInv
<1>3. Installed # Gone /\ Both # Gone /\ Moved # Gone
    BY DEF Installed, Both, Moved, Gone
<1> QED BY <1>1, <1>2, <1>3 DEF Collecting

-----------------------------------------------------------------------------
(***************************************************************************)
(* Garbage collection.                                                     *)
(***************************************************************************)

\* The invariant of the collection in progress, as a fact of the task.
CollectingTask(s) ==
    /\ s \in Durable /\ writing = {}
    /\ task.at = "archive" => "archive" \in names[s]
    /\ task.at = "source" => names[s] \in {Moved, Gone} /\ "archive" \in held[s]
    /\ task.at = "remove" => names[s] \in {Moved, Gone} /\ held[s] \in {Moved, Gone}
    /\ task.at = "removed" => names[s] = Gone /\ held[s] \in {Moved, Gone}
    /\ task.at = "complete" => names[s] = Gone /\ held[s] = Gone

LEMMA IdleTask ==
    task = Idle => TaskInv
BY DEF TaskInv, Idle, GcSteps

\* The part of a step of the collection of s that is the same for all.
LEMMA GcStep ==
    ASSUME StoreInv, UNCHANGED <<file, found, phase, poisoned, debit, writing, cut, acked>>,
           phase = "up", NEW s \in Durable, NEW at \in GcSteps, task' = [at |-> at, of |-> s],
           names' \in [Sessions -> SUBSET Both], held' \in [Sessions -> SUBSET Both],
           head' \in [Journals -> Int], \A j \in Journals : head'[j] = head[j] \/ (j = s /\ head'[j] = -1),
           \A t \in Sessions : t # s => names'[t] = names[t] /\ held'[t] \in {held[t], SessionsSynced(held)[t]},
           <<names'[s], held'[s]>> \in Collecting,
           names[s] = Gone /\ held[s] = Gone => names'[s] = Gone /\ held'[s] = Gone,
           "live" \in names'[s] \cup held'[s] => "live" \in names[s] \cup held[s],
           CollectingTask(s)'
    PROVE  StoreInv'
<1>1. s \in Sessions /\ s \notin writing
    BY AuthorityFacts
<1>2. ASSUME NEW t \in Sessions PROVE NamesInv(t)'
    <2>1. t \in Journals /\ (t # s => head'[t] = head[t])
        BY AuthorityFacts
    <2> QED BY <2>1, NamesKept, NamesMoved
<1>3. TaskInv'
    <2>1. task'.at = at /\ task'.of = s /\ at # "install"
        BY DEF GcSteps
    <2> QED BY <2>1 DEF TaskInv, CollectingTask
<1>4. task' \in [at : GcSteps \cup {"install"}, of : Sessions]
    BY <1>1
<1>5. cut \subseteq Journals
    BY DEF StoreInv, Types
<1> QED BY <1>1, <1>2, <1>3, <1>4, <1>5, Frame DEF Both

LEMMA NameTypes ==
    ASSUME StoreInv
    PROVE  /\ names \in [Sessions -> SUBSET Both] /\ held \in [Sessions -> SUBSET Both]
           /\ SessionsSynced(held) \in [Sessions -> SUBSET Both] /\ head \in [Journals -> Int]
<1>1. names \in [Sessions -> SUBSET Both] /\ held \in [Sessions -> SUBSET Both] /\ head \in [Journals -> Int]
    BY DEF StoreInv, Types, Both
<1>2. \A s \in Sessions : names[s] \subseteq Both /\ held[s] \subseteq Both
    BY <1>1
<1>3. SessionsSynced(held) \in [Sessions -> SUBSET Both]
    <2> SUFFICES ASSUME NEW s \in Sessions
                 PROVE  (IF "dir" \in names[s] THEN held[s] \cup (names[s] \cap {"dir", "live"})
                         ELSE held[s] \ {"dir", "live"}) \in SUBSET Both
        BY DEF SessionsSynced
    <2> QED BY <1>2
<1> QED BY <1>1, <1>3

\* The step a collection of s is in.
LEMMA CollectionUnderway ==
    ASSUME StoreInv, NEW s, NEW at \in GcSteps, task = [at |-> at, of |-> s]
    PROVE  /\ s \in Durable /\ s \in Sessions /\ CollectingTask(s) /\ task.at = at
           /\ phase = "up" /\ s \in Authorized
<1>1. CollectingTask(s) /\ s \in Durable
    BY DEF StoreInv, TaskInv, CollectingTask
<1>2. task # Idle /\ task.at = at
    BY DEF Idle, GcSteps
<1>3. phase = "up"
    BY <1>2 DEF StoreInv, ProcessInv, Types
<1> QED BY <1>1, <1>2, <1>3, AuthorityFacts

LEMMA GcRetainKeeps ==
    ASSUME StoreInv, NEW s \in Sessions, GcRetain(s)
    PROVE  StoreInv'
<1> USE DEF GcRetain
<1>1. s \in Authorized
    BY DEF Authorized, PendingGc
<1>2. s \in Durable
    <2>1. found[Authority] = Len(file[Authority])
        BY AuthorityFacts, Registered DEF StoreInv, ProcessInv
    <2> QED BY <1>1, <2>1, AuthorityFacts DEF Durable
<1>3. "archive" \in names[s] => names'[s] = names[s]
    BY NameTypes
<1>4. "archive" \notin names[s] => names'[s] = Moved /\ names[s] = Installed
    <2>1. "archive" \notin Installed /\ "archive" \in Both /\ "archive" \in Moved /\ "archive" \in Gone
        BY DEF Installed, Both, Moved, Gone
    <2>2. "archive" \notin names[s] => names[s] = Installed /\ names'[s] = (names[s] \ {"live"}) \cup {"archive"}
        BY <1>1, <2>1, CollectedNames, NameTypes
    <2>3. (Installed \ {"live"}) \cup {"archive"} = Moved
        BY DEF Installed, Moved
    <2> QED BY <2>2, <2>3
<1>5. <<names'[s], held[s]>> \in Collecting
    <2>1. names[s] = Installed => held[s] = Installed
        <3>1. Installed # Both /\ Installed # Moved /\ Installed # Gone
            BY DEF Installed, Both, Moved, Gone
        <3> QED BY <1>1, <3>1, CollectedNames DEF Collecting
    <2> QED BY <1>1, <1>3, <1>4, <2>1, CollectedNames DEF Collecting
<1>6. "archive" \in names'[s] /\ "archive" \in Gone
    BY <1>3, <1>4 DEF Moved, Gone
<1>7. CollectingTask(s)'
    BY <1>2, <1>6, SameJournals DEF CollectingTask
<1>8. names' \in [Sessions -> SUBSET Both]
    BY <1>3, <1>4, NameTypes DEF Moved, Both
<1>9. "live" \in names'[s] => "live" \in names[s]
    BY NameTypes
<1>10. "archive" \in GcSteps
    BY DEF GcSteps
<1>11. \A t \in Sessions : t # s => names'[t] = names[t]
    BY NameTypes
<1>12. names[s] = Gone => names'[s] = Gone
    BY <1>3 DEF Gone
<1> QED BY <1>2, <1>5, <1>7, <1>8, <1>9, <1>10, <1>11, <1>12, GcStep, NameTypes

LEMMA GcSyncArchiveKeeps ==
    ASSUME StoreInv, NEW s \in Sessions, GcSyncArchive(s)
    PROVE  StoreInv'
<1> USE DEF GcSyncArchive
<1>1. "archive" \in GcSteps /\ "source" \in GcSteps
    BY DEF GcSteps
<1>2. s \in Durable /\ s \in Authorized /\ "archive" \in names[s] /\ phase = "up" /\ writing = {}
    BY <1>1, CollectionUnderway DEF CollectingTask
<1>3. <<names[s], held[s]>> \in Collecting /\ names[s] # Installed
    BY <1>2, CollectedNames DEF Installed
<1>4. names'[s] = names[s] \ {"live"} /\ held'[s] = held[s] \cup {"archive"}
    BY NameTypes
<1>5. /\ <<names'[s], held'[s]>> \in Collecting /\ names'[s] \in {Moved, Gone}
      /\ names[s] = Gone /\ held[s] = Gone => names'[s] = Gone /\ held'[s] = Gone
    <2>1. /\ Both \ {"live"} = Moved /\ Moved \ {"live"} = Moved /\ Gone \ {"live"} = Gone
          /\ Both \cup {"archive"} = Both /\ Moved \cup {"archive"} = Moved /\ Gone \cup {"archive"} = Gone
          /\ Installed \cup {"archive"} = Both
        BY DEF Installed, Both, Moved, Gone
    <2> QED BY <1>3, <1>4, <2>1 DEF Collecting
<1>6. CollectingTask(s)'
    BY <1>2, <1>4, <1>5, SameJournals DEF CollectingTask
<1>7. names' \in [Sessions -> SUBSET Both] /\ held' \in [Sessions -> SUBSET Both]
    BY <1>4, NameTypes DEF Both
<1>8. \A t \in Sessions : t # s => names'[t] = names[t] /\ held'[t] = held[t]
    BY NameTypes
<1>9. "live" \in names'[s] \cup held'[s] => "live" \in names[s] \cup held[s]
    BY <1>4
<1> QED BY <1>1, <1>2, <1>5, <1>6, <1>7, <1>8, <1>9, GcStep, NameTypes

LEMMA GcSyncSourceKeeps ==
    ASSUME StoreInv, NEW s \in Sessions, GcSyncSource(s)
    PROVE  StoreInv'
<1> USE DEF GcSyncSource, SourceSynced
<1>1. "remove" \in GcSteps /\ "source" \in GcSteps
    BY DEF GcSteps
<1>2. /\ s \in Durable /\ s \in Authorized /\ phase = "up" /\ writing = {}
      /\ names[s] \in {Moved, Gone} /\ "archive" \in held[s]
    BY <1>1, CollectionUnderway DEF CollectingTask
<1>3. /\ <<names[s], held[s]>> \in Collecting /\ held[s] # Installed
      /\ names[s] = Gone => held[s] \in {Moved, Gone}
    BY <1>2, CollectedNames DEF Installed
<1>4. /\ <<names[s], held'[s]>> \in Collecting /\ held'[s] \in {Moved, Gone}
      /\ held[s] = Gone => held'[s] = Gone
    <2>1. CASE names[s] = Moved
        <3>1. "dir" \in Moved /\ Both \ {"live"} = Moved /\ Moved \ {"live"} = Moved /\ Gone \ {"live"} = Gone
            BY DEF Moved, Gone, Both
        <3>2. held'[s] = held[s] \ {"live"}
            BY <2>1, <3>1, NameTypes
        <3>3. held[s] \in {Both, Moved}
            <4>1. Moved # Installed /\ Moved # Both /\ Moved # Gone
                BY DEF Installed, Both, Moved, Gone
            <4> QED BY <1>3, <2>1, <4>1 DEF Collecting
        <3>4. held'[s] = Moved /\ held[s] # Gone
            <4>1. Both # Gone /\ Moved # Gone
                BY DEF Both, Moved, Gone
            <4> QED BY <3>1, <3>2, <3>3, <4>1
        <3> QED BY <2>1, <3>4 DEF Collecting
    <2>2. CASE names[s] = Gone
        <3>1. held'[s] = Gone
            BY <1>3, <2>2, SyncedNames DEF Gone
        <3> QED BY <2>2, <3>1 DEF Collecting
    <2> QED BY <1>2, <2>1, <2>2
<1>5. \A t \in Sessions : t # s => held'[t] \in {held[t], SessionsSynced(held)[t]}
    BY NameTypes
<1>6. held' \in [Sessions -> SUBSET Both]
    BY NameTypes
<1>7. "live" \notin held'[s]
    BY <1>4 DEF Moved, Gone
<1>8. CollectingTask(s)'
    BY <1>2, <1>4, SameJournals DEF CollectingTask
<1> QED BY <1>1, <1>2, <1>4, <1>5, <1>6, <1>7, <1>8, GcStep, NameTypes

LEMMA GcRemoveKeeps ==
    ASSUME StoreInv, NEW s \in Sessions, GcRemove(s)
    PROVE  StoreInv'
<1> USE DEF GcRemove
<1>1. "remove" \in GcSteps /\ "removed" \in GcSteps
    BY DEF GcSteps
<1>2. /\ s \in Durable /\ s \in Authorized /\ phase = "up" /\ writing = {}
      /\ names[s] \in {Moved, Gone} /\ held[s] \in {Moved, Gone}
    BY <1>1, CollectionUnderway DEF CollectingTask
<1>3. names'[s] = Gone
    <2>1. names'[s] = names[s] \ {"dir"}
        BY NameTypes
    <2> QED BY <1>2, <2>1 DEF Moved, Gone
<1>4. <<names'[s], held[s]>> \in Collecting
    BY <1>2, <1>3 DEF Collecting
<1>5. names' \in [Sessions -> SUBSET Both]
    BY NameTypes
<1>6. \A t \in Sessions : t # s => names'[t] = names[t]
    BY NameTypes
<1>7. "live" \notin names'[s]
    BY <1>3 DEF Gone
<1>8. CollectingTask(s)'
    BY <1>2, <1>3, SameJournals DEF CollectingTask
<1> QED BY <1>1, <1>2, <1>3, <1>4, <1>5, <1>6, <1>7, <1>8, GcStep, NameTypes

LEMMA GcSyncRemovalKeeps ==
    ASSUME StoreInv, NEW s \in Sessions, GcSyncRemoval(s)
    PROVE  StoreInv'
<1> USE DEF GcSyncRemoval
<1>1. "complete" \in GcSteps /\ "removed" \in GcSteps
    BY DEF GcSteps
<1>2. /\ s \in Durable /\ s \in Authorized /\ phase = "up" /\ writing = {}
      /\ names[s] = Gone /\ held[s] \in {Moved, Gone}
    BY <1>1, CollectionUnderway DEF CollectingTask
<1>3. held'[s] = Gone
    BY <1>2, CollectedNames, SyncedNames
<1>4. <<names[s], held'[s]>> \in Collecting
    BY <1>2, <1>3 DEF Collecting
<1>5. \A j \in Journals : head'[j] = head[j] \/ (j = s /\ head'[j] = -1)
    BY NameTypes
<1>6. head' \in [Journals -> Int]
    <2>1. -1 \in Int
        OBVIOUS
    <2> QED BY <2>1, NameTypes
<1>7. "live" \notin held'[s]
    BY <1>3 DEF Gone
<1>8. CollectingTask(s)'
    BY <1>2, <1>3, SameJournals DEF CollectingTask
<1> QED BY <1>1, <1>2, <1>3, <1>4, <1>5, <1>6, <1>7, <1>8, GcStep, NameTypes

LEMMA GcFailsKeeps ==
    ASSUME StoreInv, GcFails
    PROVE  StoreInv'
<1> USE DEF GcFails
<1>1. \A s \in Sessions : NamesInv(s)'
    BY NamesKept, NameTypes
<1>2. TaskInv'
    BY DEF TaskInv, Idle, GcSteps
<1>3. cut \subseteq Journals
    BY DEF StoreInv, Types
<1> QED BY <1>1, <1>2, <1>3, NameTypes, Frame DEF Both

-----------------------------------------------------------------------------
(***************************************************************************)
(* Failures that change no journal.                                        *)
(***************************************************************************)

LEMMA InstallFailsKeeps ==
    ASSUME StoreInv, NEW s \in Sessions, InstallFails(s)
    PROVE  StoreInv'
<1> USE DEF InstallFails
<1>1. \A t \in Sessions : NamesInv(t)'
    BY NamesKept, NameTypes
<1>2. TaskInv'
    BY DEF TaskInv, Idle, GcSteps
<1>3. cut \subseteq Journals
    BY DEF StoreInv, Types
<1>4. phase # "down"
    BY DEF StoreInv, ProcessInv, Idle
<1> QED BY <1>1, <1>2, <1>3, <1>4, NameTypes, Frame DEF Both

LEMMA AppendSyncFailsKeeps ==
    ASSUME StoreInv, NEW j \in Journals, AppendSyncFails(j)
    PROVE  StoreInv'
<1> USE DEF AppendSyncFails
<1>1. \A s \in Sessions : NamesInv(s)'
    BY NamesKept, NameTypes
<1>2. TaskInv'
    BY SameJournals DEF StoreInv, TaskInv
<1>3. cut \subseteq Journals /\ task \in {Idle} \cup [at : GcSteps \cup {"install"}, of : Sessions]
    BY DEF StoreInv, Types
<1>4. phase # "down"
    BY DEF StoreInv, ProcessInv
<1>5. phase # "up" => task = Idle
    BY DEF StoreInv, ProcessInv
<1> QED BY <1>1, <1>2, <1>3, <1>4, <1>5, NameTypes, Frame DEF Both

-----------------------------------------------------------------------------
(***************************************************************************)
(* Steps on the journal of one session.                                    *)
(***************************************************************************)

TaskTypes == {Idle} \cup [at : GcSteps \cup {"install"}, of : Sessions]

LEMMA SessionStep ==
    ASSUME StoreInv, NEW s \in Sessions, phase' = phase, phase # "down", debit' = debit,
           file' \in [Journals -> Seq(Frames)], found' \in [Journals -> Nat],
           head' \in [Journals -> Int], acked' \in [Journals -> Seq(Frames)],
           writing' \subseteq Journals, cut' \subseteq Journals, poisoned' \in {poisoned, TRUE},
           \A j \in Journals : j # s =>
              /\ file'[j] = file[j] /\ found'[j] = found[j] /\ head'[j] = head[j]
              /\ acked'[j] = acked[j] /\ (j \in writing' <=> j \in writing),
           names' \in [Sessions -> SUBSET Both], held' \in [Sessions -> SUBSET Both],
           \A t \in Sessions : t # s => names'[t] = names[t] /\ held'[t] \in {held[t], SessionsSynced(held)[t]},
           s \in writing' => phase = "up",
           s \in Authorized => file'[s] = file[s] /\ found'[s] = found[s] /\ s \notin writing',
           file'[s] \in Seq({Torn} \cup Plain), JournalInv(s)', NamesInv(s)',
           task' \in TaskTypes, phase # "up" => task' = Idle, TaskInv'
    PROVE  StoreInv'
<1>1. Types'
    <2>1. \A t \in Sessions : file'[t] \in Seq({Torn} \cup Plain)
        BY AuthorityFacts DEF StoreInv, Types
    <2>2. poisoned' \in BOOLEAN /\ debit \in Nat /\ phase \in {"down", "opening", "up"}
        BY DEF StoreInv, Types
    <2> QED BY <2>1, <2>2 DEF Types, Both, TaskTypes
<1>2. ASSUME NEW j \in Journals, j # s PROVE JournalInv(j)'
    <2>1. JournalInv(j)
        BY DEF StoreInv
    <2>2. HeadInv(file[j], head[j], j \in writing', poisoned')
        BY <1>2, <2>1, JournalFacts DEF JournalInv, HeadInv
    <2> QED BY <1>2, <2>1, <2>2 DEF JournalInv
<1>3. file'[Authority] = file[Authority] /\ found'[Authority] = found[Authority] /\ head'[Authority] = head[Authority]
    BY AuthorityFacts
<1>4. AuthorityInv'
    <2>1. \A t \in Authorized : file'[t] = file[t] /\ found'[t] = found[t] /\ t \notin writing' /\ t \in Sessions
        BY AuthorityFacts
    <2>2. \A i \in 1..Len(file[Authority]) : file[Authority][i].kind = "authorized" => file[Authority][i].of \in Authorized
        BY AuthorityFacts
    <2>3. ASSUME NEW i \in 1..Len(file[Authority]), file[Authority][i].kind = "authorized"
          PROVE  LET e == file[Authority][i] IN
                 /\ e.of \in Sessions \ writing' /\ e.kept = file'[e.of]
                 /\ Final(file'[e.of], found'[e.of])
                 /\ \A k \in 1..Len(file[Authority]) :
                       file[Authority][k].kind = "authorized" /\ file[Authority][k].of = e.of => k = i
        <3> DEFINE e == file[Authority][i]
        <3>1. /\ e.kept = file[e.of] /\ Final(file[e.of], found[e.of])
              /\ \A k \in 1..Len(file[Authority]) :
                    file[Authority][k].kind = "authorized" /\ file[Authority][k].of = e.of => k = i
            BY <2>3 DEF StoreInv, AuthorityInv
        <3>2. e.of \in Authorized
            BY <2>2, <2>3
        <3> HIDE DEF e
        <3>3. /\ e.of \in Sessions \ writing' /\ e.kept = file'[e.of]
              /\ Final(file'[e.of], found'[e.of])
            BY <2>1, <3>1, <3>2
        <3> QED BY <3>1, <3>3 DEF e
    <2>4. ASSUME NEW i \in 1..Len(file[Authority]), file[Authority][i].kind = "completed"
          PROVE  \E k \in 1..(i - 1) : /\ file[Authority][k].kind = "authorized"
                                       /\ file[Authority][k].of = file[Authority][i].of
        BY <2>4 DEF StoreInv, AuthorityInv
    <2> QED BY <1>3, <2>3, <2>4 DEF AuthorityInv
<1>5. ASSUME NEW t \in Sessions PROVE NamesInv(t)'
    BY <1>3, AuthorityFacts, NamesKept
<1>6. ProcessInv'
    <2>1. \E d : /\ Debits(d, file[Authority])
                 /\ phase # "down" /\ ~poisoned' => debit = d[Len(file[Authority])]
        BY DEF StoreInv, ProcessInv
    <2>2. phase # "up" => writing' \subseteq {Authority}
        BY DEF StoreInv, ProcessInv
    <2>3. head[Authority] >= 0
        BY DEF StoreInv, ProcessInv
    <2>4. \E d : /\ Debits(d, file'[Authority])
                 /\ phase' # "down" /\ ~poisoned' => debit' = d[Len(file'[Authority])]
        BY <1>3, <2>1
    <2> QED BY <1>3, <2>2, <2>3, <2>4 DEF ProcessInv
<1> QED BY <1>1, <1>2, <1>4, <1>5, <1>6 DEF StoreInv

\* A session whose directory is missing is new.
LEMMA NotInstalled ==
    ASSUME StoreInv, NEW s \in Sessions, MayInstall(s)
    PROVE  /\ s \notin Authorized /\ names[s] = {} /\ held[s] = {} /\ acked[s] = <<>>
           /\ head[s] = -1 /\ s \notin writing
<1>1. s \notin Authorized /\ "dir" \notin names[s] /\ NamesInv(s) /\ s \in Journals
    BY AuthorityFacts DEF MayInstall, Authorized, StoreInv
<1>2. names[s] = {} /\ held[s] = {}
    <2>1. "dir" \in Installed
        BY DEF Installed
    <2> QED BY <1>1, <2>1 DEF NamesInv, Open
<1>3. Installed # {}
    BY DEF Installed
<1>4. acked[s] = <<>> /\ ~(head[s] >= 0)
    BY <1>1, <1>2, <1>3 DEF NamesInv
<1>5. head[s] = -1 /\ s \notin writing
    BY <1>1, <1>4, JournalFacts DEF JournalInv, HeadInv
<1> QED BY <1>1, <1>2, <1>4, <1>5

LEMMA InstallRenameKeeps ==
    ASSUME StoreInv, NEW s \in Sessions, InstallRename(s)
    PROVE  StoreInv'
<1> DEFINE e == [seq |-> 1, kind |-> "opened", of |-> s, kept |-> <<>>]
<1>1. /\ s \notin Authorized /\ names[s] = {} /\ held[s] = {} /\ acked[s] = <<>>
      /\ head[s] = -1 /\ s \notin writing
    BY NotInstalled DEF InstallRename
<1>2. s \in Journals /\ Authority \in Journals /\ s # Authority
    BY AuthorityFacts
<1>3. e \in Plain /\ e # Torn /\ e \in Frames /\ e.seq = 1
    <2>1. e \in Plain
        BY <1>2 DEF Plain
    <2> QED BY <2>1, FrameTypes
<1>4. /\ file'[s] = <<e>> /\ found'[s] = 1 /\ names'[s] = Installed /\ held' = held
      /\ \A j \in Journals : j # s => file'[j] = file[j] /\ found'[j] = found[j]
      /\ \A t \in Sessions : t # s => names'[t] = names[t]
      /\ head' = head /\ acked' = acked /\ writing' = writing /\ task' = [at |-> "install", of |-> s]
      /\ phase' = phase /\ phase = "up" /\ poisoned' = poisoned /\ debit' = debit /\ cut' = cut
    BY <1>1, <1>2 DEF InstallRename, StoreInv, Types, Installed
<1> HIDE DEF e
<1>5. /\ <<e>> \in Seq({Torn} \cup Plain) /\ <<e>> \in Seq(Frames) /\ Len(<<e>>) = 1 /\ <<e>>[1] = e
      /\ <<e>> # <<>>
    BY <1>3
<1>6. /\ file' \in [Journals -> Seq(Frames)] /\ found' \in [Journals -> Nat]
      /\ names' \in [Sessions -> SUBSET Both]
    <2>1. file' \in [Journals -> Seq(Frames)]
        BY <1>5 DEF InstallRename, StoreInv, Types, e
    <2>2. found' \in [Journals -> Nat]
        BY DEF InstallRename, StoreInv, Types
    <2>3. names' \in [Sessions -> SUBSET Both]
        BY NameTypes DEF InstallRename, Both
    <2> QED BY <2>1, <2>2, <2>3
<1>7. JournalInv(s)'
    <2>1. Whole(<<e>>) /\ Keeps(<<>>, <<e>>, 1) /\ HeadInv(<<e>>, -1, FALSE, poisoned)
        BY <1>3, <1>5 DEF Whole, Keeps, HeadInv
    <2>2. HeadInv(<<e>>, -1, s \in writing, poisoned)
        BY <1>1, <2>1 DEF HeadInv
    <2> QED BY <1>1, <1>4, <1>5, <2>1, <2>2 DEF JournalInv
<1>8. Authorized' = Authorized /\ Of(file'[Authority], "completed") = Of(file[Authority], "completed")
    BY <1>2, <1>4, SameJournals
<1>9. NamesInv(s)'
    <2>1. s \notin Of(file[Authority], "completed")
        BY <1>1, AuthorityFacts
    <2>2. <<names'[s], held'[s]>> \in Open
        BY <1>1, <1>4 DEF Open
    <2>3. ~(head'[s] >= 0) /\ acked'[s] = <<>>
        BY <1>1, <1>4
    <2> QED BY <1>1, <1>3, <1>4, <1>5, <1>8, <2>1, <2>2, <2>3 DEF NamesInv
<1>10. TaskInv'
    <2>1. task'.at = "install" /\ task'.of = s /\ "install" \notin GcSteps
        BY <1>4 DEF GcSteps
    <2> QED BY <1>1, <1>3, <1>4, <1>5, <1>8, <2>1 DEF TaskInv, GcSteps
<1>11. task' \in TaskTypes
    BY <1>4 DEF TaskTypes
<1>12. writing \subseteq Journals /\ cut \subseteq Journals /\ head \in [Journals -> Int] /\ acked \in [Journals -> Seq(Frames)]
    BY DEF StoreInv, Types
<1> QED BY <1>1, <1>4, <1>5, <1>6, <1>7, <1>9, <1>10, <1>11, <1>12, NameTypes, SessionStep

LEMMA InstallFinishKeeps ==
    ASSUME StoreInv, NEW s \in Sessions, InstallFinish(s)
    PROVE  StoreInv'
<1> USE DEF InstallFinish
<1>1. /\ s \notin Authorized /\ names[s] = Installed /\ head[s] = -1
      /\ Len(file[s]) = 1 /\ found[s] = 1 /\ file[s][1] # Torn
    <2>1. task.at = "install" /\ task.of = s
        OBVIOUS
    <2> QED BY <2>1 DEF StoreInv, TaskInv
<1>2. s \in Journals /\ Authority \in Journals /\ s # Authority
    BY AuthorityFacts
<1>3. phase = "up"
    BY DEF StoreInv, ProcessInv, Idle, Types
<1>4. NamesInv(s) /\ <<names[s], held[s]>> \in Open
    BY <1>1 DEF StoreInv, NamesInv
<1>5. held'[s] = Installed /\ held' = SessionsSynced(held)
    BY <1>1, <1>4, SyncedNames
<1>6. /\ head'[s] = 1 /\ acked'[s] = file[s]
      /\ \A j \in Journals : j # s => head'[j] = head[j] /\ acked'[j] = acked[j]
      /\ head' \in [Journals -> Int] /\ acked' \in [Journals -> Seq(Frames)]
    BY <1>1, <1>2 DEF StoreInv, Types
<1>7. JournalInv(s)'
    <2>1. file[s] \in Seq(Frames) /\ Whole(file[s]) /\ JournalInv(s)
        BY <1>2, JournalFacts
    <2>2. Keeps(file[s], file[s], 1)
        BY <1>1 DEF Keeps
    <2>3. s \notin writing
        BY <1>1, <2>1 DEF JournalInv, HeadInv
    <2>4. ~IsTorn(file[s])
        BY <1>1 DEF IsTorn, Last
    <2>5. HeadInv(file[s], 1, s \in writing, poisoned)
        BY <1>1, <2>3, <2>4 DEF HeadInv
    <2> QED BY <1>1, <1>6, <2>1, <2>2, <2>5 DEF JournalInv
<1>8. /\ Authorized' = Authorized /\ Of(file'[Authority], "completed") = Of(file[Authority], "completed")
    BY SameJournals
<1>9. NamesInv(s)'
    <2>1. s \notin Of(file[Authority], "completed")
        BY <1>1, AuthorityFacts
    <2>2. <<names'[s], held'[s]>> \in Open
        BY <1>1, <1>5 DEF Open
    <2> QED BY <1>1, <1>5, <1>8, <2>1, <2>2 DEF NamesInv
<1>10. TaskInv'
    BY DEF TaskInv, Idle, GcSteps
<1>11. writing \subseteq Journals /\ cut \subseteq Journals
    BY DEF StoreInv, Types
<1>12. file \in [Journals -> Seq(Frames)] /\ found \in [Journals -> Nat] /\ file[s] \in Seq({Torn} \cup Plain)
    BY DEF StoreInv, Types
<1> QED BY <1>1, <1>3, <1>5, <1>6, <1>7, <1>9, <1>10, <1>11, <1>12, NameTypes, SessionStep DEF TaskTypes

\* An append leaves its frame whole and to be synchronized, or torn in a poisoned store.
Appends(j, e, x) ==
    /\ MayAppend(j, e) /\ Debited(j, e) /\ file' = [file EXCEPT ![j] = Append(@, x)]
    /\ \/ x = e /\ writing' = writing \cup {j} /\ poisoned' = poisoned
       \/ x = Torn /\ writing' = writing /\ poisoned' = TRUE

\* The journal an append leaves.
LEMMA AppendsFile ==
    ASSUME StoreInv, NEW j \in Journals, NEW e \in Plain \cup Control, NEW x \in {e, Torn}, Appends(j, e, x)
    PROVE  /\ file'[j] = Append(file[j], x) /\ file'[j] \in Seq(Frames)
           /\ Len(file'[j]) = Len(file[j]) + 1 /\ Whole(file'[j])
           /\ file'[j][Len(file[j]) + 1] = x
           /\ \A i \in 1..Len(file[j]) : file'[j][i] = file[j][i] /\ file[j][i] # Torn
           /\ IsTorn(file'[j]) <=> x = Torn
<1> DEFINE f == file[j]
           g == Append(f, x)
<1>1. ~poisoned /\ head[j] >= 0 /\ j \notin writing /\ head[j] = Len(f) /\ e.seq = Len(f) + 1
    BY DEF Appends, MayAppend
<1>2. f \in Seq(Frames) /\ Whole(f) /\ JournalInv(j) /\ Len(f) \in Nat
    BY JournalFacts
<1>3. ~IsTorn(f)
    BY <1>1, <1>2 DEF JournalInv, HeadInv
<1>4. x \in Frames /\ e # Torn
    BY FrameTypes
<1>5. /\ g \in Seq(Frames) /\ Len(g) = Len(f) + 1 /\ Whole(g) /\ g[Len(f) + 1] = x
      /\ \A i \in 1..Len(f) : g[i] = f[i] /\ f[i] # Torn
      /\ IsTorn(g) <=> x = Torn
    BY <1>1, <1>2, <1>3, <1>4, Appended
<1>6. file'[j] = g
    BY DEF Appends, StoreInv, Types
<1> HIDE DEF g
<1>7. /\ file'[j] \in Seq(Frames) /\ Len(file'[j]) = Len(f) + 1 /\ Whole(file'[j]) /\ file'[j][Len(f) + 1] = x
      /\ \A i \in 1..Len(f) : file'[j][i] = f[i] /\ f[i] # Torn
      /\ IsTorn(file'[j]) <=> x = Torn
    BY <1>5, <1>6
<1> QED BY <1>6, <1>7 DEF g

LEMMA AppendsElsewhere ==
    ASSUME StoreInv, NEW j \in Journals, NEW e \in Plain \cup Control, NEW x \in {e, Torn}, Appends(j, e, x)
    PROVE  /\ file' \in [Journals -> Seq(Frames)] /\ \A k \in Journals : k # j => file'[k] = file[k]
           /\ writing' \subseteq Journals /\ poisoned' \in {poisoned, TRUE}
           /\ \A k \in Journals : k # j => (k \in writing' <=> k \in writing)
           /\ ~poisoned /\ j \notin writing /\ Len(file[j]) = head[j]
<1>1. file \in [Journals -> Seq(Frames)] /\ writing \subseteq Journals
    BY DEF StoreInv, Types
<1>2. Append(file[j], x) \in Seq(Frames)
    <2>1. file'[j] = Append(file[j], x) /\ file'[j] \in Seq(Frames)
        BY AppendsFile
    <2> QED BY <2>1
<1>3. file' \in [Journals -> Seq(Frames)] /\ \A k \in Journals : k # j => file'[k] = file[k]
    BY <1>1, <1>2 DEF Appends
<1>4. /\ writing' \subseteq Journals /\ poisoned' \in {poisoned, TRUE}
      /\ \A k \in Journals : k # j => (k \in writing' <=> k \in writing)
    BY <1>1 DEF Appends
<1>5. ~poisoned /\ j \notin writing /\ Len(file[j]) = head[j]
    BY DEF Appends, MayAppend
<1> QED BY <1>3, <1>4, <1>5

LEMMA AppendsJournal ==
    ASSUME StoreInv, NEW j \in Journals, NEW e \in Plain \cup Control, NEW x \in {e, Torn}, Appends(j, e, x),
           found' = found, head' = head, acked' = acked, phase' = phase
    PROVE  JournalInv(j)'
<1> DEFINE f == file[j]
           g == file'[j]
<1>1. /\ ~poisoned /\ head[j] >= 0 /\ head[j] = Len(f)
      /\ JournalInv(j) /\ Len(f) \in Nat /\ found[j] \in 0..Len(f) /\ Len(acked[j]) \in Nat
    BY JournalFacts DEF Appends, MayAppend
<1>2. /\ g \in Seq(Frames) /\ Len(g) = Len(f) + 1 /\ Whole(g)
      /\ \A i \in 1..Len(f) : g[i] = f[i] /\ f[i] # Torn
      /\ IsTorn(g) <=> x = Torn
    BY AppendsFile
<1>3. /\ j \in writing' => x # Torn
      /\ ~poisoned' => j \in writing' /\ x # Torn
    BY FrameTypes DEF Appends, MayAppend
<1> HIDE DEF g
<1>4. HeadInv(g, head[j], j \in writing', poisoned')
    BY <1>1, <1>2, <1>3 DEF HeadInv
<1>5. Keeps(acked[j], g, found[j])
    <2>1. Keeps(acked[j], f, found[j])
        BY <1>1 DEF JournalInv
    <2>2. Len(acked[j]) <= found[j] /\ \A i \in 1..Len(acked[j]) : acked[j][i] = f[i] /\ f[i] # Torn
        BY <2>1 DEF Keeps
    <2>3. \A i \in 1..Len(acked[j]) : i \in 1..Len(f)
        BY <1>1, <2>2
    <2> QED BY <1>2, <2>2, <2>3 DEF Keeps
<1>6. phase = "up" => head[j] <= found[j]
    BY <1>1 DEF JournalInv
<1>7. found[j] <= Len(g)
    BY <1>1, <1>2
<1> QED BY <1>2, <1>4, <1>5, <1>6, <1>7 DEF JournalInv, g

LEMMA AppendEntryKeeps ==
    ASSUME StoreInv, NEW s \in Sessions, NEW kind \in {"work", "closed"}, AppendEntry(s, kind)
    PROVE  StoreInv'
<1>1. /\ phase = "up" /\ task.at \in {"idle", "install"} /\ "live" \in names[s]
      /\ file[s] # <<>> /\ Last(file[s]).kind # "closed"
      /\ UNCHANGED <<found, names, held, phase, head, cut, task, acked>>
    BY DEF AppendEntry
<1>2. s \in Journals /\ Authority \in Journals /\ s # Authority
    BY AuthorityFacts
<1>3. PICK e \in Plain : e = Entry(s, kind, s, <<>>)
    <2>1. Entry(s, kind, s, <<>>) \in Plain
        BY <1>2, JournalFacts DEF Entry, Plain
    <2> QED BY <2>1
<1>4. s \notin Authorized
    BY <1>1, AuthorityFacts DEF Final
<1>5. PICK x \in {e, Torn} : Appends(s, e, x)
    BY <1>3 DEF AppendEntry, AppendWrite, AppendWhole, AppendPart, MayAppend, Debited, Appends
<1>6. /\ JournalInv(s)' /\ Len(file'[s]) = Len(file[s]) + 1
      /\ \A i \in 1..Len(file[s]) : file'[s][i] = file[s][i]
      /\ file' \in [Journals -> Seq(Frames)] /\ \A k \in Journals : k # s => file'[k] = file[k]
      /\ writing' \subseteq Journals /\ poisoned' \in {poisoned, TRUE}
      /\ \A k \in Journals : k # s => (k \in writing' <=> k \in writing)
    <2>1. e \in Plain \cup Control
        BY <1>3
    <2>2. JournalInv(s)'
        BY <1>1, <1>2, <1>5, <2>1, AppendsJournal
    <2>3. Len(file'[s]) = Len(file[s]) + 1 /\ \A i \in 1..Len(file[s]) : file'[s][i] = file[s][i]
        BY <1>2, <1>5, <2>1, AppendsFile
    <2>4. file' \in [Journals -> Seq(Frames)] /\ \A k \in Journals : k # s => file'[k] = file[k]
        BY <1>2, <1>5, <2>1, AppendsElsewhere
    <2>5. /\ writing' \subseteq Journals /\ poisoned' \in {poisoned, TRUE}
          /\ \A k \in Journals : k # s => (k \in writing' <=> k \in writing)
        BY <1>2, <1>5, <2>1, AppendsElsewhere
    <2> QED BY <2>2, <2>3, <2>4, <2>5
<1>7. file'[s] \in Seq({Torn} \cup Plain)
    <2>1. file[s] \in Seq({Torn} \cup Plain)
        BY DEF StoreInv, Types
    <2>2. file'[s] = Append(file[s], x)
        BY <1>2, <1>5 DEF Appends, StoreInv, Types
    <2> QED BY <1>3, <2>1, <2>2
<1>8. debit' = debit
    BY <1>2, <1>5 DEF Appends, Debited
<1>9. /\ Authorized' = Authorized /\ Durable' = Durable
      /\ Of(file'[Authority], "completed") = Of(file[Authority], "completed")
    BY <1>1, <1>2, <1>6, SameJournals
<1>10. NamesInv(s)'
    <2>1. NamesInv(s) /\ Len(file[s]) \in Nat /\ found[s] \in 0..Len(file[s])
        BY <1>2, JournalFacts DEF StoreInv
    <2>2. found[s] >= 1 => file'[s][1] = file[s][1]
        BY <1>6, <2>1
    <2> QED BY <1>1, <1>9, <2>1, <2>2 DEF NamesInv
<1>11. TaskInv' /\ task' \in TaskTypes
    <2>1. TaskInv /\ task \in TaskTypes
        BY DEF StoreInv, Types, TaskTypes
    <2>2. task.at = "install" => task.of \in Sessions /\ task.of # s
        <3>1. head[s] >= 0
            BY <1>5 DEF Appends, MayAppend
        <3>2. task.at = "install" => head[task.of] = -1 /\ task.of \in Sessions
            BY <2>1 DEF TaskInv, TaskTypes, Idle
        <3> QED BY <3>1, <3>2
    <2>3. task.at = "install" => file'[task.of] = file[task.of]
        BY <1>6, <2>2, AuthorityFacts
    <2>4. task.at \notin GcSteps
        BY <1>1 DEF GcSteps
    <2> QED BY <1>1, <1>9, <2>1, <2>3, <2>4 DEF TaskInv, GcSteps
<1>12. cut \subseteq Journals /\ found \in [Journals -> Nat] /\ acked \in [Journals -> Seq(Frames)]
    BY DEF StoreInv, Types
<1> QED BY <1>1, <1>4, <1>6, <1>7, <1>8, <1>10, <1>11, <1>12, NameTypes, SessionStep

\* The journal a synchronization leaves.
LEMMA AppendSyncJournal ==
    ASSUME StoreInv, NEW j \in Journals, AppendSync(j)
    PROVE  /\ JournalInv(j)' /\ found'[j] = Len(file[j]) /\ head'[j] = Len(file[j]) /\ head[j] >= 0
           /\ found' \in [Journals -> Nat] /\ head' \in [Journals -> Int]
           /\ acked' \in [Journals -> Seq(Frames)] /\ writing' \subseteq Journals
           /\ \A k \in Journals : k # j =>
                 /\ found'[k] = found[k] /\ head'[k] = head[k] /\ acked'[k] = acked[k]
                 /\ (k \in writing' <=> k \in writing)
           /\ j \notin writing' /\ poisoned' = poisoned /\ phase # "down"
<1> USE DEF AppendSync
<1>1. /\ file[j] \in Seq(Frames) /\ Len(file[j]) \in Nat /\ Whole(file[j]) /\ JournalInv(j)
      /\ found[j] \in 0..Len(file[j])
    BY JournalFacts
<1>2. /\ found \in [Journals -> Nat] /\ head \in [Journals -> Int] /\ acked \in [Journals -> Seq(Frames)]
      /\ writing \subseteq Journals
    BY DEF StoreInv, Types
<1>3. /\ found'[j] = Len(file[j]) /\ head'[j] = Len(file[j]) /\ acked'[j] = file[j]
      /\ found' \in [Journals -> Nat] /\ head' \in [Journals -> Int]
      /\ acked' \in [Journals -> Seq(Frames)] /\ writing' \subseteq Journals
    BY <1>1, <1>2
<1>4. \A k \in Journals : k # j =>
         /\ found'[k] = found[k] /\ head'[k] = head[k] /\ acked'[k] = acked[k]
         /\ (k \in writing' <=> k \in writing)
    BY <1>2
<1>5. ~IsTorn(file[j]) /\ head[j] >= 0
    BY <1>1 DEF JournalInv, HeadInv
<1>6. \A i \in 1..Len(file[j]) : file[j][i] # Torn
    BY <1>1, <1>5, EntriesMeaning
<1>7. Keeps(file[j], file[j], Len(file[j]))
    BY <1>1, <1>6 DEF Keeps
<1>8. HeadInv(file[j], Len(file[j]), j \in writing', poisoned)
    <2>1. j \notin writing'
        OBVIOUS
    <2> QED BY <1>1, <1>5, <2>1 DEF HeadInv
<1>9. JournalInv(j)'
    BY <1>1, <1>3, <1>7, <1>8 DEF JournalInv
<1>10. phase # "down"
    BY DEF StoreInv, ProcessInv
<1> QED BY <1>3, <1>4, <1>5, <1>9, <1>10

LEMMA AppendSyncSessionKeeps ==
    ASSUME StoreInv, NEW s \in Sessions, AppendSync(s)
    PROVE  StoreInv'
<1> USE DEF AppendSync
<1>1. s \in Journals /\ Authority \in Journals /\ s # Authority /\ s \notin Authorized
    BY AuthorityFacts
<1>2. phase = "up" /\ phase # "down"
    BY <1>1 DEF StoreInv, ProcessInv, Types
<1>3. /\ JournalInv(s)' /\ found'[s] = Len(file[s]) /\ head[s] >= 0
      /\ found' \in [Journals -> Nat] /\ head' \in [Journals -> Int]
      /\ acked' \in [Journals -> Seq(Frames)] /\ writing' \subseteq Journals /\ s \notin writing'
    BY <1>1, AppendSyncJournal
<1>4. \A k \in Journals : k # s =>
         /\ found'[k] = found[k] /\ head'[k] = head[k] /\ acked'[k] = acked[k]
         /\ (k \in writing' <=> k \in writing)
    BY <1>1, AppendSyncJournal
<1>5. /\ Authorized' = Authorized
      /\ Of(file'[Authority], "completed") = Of(file[Authority], "completed")
    BY <1>1, <1>4, SameJournals
<1>6. NamesInv(s)'
    <2>1. NamesInv(s) /\ held[s] = Installed /\ names[s] = Installed
        BY <1>1, <1>2, <1>3 DEF StoreInv, NamesInv
    <2>2. s \notin Of(file[Authority], "completed") /\ <<names[s], held[s]>> \in Open
        BY <1>1, <2>1, AuthorityFacts DEF Open
    <2>3. found[s] \in 0..Len(file[s]) /\ Len(file[s]) \in Nat
        BY <1>1, JournalFacts
    <2>4. "live" \in names[s] \cup held[s] => found'[s] >= 1 /\ file[s][1] # Torn
        BY <1>3, <2>1, <2>3 DEF NamesInv
    <2> QED BY <1>1, <1>5, <2>1, <2>2, <2>4 DEF NamesInv
<1>7. TaskInv' /\ task' \in TaskTypes
    <2>1. TaskInv /\ task \in TaskTypes
        BY DEF StoreInv, Types, TaskTypes
    <2>2. task.at \notin GcSteps
        BY <2>1 DEF TaskInv
    <2>3. task.at = "install" => task.of \in Journals /\ task.of # s
        BY <1>3, <2>1, AuthorityFacts DEF TaskInv, TaskTypes, Idle
    <2>4. task.at = "install" => head'[task.of] = head[task.of] /\ found'[task.of] = found[task.of]
        BY <1>4, <2>3
    <2> QED BY <1>5, <2>1, <2>2, <2>4 DEF TaskInv, GcSteps
<1>8. cut \subseteq Journals /\ file \in [Journals -> Seq(Frames)] /\ file[s] \in Seq({Torn} \cup Plain)
    BY DEF StoreInv, Types
<1> QED BY <1>1, <1>2, <1>3, <1>4, <1>6, <1>7, <1>8, NameTypes, SessionStep

-----------------------------------------------------------------------------
(***************************************************************************)
(* Steps on the authority journal.                                         *)
(***************************************************************************)

LEMMA AuthorityStep ==
    ASSUME StoreInv, UNCHANGED <<names, held>>, phase' # "down", phase' = "up" => phase = "up",
           file' \in [Journals -> Seq(Frames)], found' \in [Journals -> Nat],
           head' \in [Journals -> Int], acked' \in [Journals -> Seq(Frames)], phase' \in {"opening", "up"},
           writing' \subseteq Journals, cut' \subseteq Journals, poisoned' \in {poisoned, TRUE}, debit' \in Nat,
           \A s \in Sessions :
              /\ file'[s] = file[s] /\ found'[s] = found[s] /\ head'[s] = head[s]
              /\ acked'[s] = acked[s] /\ (s \in writing' <=> s \in writing),
           JournalInv(Authority)', head'[Authority] >= 0,
           \E d : Debits(d, file'[Authority]) /\ (~poisoned' => debit' = d[Len(file'[Authority])]),
           AuthorityInv', TaskInv', \A s \in Sessions : NamesInv(s)',
           task' \in TaskTypes, phase' # "up" => phase # "up" /\ task' = Idle
    PROVE  StoreInv'
<1>1. Types'
    <2>1. \A s \in Sessions : file'[s] \in Seq({Torn} \cup Plain)
        BY DEF StoreInv, Types
    <2>2. poisoned' \in BOOLEAN
        BY DEF StoreInv, Types
    <2> QED BY <2>1, <2>2, NameTypes DEF Types, Both, TaskTypes
<1>2. ASSUME NEW j \in Journals PROVE JournalInv(j)'
    <2>1. CASE j \in Sessions
        <3>1. JournalInv(j)
            BY DEF StoreInv
        <3>2. HeadInv(file[j], head[j], j \in writing', poisoned')
            BY <2>1, <3>1, JournalFacts DEF JournalInv, HeadInv
        <3> QED BY <2>1, <3>1, <3>2 DEF JournalInv
    <2> QED BY <2>1 DEF Journals
<1>3. ProcessInv'
    <2>1. phase' # "up" => writing' \subseteq {Authority}
        BY DEF StoreInv, ProcessInv, Journals
    <2> QED BY <2>1 DEF ProcessInv
<1> QED BY <1>1, <1>2, <1>3 DEF StoreInv

LEMMA AppendSyncAuthorityKeeps ==
    ASSUME StoreInv, AppendSync(Authority)
    PROVE  StoreInv'
<1>1. Authority \in Journals /\ Sessions \subseteq Journals /\ Authority \notin Sessions
    BY AuthorityFacts
<1>2. /\ JournalInv(Authority)' /\ found'[Authority] = Len(file[Authority])
      /\ head'[Authority] >= 0 /\ phase # "down" /\ poisoned' = poisoned
      /\ found' \in [Journals -> Nat] /\ head' \in [Journals -> Int]
      /\ acked' \in [Journals -> Seq(Frames)] /\ writing' \subseteq Journals
    <2>1. Len(file[Authority]) \in Nat
        BY <1>1, JournalFacts
    <2>2. /\ JournalInv(Authority)' /\ found'[Authority] = Len(file[Authority])
          /\ head'[Authority] = Len(file[Authority]) /\ phase # "down" /\ poisoned' = poisoned
          /\ found' \in [Journals -> Nat] /\ head' \in [Journals -> Int]
          /\ acked' \in [Journals -> Seq(Frames)] /\ writing' \subseteq Journals
        BY <1>1, AppendSyncJournal
    <2> QED BY <2>1, <2>2
<1>3. \A s \in Sessions :
         /\ found'[s] = found[s] /\ head'[s] = head[s] /\ acked'[s] = acked[s]
         /\ (s \in writing' <=> s \in writing)
    BY <1>1, AppendSyncJournal
<1> USE DEF AppendSync
<1>4. Authorized' = Authorized /\ Of(file'[Authority], "completed") = Of(file[Authority], "completed")
    BY DEF Authorized, Retired, Of
<1>5. Durable' = Authorized
    BY <1>2, AuthorityFacts DEF Durable
<1>6. ASSUME NEW s \in Sessions PROVE NamesInv(s)'
    <2>1. NamesInv(s)
        BY DEF StoreInv
    <2> QED BY <1>3, <1>4, <1>5, <2>1 DEF NamesInv
<1>7. TaskInv' /\ task' \in TaskTypes
    <2>1. TaskInv /\ task \in TaskTypes
        BY DEF StoreInv, Types, TaskTypes
    <2>2. task.at \notin GcSteps
        BY <2>1 DEF TaskInv
    <2>3. task.at = "install" => head'[task.of] = head[task.of] /\ found'[task.of] = found[task.of]
        BY <1>3, <2>1 DEF TaskTypes, Idle
    <2> QED BY <1>4, <2>1, <2>2, <2>3 DEF TaskInv, GcSteps
<1>8. AuthorityInv'
    <2> DEFINE A == file[Authority]
    <2>1. ASSUME NEW i \in 1..Len(A), A[i].kind = "authorized"
          PROVE  /\ A[i].of \in Sessions \ writing' /\ A[i].kept = file[A[i].of]
                 /\ Final(file[A[i].of], found'[A[i].of])
                 /\ \A k \in 1..Len(A) : A[k].kind = "authorized" /\ A[k].of = A[i].of => k = i
        BY <1>3, <2>1 DEF StoreInv, AuthorityInv
    <2>2. ASSUME NEW i \in 1..Len(A), A[i].kind = "completed"
          PROVE  \E k \in 1..(i - 1) : A[k].kind = "authorized" /\ A[k].of = A[i].of
        BY <2>2 DEF StoreInv, AuthorityInv
    <2> QED BY <2>1, <2>2 DEF AuthorityInv
<1>9. /\ cut \subseteq Journals /\ file \in [Journals -> Seq(Frames)] /\ debit \in Nat
      /\ phase \in {"opening", "up"} /\ (phase # "up" => task = Idle)
      /\ \E d : Debits(d, file[Authority]) /\ (~poisoned => debit = d[Len(file[Authority])])
    BY <1>2 DEF StoreInv, Types, ProcessInv
<1> QED BY <1>2, <1>3, <1>6, <1>7, <1>8, <1>9, AuthorityStep

\* What an append records.
LEMMA AuthorityAppended ==
    ASSUME StoreInv, NEW e \in Control, NEW x \in {e, Torn}, Appends(Authority, e, x), found' = found
    PROVE  /\ \A s : s \in Authorized' <=> s \in Authorized \/ (x = e /\ e.kind = "authorized" /\ s = e.of)
           /\ \A s : s \in Of(file'[Authority], "completed") <=>
                 s \in Of(file[Authority], "completed") \/ (x = e /\ e.kind = "completed" /\ s = e.of)
           /\ Durable' = Durable
<1> DEFINE f == file[Authority]
           g == file'[Authority]
<1>1. Authority \in Journals /\ e \in Plain \cup Control
    BY AuthorityFacts
<1>2. /\ g \in Seq(Frames) /\ Len(g) = Len(f) + 1 /\ g[Len(f) + 1] = x
      /\ \A i \in 1..Len(f) : g[i] = f[i]
    BY <1>1, AppendsFile
<1>3. f \in Seq(Frames) /\ Len(f) \in Nat /\ found[Authority] \in 0..Len(f)
    BY <1>1, JournalFacts
<1>4. Torn.kind = "torn"
    BY DEF Torn
<1> HIDE DEF g, f
<1>5. ASSUME NEW kind \in {"authorized", "completed"}, NEW s
      PROVE  s \in Of(g, kind) <=> s \in Of(f, kind) \/ (x = e /\ e.kind = kind /\ s = e.of)
    <2>1. s \in Of(g, kind) <=> \E i \in 1..Len(g) : g[i].kind = kind /\ g[i].of = s
        BY <1>2, OfMeaning
    <2>2. s \in Of(f, kind) <=> \E i \in 1..Len(f) : f[i].kind = kind /\ f[i].of = s
        BY <1>3, OfMeaning
    <2>3. (x.kind = kind /\ x.of = s) <=> (x = e /\ e.kind = kind /\ s = e.of)
        BY <1>4
    <2>4. \A i : i \in 1..Len(g) <=> i \in 1..Len(f) \/ i = Len(f) + 1
        BY <1>2, <1>3
    <2> QED BY <1>2, <2>1, <2>2, <2>3, <2>4
<1>6. Durable' = Durable
    <2>1. \A i \in 1..found[Authority] : g[i] = f[i]
        BY <1>2, <1>3
    <2> QED BY <2>1 DEF Durable, f, g
<1> QED BY <1>5, <1>6 DEF Authorized, Retired, f, g

\* An authorization is for a closed journal that is on the disk and has none, a completion for
\* a session that has one.
MayRecord(e) ==
    /\ e.kind = "authorized" =>
          /\ e.of \in Sessions \ (writing \cup Authorized) /\ e.kept = file[e.of]
          /\ Final(file[e.of], found[e.of])
    /\ e.kind = "completed" => e.of \in Authorized

LEMMA AuthorityAppendedInv ==
    ASSUME StoreInv, NEW e \in Control, NEW x \in {e, Torn}, Appends(Authority, e, x), found' = found,
           MayRecord(e)
    PROVE  AuthorityInv'
<1> DEFINE f == file[Authority]
           g == file'[Authority]
<1>1. Authority \in Journals /\ e \in Plain \cup Control /\ Authority \notin Sessions /\ Sessions \subseteq Journals
    BY AuthorityFacts
<1>2. /\ g \in Seq(Frames) /\ Len(g) = Len(f) + 1 /\ g[Len(f) + 1] = x
      /\ \A i \in 1..Len(f) : g[i] = f[i]
    BY <1>1, AppendsFile
<1>3. f \in Seq(Frames) /\ Len(f) \in Nat
    BY <1>1, JournalFacts
<1>4. \A i : i \in 1..Len(g) <=> i \in 1..Len(f) \/ i = Len(f) + 1
    BY <1>2, <1>3
<1>5. Torn.kind = "torn"
    BY DEF Torn
<1>6. \A s \in Sessions : file'[s] = file[s] /\ (s \in writing' <=> s \in writing)
    BY <1>1, AppendsElsewhere
<1>7. \A s : s \in Authorized <=> \E i \in 1..Len(f) : f[i].kind = "authorized" /\ f[i].of = s
    BY AuthorityFacts
<1>8. /\ \A i \in 1..Len(f) : f[i].kind = "authorized" =>
            /\ f[i].of \in Sessions \ writing /\ f[i].kept = file[f[i].of]
            /\ Final(file[f[i].of], found[f[i].of])
            /\ \A k \in 1..Len(f) : f[k].kind = "authorized" /\ f[k].of = f[i].of => k = i
      /\ \A i \in 1..Len(f) : f[i].kind = "completed" =>
            \E k \in 1..(i - 1) : f[k].kind = "authorized" /\ f[k].of = f[i].of
    BY DEF StoreInv, AuthorityInv
<1> HIDE DEF g, f
<1>9. ASSUME NEW i \in 1..Len(g), g[i].kind = "authorized"
      PROVE  /\ g[i].of \in Sessions \ writing' /\ g[i].kept = file'[g[i].of]
             /\ Final(file'[g[i].of], found'[g[i].of])
             /\ \A k \in 1..Len(g) : g[k].kind = "authorized" /\ g[k].of = g[i].of => k = i
    <2>1. /\ g[i].of \in Sessions \ writing /\ g[i].kept = file[g[i].of]
          /\ Final(file[g[i].of], found[g[i].of])
        BY <1>2, <1>4, <1>5, <1>8, <1>9 DEF MayRecord
    <2>2. ASSUME NEW k \in 1..Len(g), g[k].kind = "authorized", g[k].of = g[i].of
          PROVE  k = i
        <3>1. CASE i \in 1..Len(f) /\ k \in 1..Len(f)
            BY <1>2, <1>8, <1>9, <2>2, <3>1
        <3>2. CASE i \in 1..Len(f) /\ k = Len(f) + 1
            BY <1>2, <1>5, <1>7, <1>9, <2>2, <3>2 DEF MayRecord
        <3>3. CASE k \in 1..Len(f) /\ i = Len(f) + 1
            BY <1>2, <1>5, <1>7, <1>9, <2>2, <3>3 DEF MayRecord
        <3> QED BY <1>4, <3>1, <3>2, <3>3
    <2> QED BY <1>6, <2>1, <2>2
<1>10. ASSUME NEW i \in 1..Len(g), g[i].kind = "completed"
       PROVE  \E k \in 1..(i - 1) : g[k].kind = "authorized" /\ g[k].of = g[i].of
    <2>1. CASE i \in 1..Len(f)
        <3>1. PICK k \in 1..(i - 1) : f[k].kind = "authorized" /\ f[k].of = f[i].of
            BY <1>2, <1>8, <1>10, <2>1
        <3>2. k \in 1..Len(f)
            BY <1>3, <2>1
        <3> QED BY <1>2, <2>1, <3>1, <3>2
    <2>2. CASE i = Len(f) + 1
        <3>1. PICK k \in 1..Len(f) : f[k].kind = "authorized" /\ f[k].of = g[i].of
            BY <1>2, <1>5, <1>7, <1>10, <2>2 DEF MayRecord
        <3>2. k \in 1..(i - 1)
            BY <1>3, <2>2
        <3> QED BY <1>2, <3>1, <3>2
    <2> QED BY <1>4, <2>1, <2>2
<1> QED BY <1>9, <1>10 DEF AuthorityInv, g

LEMMA AuthorityAppendKeeps ==
    ASSUME StoreInv, NEW e \in Control, NEW x \in {e, Torn}, Appends(Authority, e, x), MayRecord(e),
           found' = found, head' = head, acked' = acked, phase' = phase, names' = names, held' = held,
           phase # "down", cut' \subseteq Journals, task' \in TaskTypes, phase # "up" => task' = Idle,
           TaskInv', \A s \in Sessions : NamesInv(s)'
    PROVE  StoreInv'
<1> DEFINE f == file[Authority]
           g == file'[Authority]
           v == DebitAfter(debit, e)
<1>1. /\ Authority \in Journals /\ e \in Plain \cup Control /\ Authority \notin Sessions
      /\ Sessions \subseteq Journals /\ Authorized \subseteq Sessions
    BY AuthorityFacts
<1>2. AuthorityInv'
    BY AuthorityAppendedInv
<1>3. JournalInv(Authority)'
    BY <1>1, AppendsJournal
<1>4. /\ g \in Seq(Frames) /\ Len(g) = Len(f) + 1 /\ g[Len(f) + 1] = x /\ g[Len(g)] = x
      /\ \A i \in 1..Len(f) : g[i] = f[i]
    BY <1>1, AppendsFile
<1>5. f \in Seq(Frames) /\ e # Torn
    BY <1>1, JournalFacts, FrameTypes
<1>6. ~poisoned /\ v <= Headroom /\ debit' = v /\ (~poisoned' => x = e)
    BY DEF Appends, MayAppend, Debited
<1>7. debit \in Nat /\ v \in Nat
    <2>1. debit \in Nat
        BY DEF StoreInv, Types
    <2>2. e.kind = "completed" => e.of \in Sessions
        BY <1>1 DEF MayRecord
    <2> QED BY <1>1, <2>1, <2>2, DebitTypes
<1>8. PICK d : Debits(d, f) /\ debit = d[Len(f)]
    BY <1>6 DEF StoreInv, ProcessInv
<1> HIDE DEF g, f, v
<1>9. \E c : Debits(c, g) /\ c[Len(g)] = v
    <2>1. g[Len(g)] # Torn => v = DebitAfter(d[Len(f)], g[Len(g)]) /\ v <= Headroom
        BY <1>4, <1>6, <1>8 DEF v
    <2> QED BY <1>4, <1>5, <1>7, <1>8, <2>1, DebitsLonger
<1>10. /\ file' \in [Journals -> Seq(Frames)] /\ writing' \subseteq Journals /\ poisoned' \in {poisoned, TRUE}
       /\ \A k \in Journals : k # Authority => file'[k] = file[k] /\ (k \in writing' <=> k \in writing)
    BY <1>1, AppendsElsewhere
<1>11. \A s \in Sessions : file'[s] = file[s] /\ (s \in writing' <=> s \in writing)
    BY <1>1, <1>10
<1>12. /\ found \in [Journals -> Nat] /\ head \in [Journals -> Int] /\ acked \in [Journals -> Seq(Frames)]
       /\ phase \in {"opening", "up"} /\ head[Authority] >= 0
    BY DEF StoreInv, Types, ProcessInv
<1>13. \E c : Debits(c, file'[Authority]) /\ (~poisoned' => debit' = c[Len(file'[Authority])])
    BY <1>6, <1>9 DEF g
<1> QED BY <1>2, <1>3, <1>6, <1>7, <1>10, <1>11, <1>12, <1>13, AuthorityStep

\* A session that the entry is not about.
LEMMA NamesUntouched ==
    ASSUME StoreInv, NEW e \in Control, NEW x \in {e, Torn}, Appends(Authority, e, x),
           found' = found, head' = head, acked' = acked, phase' = phase, names' = names, held' = held,
           NEW s \in Sessions,
           \/ x = Torn \/ e.kind \notin {"authorized", "completed"} \/ e.of # s
    PROVE  NamesInv(s)'
<1>1. s \in Authorized' <=> s \in Authorized
    BY AuthorityAppended, FrameTypes
<1>2. s \in Of(file'[Authority], "completed") <=> s \in Of(file[Authority], "completed")
    BY AuthorityAppended, FrameTypes
<1>3. Durable' = Durable
    BY AuthorityAppended
<1>4. file'[s] = file[s]
    <2>1. e \in Plain \cup Control /\ s \in Journals /\ Authority \in Journals /\ s # Authority
        BY AuthorityFacts
    <2> QED BY <2>1, AppendsElsewhere
<1>5. NamesInv(s)
    BY DEF StoreInv
<1> QED BY <1>1, <1>2, <1>3, <1>4, <1>5 DEF NamesInv

LEMMA NextControl ==
    ASSUME StoreInv
    PROVE  Len(file[Authority]) + 1 \in Nat
BY AuthorityFacts, JournalFacts

LEMMA RefuseNonceKeeps ==
    ASSUME StoreInv, RefuseNonce
    PROVE  StoreInv'
<1>1. /\ phase = "up" /\ task = Idle
      /\ UNCHANGED <<found, names, held, phase, head, cut, task, acked>>
    BY DEF RefuseNonce
<1>2. <<>> \in Seq(Plain)
    OBVIOUS
<1>3. PICK e \in Control : e = Entry(Authority, "refused", Authority, <<>>) /\ e.kind = "refused"
    <2>1. /\ Entry(Authority, "refused", Authority, <<>>) \in Control
          /\ Entry(Authority, "refused", Authority, <<>>).kind = "refused"
        BY <1>2, NextControl, AuthorityFacts DEF Entry, Control
    <2> QED BY <2>1
<1>4. PICK x \in {e, Torn} : Appends(Authority, e, x)
    BY <1>3 DEF RefuseNonce, AppendWrite, AppendWhole, AppendPart, MayAppend, Debited, Appends
<1>5. \A s \in Sessions : NamesInv(s)'
    BY <1>1, <1>3, <1>4, NamesUntouched
<1>6. MayRecord(e)
    BY <1>3 DEF MayRecord
<1>7. TaskInv'
    BY <1>1 DEF TaskInv, Idle, GcSteps
<1>8. cut \subseteq Journals
    BY DEF StoreInv, Types
<1> QED BY <1>1, <1>4, <1>5, <1>6, <1>7, <1>8, AuthorityAppendKeeps DEF TaskTypes

LEMMA RecordRepairKeeps ==
    ASSUME StoreInv, NEW j \in Journals, RecordRepair(j)
    PROVE  StoreInv'
<1>1. /\ phase = "opening" /\ cut' = cut \ {j}
      /\ UNCHANGED <<found, names, held, phase, head, task, acked>>
    BY DEF RecordRepair
<1>2. <<>> \in Seq(Plain)
    OBVIOUS
<1>3. PICK e \in Control : e = Entry(Authority, "repaired", j, <<>>) /\ e.kind = "repaired"
    <2>1. /\ Entry(Authority, "repaired", j, <<>>) \in Control
          /\ Entry(Authority, "repaired", j, <<>>).kind = "repaired"
        BY <1>2, NextControl DEF Entry, Control
    <2> QED BY <2>1
<1>4. PICK x \in {e, Torn} : Appends(Authority, e, x)
    BY <1>3 DEF RecordRepair, AppendWrite, AppendWhole, AppendPart, MayAppend, Debited, Appends
<1>5. \A s \in Sessions : NamesInv(s)'
    BY <1>1, <1>3, <1>4, NamesUntouched
<1>6. MayRecord(e)
    BY <1>3 DEF MayRecord
<1>7. task = Idle
    BY <1>1 DEF StoreInv, ProcessInv
<1>8. TaskInv'
    BY <1>1, <1>7 DEF TaskInv, Idle, GcSteps
<1>9. cut' \subseteq Journals
    BY <1>1 DEF StoreInv, Types
<1> QED BY <1>1, <1>4, <1>5, <1>6, <1>7, <1>8, <1>9, AuthorityAppendKeeps DEF TaskTypes

LEMMA GcCompleteKeeps ==
    ASSUME StoreInv, NEW s \in Sessions, GcComplete(s)
    PROVE  StoreInv'
<1>1. /\ task = [at |-> "complete", of |-> s] /\ task' = Idle
      /\ UNCHANGED <<found, names, held, phase, head, cut, acked>>
    BY DEF GcComplete
<1>2. "complete" \in GcSteps /\ <<>> \in Seq(Plain) /\ s \in Journals
    BY AuthorityFacts DEF GcSteps
<1>3. s \in Authorized /\ s \in Durable /\ phase = "up" /\ names[s] = Gone /\ held[s] = Gone
    BY <1>1, <1>2, CollectionUnderway DEF CollectingTask
<1>4. PICK e \in Control : e = Entry(Authority, "completed", s, <<>>) /\ e.kind = "completed" /\ e.of = s
    <2>1. /\ Entry(Authority, "completed", s, <<>>) \in Control
          /\ Entry(Authority, "completed", s, <<>>).kind = "completed"
          /\ Entry(Authority, "completed", s, <<>>).of = s
        BY <1>2, NextControl DEF Entry, Control
    <2> QED BY <2>1
<1>5. PICK x \in {e, Torn} : Appends(Authority, e, x)
    BY <1>4 DEF GcComplete, AppendWrite, AppendWhole, AppendPart, MayAppend, Debited, Appends
<1>6. NamesInv(s)'
    <2>1. s \in Authorized' /\ s \in Durable'
        BY <1>1, <1>3, <1>5, AuthorityAppended
    <2>2. <<names'[s], held'[s]>> \in Collecting /\ names'[s] = Gone /\ held'[s] = Gone
        BY <1>1, <1>3 DEF Collecting
    <2>3. "live" \notin Gone
        BY DEF Gone
    <2> QED BY <2>1, <2>2, <2>3 DEF NamesInv
<1>7. \A t \in Sessions : NamesInv(t)'
    BY <1>1, <1>4, <1>5, <1>6, NamesUntouched
<1>8. MayRecord(e)
    BY <1>3, <1>4 DEF MayRecord
<1>9. TaskInv'
    BY <1>1 DEF TaskInv, Idle, GcSteps
<1>10. cut \subseteq Journals
    BY DEF StoreInv, Types
<1> QED BY <1>1, <1>3, <1>5, <1>7, <1>8, <1>9, <1>10, AuthorityAppendKeeps DEF TaskTypes

LEMMA GcAuthorizeKeeps ==
    ASSUME StoreInv, NEW s \in Sessions, GcAuthorize(s)
    PROVE  StoreInv'
<1>1. /\ phase = "up" /\ task = Idle /\ writing = {} /\ PendingGc(file[Authority]) = {}
      /\ "dir" \in names[s] /\ head[s] = Len(file[s]) /\ file[s] # <<>> /\ Last(file[s]).kind = "closed"
      /\ UNCHANGED <<found, names, held, phase, head, cut, task, acked>>
    BY DEF GcAuthorize
<1>2. s \in Journals /\ Authority \in Journals
    BY AuthorityFacts
<1>3. NamesInv(s)
    BY DEF StoreInv
<1>4. s \notin Authorized
    <2>1. s \in Authorized => s \in Of(file[Authority], "completed")
        BY <1>1 DEF PendingGc, Authorized
    <2>2. "dir" \notin Gone
        BY DEF Gone
    <2> QED BY <1>1, <1>3, <2>1, <2>2 DEF NamesInv
<1>5. Len(file[s]) \in Nat /\ file[s] \in Seq(Frames) /\ Whole(file[s])
    BY <1>2, JournalFacts
<1>6. names[s] = Installed /\ held[s] = Installed
    <2>1. head[s] >= 0
        BY <1>1, <1>5
    <2> QED BY <1>1, <1>3, <1>4, <2>1 DEF NamesInv
<1>7. Final(file[s], found[s])
    <2>1. found[s] = Len(file[s])
        BY <1>1, <1>2, <1>5, Registered
    <2> QED BY <1>1, <2>1 DEF Final
<1>8. file[s] \in Seq(Plain)
    <2>1. ~IsTorn(file[s])
        BY <1>5, <1>7, FinalMeaning
    <2>2. \A i \in 1..Len(file[s]) : file[s][i] # Torn
        BY <1>5, <2>1, EntriesMeaning
    <2>3. file[s] \in Seq({Torn} \cup Plain)
        BY DEF StoreInv, Types
    <2>4. \A i \in 1..Len(file[s]) : file[s][i] \in Plain
        BY <2>2, <2>3, LenProperties
    <2>5. file[s] \in [1..Len(file[s]) -> Plain]
        <3>1. file[s] \in [1..Len(file[s]) -> {Torn} \cup Plain]
            BY <2>3, LenProperties
        <3> QED BY <2>4, <3>1
    <2> QED BY <1>5, <2>5, SeqDef
<1>9. PICK e \in Control : /\ e = Entry(Authority, "authorized", s, file[s]) /\ e.kind = "authorized"
                           /\ e.of = s /\ e.kept = file[s]
    <2>1. /\ Entry(Authority, "authorized", s, file[s]) \in Control
          /\ Entry(Authority, "authorized", s, file[s]).kind = "authorized"
          /\ Entry(Authority, "authorized", s, file[s]).of = s
          /\ Entry(Authority, "authorized", s, file[s]).kept = file[s]
        BY <1>2, <1>8, NextControl DEF Entry, Control
    <2> QED BY <2>1
<1>10. PICK x \in {e, Torn} : Appends(Authority, e, x)
    BY <1>9 DEF GcAuthorize, AppendWrite, AppendWhole, AppendPart, MayAppend, Debited, Appends
<1>11. NamesInv(s)'
    <2>1. CASE x = Torn
        BY <1>1, <1>10, <2>1, NamesUntouched
    <2>2. CASE x = e
        <3>1. s \in Authorized' /\ s \notin Of(file'[Authority], "completed")
            <4>1. s \notin Of(file[Authority], "completed")
                BY <1>4, AuthorityFacts
            <4> QED BY <1>1, <1>9, <1>10, <2>2, <4>1, AuthorityAppended
        <3>2. <<names'[s], held'[s]>> \in Collecting /\ names'[s] = Installed /\ held'[s] = Installed
            BY <1>1, <1>6 DEF Collecting
        <3>3. file'[s] = file[s]
            <4>1. e \in Plain \cup Control /\ s # Authority
                BY AuthorityFacts
            <4> QED BY <1>2, <1>10, <4>1, AppendsElsewhere
        <3>4. found[s] >= 1 /\ file[s][1] # Torn
            BY <1>3, <1>6 DEF NamesInv, Installed
        <3> QED BY <1>1, <3>1, <3>2, <3>3, <3>4 DEF NamesInv
    <2> QED BY <2>1, <2>2
<1>12. \A t \in Sessions : NamesInv(t)'
    BY <1>1, <1>9, <1>10, <1>11, NamesUntouched
<1>13. MayRecord(e)
    BY <1>1, <1>4, <1>7, <1>9 DEF MayRecord
<1>14. TaskInv'
    BY <1>1 DEF TaskInv, Idle, GcSteps
<1>15. cut \subseteq Journals
    BY DEF StoreInv, Types
<1> QED BY <1>1, <1>10, <1>12, <1>13, <1>14, <1>15, AuthorityAppendKeeps DEF TaskTypes

-----------------------------------------------------------------------------
(***************************************************************************)
(* Opening.                                                                *)
(***************************************************************************)

\* The journal that opening it leaves.
LEMMA OpenedJournal ==
    ASSUME StoreInv, NEW j \in Journals, OpenJournal(j), phase' = "opening", ~poisoned, j \notin writing
    PROVE  /\ JournalInv(j)' /\ file'[j] = Entries(file[j]) /\ file' \in [Journals -> Seq(Frames)]
           /\ found' \in [Journals -> Nat] /\ head' \in [Journals -> Int] /\ cut' \subseteq Journals
           /\ \A k \in Journals : k # j => file'[k] = file[k] /\ found'[k] = found[k] /\ head'[k] = head[k]
           /\ head'[j] >= 0
           /\ found'[j] = IF IsTorn(file[j]) THEN Len(Entries(file[j])) ELSE found[j]
<1> DEFINE f == file[j]
           g == Entries(f)
<1>1. /\ f \in Seq(Frames) /\ Len(f) \in Nat /\ found[j] \in 0..Len(f) /\ Whole(f) /\ JournalInv(j)
      /\ Len(acked[j]) \in Nat
    BY JournalFacts
<1>2. /\ g \in Seq(Frames) /\ Len(g) \in Nat /\ Whole(g) /\ ~IsTorn(g)
      /\ ~IsTorn(f) => g = f
      /\ \A i \in 1..Len(g) : g[i] = f[i] /\ f[i] # Torn
      /\ \A i \in 1..Len(f) : f[i] # Torn => i <= Len(g)
    BY <1>1, EntriesMeaning
<1>3. /\ file \in [Journals -> Seq(Frames)] /\ found \in [Journals -> Nat] /\ head \in [Journals -> Int]
    BY DEF StoreInv, Types
<1> HIDE DEF g
<1>4. /\ file' = [file EXCEPT ![j] = g] /\ head' = [head EXCEPT ![j] = Len(g)]
      /\ found' = [found EXCEPT ![j] = IF IsTorn(f) THEN Len(g) ELSE @]
      /\ cut' = (IF IsTorn(f) THEN {j} ELSE {}) /\ UNCHANGED <<names, held, poisoned, writing, task, acked>>
    BY <1>3 DEF OpenJournal, g
<1>5. /\ file'[j] = g /\ file' \in [Journals -> Seq(Frames)] /\ head'[j] = Len(g)
      /\ found'[j] = (IF IsTorn(f) THEN Len(g) ELSE found[j])
      /\ found' \in [Journals -> Nat] /\ head' \in [Journals -> Int] /\ cut' \subseteq Journals
      /\ \A k \in Journals : k # j => file'[k] = file[k] /\ found'[k] = found[k] /\ head'[k] = head[k]
    BY <1>2, <1>3, <1>4
<1>6. Keeps(acked[j], f, found[j])
    BY <1>1 DEF JournalInv
<1>7. \A i \in 1..Len(acked[j]) : i \in 1..Len(g)
    <2>1. \A i \in 1..Len(acked[j]) : f[i] # Torn /\ i \in 1..Len(f)
        BY <1>1, <1>6 DEF Keeps
    <2> QED BY <1>1, <1>2, <2>1
<1>8. Len(acked[j]) <= Len(g)
    <2>1. Len(acked[j]) = 0 \/ Len(acked[j]) \in 1..Len(acked[j])
        BY <1>1
    <2> QED BY <1>1, <1>2, <1>7, <2>1
<1>9. Keeps(acked[j], g, found'[j])
    BY <1>2, <1>5, <1>6, <1>7, <1>8 DEF Keeps
<1>10. found'[j] <= Len(g)
    BY <1>1, <1>2, <1>5
<1>11. HeadInv(g, Len(g), j \in writing', poisoned')
    BY <1>2, <1>4 DEF HeadInv
<1>12. JournalInv(j)'
    BY <1>2, <1>4, <1>5, <1>9, <1>10, <1>11 DEF JournalInv
<1> QED BY <1>2, <1>5, <1>12 DEF g

LEMMA OpenSessionKeeps ==
    ASSUME StoreInv, NEW s \in Sessions, OpenSession(s)
    PROVE  StoreInv'
<1>1. /\ phase = "opening" /\ writing = {} /\ ~poisoned /\ "live" \in names[s] /\ OpenJournal(s)
      /\ debit' = debit /\ phase' = phase
    BY DEF OpenSession, Opening
<1>2. UNCHANGED <<names, held, poisoned, writing, task, acked>>
    BY <1>1 DEF OpenJournal
<1>3. s \in Journals /\ Authority \in Journals /\ s # Authority
    BY AuthorityFacts
<1>4. /\ JournalInv(s)' /\ file'[s] = Entries(file[s]) /\ file' \in [Journals -> Seq(Frames)]
      /\ found' \in [Journals -> Nat] /\ head' \in [Journals -> Int] /\ cut' \subseteq Journals
      /\ found'[s] = IF IsTorn(file[s]) THEN Len(Entries(file[s])) ELSE found[s]
    BY <1>1, <1>3, OpenedJournal
<1>5. \A k \in Journals : k # s => file'[k] = file[k] /\ found'[k] = found[k] /\ head'[k] = head[k]
    BY <1>1, <1>3, OpenedJournal
<1>6. /\ file[s] \in Seq(Frames) /\ Whole(file[s]) /\ Len(file[s]) \in Nat /\ found[s] \in 0..Len(file[s])
    BY <1>3, JournalFacts
<1>7. s \in Authorized => file'[s] = file[s] /\ found'[s] = found[s]
    <2>1. s \in Authorized => ~IsTorn(file[s])
        BY <1>6, AuthorityFacts, FinalMeaning
    <2> QED BY <1>4, <2>1 DEF Entries
<1>8. file'[s] \in Seq({Torn} \cup Plain)
    <2>1. file[s] \in Seq({Torn} \cup Plain)
        BY DEF StoreInv, Types
    <2>2. CASE ~IsTorn(file[s])
        BY <1>4, <2>1, <2>2 DEF Entries
    <2>3. CASE IsTorn(file[s])
        <3>1. file'[s] = SubSeq(file[s], 1, Len(file[s]) - 1)
            BY <1>4, <2>3 DEF Entries, Front
        <3>2. \A i \in 1..(Len(file[s]) - 1) : file[s][i] \in {Torn} \cup Plain
            BY <1>6, <2>1, LenProperties
        <3>3. Len(file[s]) - 1 \in Int
            BY <1>6
        <3> QED BY <2>1, <3>1, <3>2, <3>3, SubSeqProperties
    <2> QED BY <2>2, <2>3
<1>9. /\ Authorized' = Authorized /\ Durable' = Durable
      /\ Of(file'[Authority], "completed") = Of(file[Authority], "completed")
    BY <1>3, <1>5, SameJournals
<1>10. NamesInv(s)'
    <2>1. NamesInv(s) /\ found[s] >= 1 /\ file[s][1] # Torn
        BY <1>1 DEF StoreInv, NamesInv
    <2>2. s \notin Authorized => names[s] = Installed
        BY <1>1, <2>1 DEF NamesInv, Open
    <2>3. found'[s] >= 1 /\ file'[s][1] # Torn
        <3>1. 1 \in 1..Len(file[s])
            BY <1>6, <2>1
        <3>2. 1 \in 1..Len(Entries(file[s])) /\ Len(Entries(file[s])) \in Nat
            BY <1>6, <2>1, <3>1, EntriesMeaning
        <3>3. Entries(file[s])[1] # Torn
            BY <1>6, <3>2, EntriesMeaning
        <3> QED BY <1>4, <2>1, <3>2, <3>3
    <2> QED BY <1>1, <1>2, <1>9, <2>1, <2>2, <2>3 DEF NamesInv
<1>11. task = Idle
    BY <1>1 DEF StoreInv, ProcessInv
<1>12. TaskInv' /\ task' \in TaskTypes
    BY <1>2, <1>11 DEF TaskInv, Idle, GcSteps, TaskTypes
<1>13. writing \subseteq Journals /\ acked \in [Journals -> Seq(Frames)]
    BY DEF StoreInv, Types
<1> QED BY <1>1, <1>2, <1>4, <1>5, <1>7, <1>8, <1>10, <1>11, <1>12, <1>13, NameTypes, SessionStep

\* Cutting a torn frame takes no record.
LEMMA OpenedAuthority ==
    ASSUME NEW f \in Seq(Frames), Whole(f), NEW kind \in {"authorized", "completed"}
    PROVE  Of(Entries(f), kind) = Of(f, kind)
<1> DEFINE g == Entries(f)
<1>1. /\ g \in Seq(Frames) /\ Len(g) \in Nat /\ Len(f) \in Nat
      /\ \A i \in 1..Len(g) : g[i] = f[i] /\ i \in 1..Len(f)
      /\ \A i \in 1..Len(f) : f[i] # Torn => i \in 1..Len(g)
    <2>1. /\ g \in Seq(Frames) /\ Len(g) \in Nat /\ Len(f) \in Nat
          /\ \A i \in 1..Len(g) : g[i] = f[i]
          /\ \A i \in 1..Len(f) : f[i] # Torn => i <= Len(g)
          /\ IsTorn(f) => Len(f) = Len(g) + 1
          /\ ~IsTorn(f) => g = f
        BY EntriesMeaning
    <2> HIDE DEF g
    <2> QED BY <2>1
<1> HIDE DEF g
<1>2. Torn.kind = "torn"
    BY DEF Torn
<1>3. \A s : s \in Of(g, kind) <=> \E i \in 1..Len(g) : g[i].kind = kind /\ g[i].of = s
    BY <1>1, OfMeaning
<1>4. \A s : s \in Of(f, kind) <=> \E i \in 1..Len(f) : f[i].kind = kind /\ f[i].of = s
    BY <1>1, OfMeaning
<1>5. \A s : s \in Of(g, kind) <=> s \in Of(f, kind)
    BY <1>1, <1>2, <1>3, <1>4
<1> QED BY <1>5 DEF g

LEMMA OpenAuthorityKeeps ==
    ASSUME StoreInv, OpenAuthority
    PROVE  StoreInv'
<1> DEFINE f == file[Authority]
           g == file'[Authority]
<1>1. /\ phase = "down" /\ OpenJournal(Authority) /\ phase' = "opening" /\ debit' = DebitOf(Entries(f))
    BY DEF OpenAuthority
<1>2. UNCHANGED <<names, held, poisoned, writing, task, acked>>
    BY <1>1 DEF OpenJournal
<1>3. ~poisoned /\ writing = {} /\ task = Idle
    BY <1>1 DEF StoreInv, ProcessInv
<1>4. Authority \in Journals /\ Sessions \subseteq Journals /\ Authority \notin Sessions
    BY AuthorityFacts
<1>5. /\ JournalInv(Authority)' /\ g = Entries(f) /\ file' \in [Journals -> Seq(Frames)]
      /\ found' \in [Journals -> Nat] /\ head' \in [Journals -> Int] /\ cut' \subseteq Journals
      /\ head'[Authority] >= 0
      /\ found'[Authority] = IF IsTorn(f) THEN Len(Entries(f)) ELSE found[Authority]
    BY <1>1, <1>3, <1>4, OpenedJournal
<1>6. \A s \in Sessions : file'[s] = file[s] /\ found'[s] = found[s] /\ head'[s] = head[s]
    BY <1>1, <1>3, <1>4, OpenedJournal
<1>7. f \in Seq(Frames) /\ Whole(f) /\ found[Authority] \in 0..Len(f)
    BY <1>4, JournalFacts
<1>8. Authorized' = Authorized /\ Of(g, "completed") = Of(f, "completed")
    BY <1>5, <1>7, OpenedAuthority DEF Authorized, Retired
<1>9. /\ g \in Seq(Frames) /\ Len(g) \in Nat /\ Len(f) \in Nat /\ Whole(g) /\ ~IsTorn(g)
      /\ \A i \in 1..Len(g) : g[i] = f[i] /\ i \in 1..Len(f)
      /\ \A i \in 1..Len(f) : f[i] # Torn => i \in 1..Len(g)
      /\ Len(g) <= Len(f)
    <2>1. /\ g \in Seq(Frames) /\ Len(g) \in Nat /\ Len(f) \in Nat /\ Whole(g) /\ ~IsTorn(g)
          /\ \A i \in 1..Len(g) : g[i] = f[i]
          /\ \A i \in 1..Len(f) : f[i] # Torn => i <= Len(g)
          /\ IsTorn(f) => Len(f) = Len(g) + 1
          /\ ~IsTorn(f) => g = f
        BY <1>5, <1>7, EntriesMeaning
    <2> HIDE DEF g, f
    <2>2. Len(g) <= Len(f)
        BY <2>1
    <2> QED BY <2>1, <2>2
<1>10. \E c : Debits(c, g) /\ debit' = c[Len(g)]
    <2>1. PICK d : Debits(d, f)
        BY DEF StoreInv, ProcessInv
    <2>2. debit' = DebitOf(g)
        BY <1>1, <1>5
    <2> HIDE DEF g, f
    <2>3. Len(g) \in 0..Len(f) /\ \A i \in 1..Len(g) : ~(i > Len(g))
        BY <1>9
    <2>4. PICK c : Debits(c, g)
        BY <1>7, <1>9, <2>1, <2>3, DebitsShorter
    <2>5. DebitOf(g) = c[Len(g)]
        BY <1>9, <2>4, DebitMeaning
    <2> QED BY <2>2, <2>4, <2>5
<1> HIDE DEF f, g
<1>11. AuthorityInv'
    <2>1. /\ \A i \in 1..Len(f) : f[i].kind = "authorized" =>
                /\ f[i].of \in Sessions \ writing /\ f[i].kept = file[f[i].of]
                /\ Final(file[f[i].of], found[f[i].of])
                /\ \A k \in 1..Len(f) : f[k].kind = "authorized" /\ f[k].of = f[i].of => k = i
          /\ \A i \in 1..Len(f) : f[i].kind = "completed" =>
                \E k \in 1..(i - 1) : f[k].kind = "authorized" /\ f[k].of = f[i].of
        BY DEF StoreInv, AuthorityInv, f
    <2>2. ASSUME NEW i \in 1..Len(g), g[i].kind = "authorized"
          PROVE  /\ g[i].of \in Sessions \ writing' /\ g[i].kept = file'[g[i].of]
                 /\ Final(file'[g[i].of], found'[g[i].of])
                 /\ \A k \in 1..Len(g) : g[k].kind = "authorized" /\ g[k].of = g[i].of => k = i
        BY <1>2, <1>6, <1>9, <2>1, <2>2
    <2>3. ASSUME NEW i \in 1..Len(g), g[i].kind = "completed"
          PROVE  \E k \in 1..(i - 1) : g[k].kind = "authorized" /\ g[k].of = g[i].of
        <3>1. PICK k \in 1..(i - 1) : f[k].kind = "authorized" /\ f[k].of = f[i].of
            BY <1>9, <2>1, <2>3
        <3>2. k \in 1..Len(g)
            BY <1>9
        <3> QED BY <1>9, <3>1, <3>2
    <2> QED BY <2>2, <2>3 DEF AuthorityInv, g
<1>12. Durable \subseteq Durable'
    <2> SUFFICES ASSUME NEW s \in Durable PROVE s \in Durable'
        OBVIOUS
    <2>1. PICK i \in 1..found[Authority] : f[i].kind = "authorized" /\ f[i].of = s
        BY DEF Durable, f
    <2>2. i \in 1..Len(g) /\ g[i] = f[i]
        <3>1. Torn.kind = "torn"
            BY DEF Torn
        <3> QED BY <1>7, <1>9, <2>1, <3>1
    <2>3. i \in 1..found'[Authority]
        BY <1>5, <1>7, <1>9, <2>2
    <2> QED BY <2>1, <2>2, <2>3 DEF Durable, g
<1>13. ASSUME NEW s \in Sessions PROVE NamesInv(s)'
    <2>1. NamesInv(s)
        BY DEF StoreInv
    <2> QED BY <1>1, <1>2, <1>6, <1>8, <1>12, <2>1 DEF NamesInv, f, g
<1>14. TaskInv' /\ task' \in TaskTypes
    BY <1>2, <1>3 DEF TaskInv, Idle, GcSteps, TaskTypes
<1>15. writing \subseteq Journals /\ acked \in [Journals -> Seq(Frames)]
    BY DEF StoreInv, Types
<1>16. debit' \in Nat
    <2>1. PICK c : Debits(c, g) /\ debit' = c[Len(g)]
        BY <1>10
    <2> QED BY <1>9, <2>1 DEF Debits
<1> QED BY <1>1, <1>2, <1>3, <1>5, <1>6, <1>10, <1>11, <1>13, <1>14, <1>15, <1>16, AuthorityStep DEF g

LEMMA OpenDoneKeeps ==
    ASSUME StoreInv, OpenDone
    PROVE  StoreInv'
<1>1. /\ phase = "opening" /\ writing = {} /\ ~poisoned /\ phase' = "up"
      /\ found' = [j \in Journals |-> Len(file[j])] /\ held' = names
      /\ UNCHANGED <<file, names, poisoned, head, debit, writing, cut, task, acked>>
    BY DEF OpenDone, Opening
<1>2. task = Idle /\ head[Authority] >= 0
    BY <1>1 DEF StoreInv, ProcessInv
<1>3. \A j \in Journals : found'[j] = Len(file[j]) /\ Len(file[j]) \in Nat
    BY <1>1, JournalFacts
<1>4. Types'
    <2>1. found' \in [Journals -> Nat]
        BY <1>1, <1>3
    <2> QED BY <1>1, <2>1 DEF StoreInv, Types
<1>5. ASSUME NEW j \in Journals PROVE JournalInv(j)'
    <2>1. JournalInv(j) /\ Len(file[j]) \in Nat /\ found[j] \in 0..Len(file[j]) /\ Len(acked[j]) \in Nat
        BY JournalFacts
    <2>2. Keeps(acked[j], file[j], Len(file[j]))
        BY <2>1 DEF JournalInv, Keeps
    <2>3. head[j] <= Len(file[j])
        BY <2>1 DEF JournalInv, HeadInv
    <2> QED BY <1>1, <1>3, <2>1, <2>2, <2>3 DEF JournalInv
<1>6. AuthorityInv'
    <2> DEFINE A == file[Authority]
    <2>1. ASSUME NEW i \in 1..Len(A), A[i].kind = "authorized"
          PROVE  /\ A[i].of \in Sessions \ writing' /\ A[i].kept = file[A[i].of]
                 /\ Final(file[A[i].of], found'[A[i].of])
                 /\ \A k \in 1..Len(A) : A[k].kind = "authorized" /\ A[k].of = A[i].of => k = i
        <3>1. /\ A[i].of \in Sessions \ writing /\ A[i].kept = file[A[i].of]
              /\ Final(file[A[i].of], found[A[i].of])
              /\ \A k \in 1..Len(A) : A[k].kind = "authorized" /\ A[k].of = A[i].of => k = i
            BY <2>1 DEF StoreInv, AuthorityInv
        <3>2. found'[A[i].of] = Len(file[A[i].of])
            BY <1>3, <3>1, AuthorityFacts
        <3> QED BY <1>1, <3>1, <3>2 DEF Final
    <2>2. ASSUME NEW i \in 1..Len(A), A[i].kind = "completed"
          PROVE  \E k \in 1..(i - 1) : A[k].kind = "authorized" /\ A[k].of = A[i].of
        BY <2>2 DEF StoreInv, AuthorityInv
    <2> QED BY <1>1, <2>1, <2>2 DEF AuthorityInv
<1>7. Authorized' = Authorized /\ Of(file'[Authority], "completed") = Of(file[Authority], "completed")
    BY <1>1 DEF Authorized, Retired, Of
<1>8. Durable' = Authorized
    BY <1>1, <1>3, AuthorityFacts DEF Durable
<1>9. ASSUME NEW s \in Sessions PROVE NamesInv(s)'
    <2>1. NamesInv(s) /\ s \in Journals
        BY AuthorityFacts DEF StoreInv
    <2>2. s \notin Authorized =>
             /\ <<names[s], names[s]>> \in Open
             /\ head[s] >= 0 => names[s] = Installed
             /\ acked[s] # <<>> => names[s] = Installed
        <3>1. Installed # {}
            BY DEF Installed
        <3> QED BY <2>1, <3>1 DEF NamesInv, Open
    <2>3. s \in Authorized => <<names[s], names[s]>> \in Collecting
        BY CollectedNames DEF Collecting
    <2>4. "live" \in names[s] => Len(file[s]) >= 1 /\ file[s][1] # Torn
        <3>1. Len(file[s]) \in Nat /\ found[s] \in 0..Len(file[s])
            BY <2>1, JournalFacts
        <3>2. "live" \in names[s] => found[s] >= 1 /\ file[s][1] # Torn
            BY <2>1 DEF NamesInv
        <3> QED BY <3>1, <3>2
    <2>5. s \in Of(file[Authority], "completed") => names[s] = Gone
        BY <2>1 DEF NamesInv
    <2> QED BY <1>1, <1>3, <1>7, <1>8, <2>1, <2>2, <2>3, <2>4, <2>5 DEF NamesInv
<1>10. TaskInv'
    BY <1>1, <1>2 DEF TaskInv, Idle, GcSteps
<1>11. ProcessInv'
    <2>1. \E d : /\ Debits(d, file'[Authority])
                 /\ phase' # "down" /\ ~poisoned' => debit' = d[Len(file'[Authority])]
        BY <1>1 DEF StoreInv, ProcessInv
    <2> QED BY <1>1, <1>2, <2>1 DEF ProcessInv
<1> QED BY <1>4, <1>5, <1>6, <1>9, <1>10, <1>11 DEF StoreInv

-----------------------------------------------------------------------------
(***************************************************************************)
(* Faults.                                                                 *)
(***************************************************************************)

LEMMA ExitKeeps ==
    ASSUME StoreInv, Exit
    PROVE  StoreInv'
<1>1. /\ phase' = "down" /\ poisoned' = FALSE /\ head' = Unregistered
      /\ debit' = 0 /\ writing' = {} /\ cut' = {} /\ task' = Idle
      /\ UNCHANGED <<file, found, names, held, acked>>
    BY DEF Exit, Down
<1>2. head' \in [Journals -> Int] /\ \A j \in Journals : head'[j] = -1
    <2>1. -1 \in Int
        OBVIOUS
    <2> QED BY <1>1, <2>1 DEF Unregistered
<1>3. Types'
    BY <1>1, <1>2 DEF StoreInv, Types
<1>4. ASSUME NEW j \in Journals PROVE JournalInv(j)'
    <2>1. JournalInv(j) /\ Len(file[j]) \in Nat
        BY JournalFacts
    <2>2. HeadInv(file[j], -1, FALSE, FALSE)
        BY <2>1 DEF HeadInv
    <2>3. HeadInv(file[j], head'[j], j \in writing', poisoned')
        BY <1>1, <1>2, <2>2 DEF HeadInv
    <2> QED BY <1>1, <2>1, <2>3 DEF JournalInv
<1>5. AuthorityInv'
    BY <1>1 DEF StoreInv, AuthorityInv
<1>6. /\ Authorized' = Authorized /\ Durable' = Durable
      /\ Of(file'[Authority], "completed") = Of(file[Authority], "completed")
    BY <1>1, SameJournals
<1>7. ASSUME NEW s \in Sessions PROVE NamesInv(s)'
    <2>1. NamesInv(s) /\ ~(head'[s] >= 0)
        BY <1>2, AuthorityFacts DEF StoreInv
    <2> QED BY <1>1, <1>6, <2>1 DEF NamesInv
<1>8. TaskInv'
    BY <1>1 DEF TaskInv, Idle, GcSteps
<1>9. ProcessInv'
    <2>1. \E d : Debits(d, file'[Authority])
        BY <1>1 DEF StoreInv, ProcessInv
    <2> QED BY <1>1, <2>1 DEF ProcessInv, Unregistered
<1> QED BY <1>3, <1>4, <1>5, <1>7, <1>8, <1>9 DEF StoreInv

\* What a power loss leaves of the names of a session.
LEMMA NamesLeftMeaning ==
    ASSUME NEW s \in Sessions, NEW X \in NamesLeft(s, held[s])
    PROVE  /\ <<names[s], held[s]>> \in Open => X \in {{}, Installed}
           /\ held[s] = Installed /\ names[s] = Installed => X = Installed
           /\ held[s] = Gone /\ names[s] = Gone => X = Gone
           /\ <<names[s], held[s]>> \in Collecting => X \in {Installed, Both, Moved, Gone}
           /\ "live" \in X => "live" \in names[s] \cup held[s]
<1>1. ASSUME NEW n, NEW d, X \subseteq n \cup d, n \cap d \subseteq X,
             "live" \in X => "dir" \in X,
             "dir" \in X => {"live", "archive"} \cap X # {},
             {"live", "archive"} \cap d # {} => {"live", "archive"} \cap X # {}
      PROVE  /\ n = {} /\ d = {} => X = {}
             /\ n = Installed /\ d = {} => X \in {{}, Installed}
             /\ n = Installed /\ d = Installed => X = Installed
             /\ n = Both /\ d = Both => X = Both
             /\ n = Moved /\ d = Installed => X \in {Installed, Both, Moved}
             /\ n = Moved /\ d = Both => X \in {Both, Moved}
             /\ n = Moved /\ d = Moved => X = Moved
             /\ n = Gone /\ d = Moved => X \in {Moved, Gone}
             /\ n = Gone /\ d = Gone => X = Gone
             /\ "live" \in X => "live" \in n \cup d
    <2>1. n = {} /\ d = {} => X = {}
        BY <1>1
    <2>2. n = Installed /\ d = {} => X \in {{}, Installed}
        BY <1>1 DEF Installed
    <2>3. n = Installed /\ d = Installed => X = Installed
        BY <1>1
    <2>4. n = Both /\ d = Both => X = Both
        BY <1>1
    <2>5. n = Moved /\ d = Installed => X \in {Installed, Both, Moved}
        BY <1>1 DEF Moved, Installed, Both
    <2>6. n = Moved /\ d = Both => X \in {Both, Moved}
        BY <1>1 DEF Moved, Both
    <2>7. n = Moved /\ d = Moved => X = Moved
        BY <1>1
    <2>8. n = Gone /\ d = Moved => X \in {Moved, Gone}
        BY <1>1 DEF Moved, Gone
    <2>9. n = Gone /\ d = Gone => X = Gone
        BY <1>1
    <2> QED BY <1>1, <2>1, <2>2, <2>3, <2>4, <2>5, <2>6, <2>7, <2>8, <2>9
<1>2. /\ X \subseteq names[s] \cup held[s] /\ names[s] \cap held[s] \subseteq X
      /\ "live" \in X => "dir" \in X
      /\ "dir" \in X => {"live", "archive"} \cap X # {}
      /\ {"live", "archive"} \cap held[s] # {} => {"live", "archive"} \cap X # {}
    BY DEF NamesLeft
<1>3. \A n, d : n = names[s] /\ d = held[s] =>
             /\ n = {} /\ d = {} => X = {}
             /\ n = Installed /\ d = {} => X \in {{}, Installed}
             /\ n = Installed /\ d = Installed => X = Installed
             /\ n = Both /\ d = Both => X = Both
             /\ n = Moved /\ d = Installed => X \in {Installed, Both, Moved}
             /\ n = Moved /\ d = Both => X \in {Both, Moved}
             /\ n = Moved /\ d = Moved => X = Moved
             /\ n = Gone /\ d = Moved => X \in {Moved, Gone}
             /\ n = Gone /\ d = Gone => X = Gone
             /\ "live" \in X => "live" \in n \cup d
    BY <1>1, <1>2
<1> QED BY <1>3 DEF Open, Collecting

\* What a power loss leaves of the journals: at least what was synchronized.
LEMMA FilesLeftMeaning ==
    ASSUME StoreInv, NEW j \in Journals, file'[j] \in FilesLeft(file[j], found[j])
    PROVE  \E n \in found[j]..Len(file[j]) :
              /\ file'[j] \in Seq(Frames) /\ Whole(file'[j]) /\ Len(file'[j]) \in Nat /\ n <= Len(file'[j])
              /\ \A i \in 1..n : file'[j][i] = file[j][i]
              /\ \A i \in 1..Len(file'[j]) : i > n => file'[j][i] = Torn
              /\ found[j] = Len(file[j]) => file'[j] = file[j]
              /\ file'[j] \in {SubSeq(file[j], 1, n), Append(SubSeq(file[j], 1, n), Torn)}
<1>1. PICK f, g, k : f = file[j] /\ g = file'[j] /\ k = found[j]
    OBVIOUS
<1>2. f \in Seq(Frames) /\ Whole(f) /\ Len(f) \in Nat /\ k \in 0..Len(f)
    BY <1>1, JournalFacts
<1>3. g \in FilesLeft(f, k)
    BY <1>1
<1>4. PICK n \in k..Len(f) : \/ g = SubSeq(f, 1, n)
                             \/ n < Len(f) /\ g = Append(SubSeq(f, 1, n), Torn)
    <2>1. \A n \in k..(Len(f) - 1) : n \in k..Len(f) /\ n < Len(f)
        BY <1>2
    <2>2. \/ \E n \in k..Len(f) : g = SubSeq(f, 1, n)
          \/ \E n \in k..(Len(f) - 1) : g = Append(SubSeq(f, 1, n), Torn)
        BY ONLY <1>3 DEF FilesLeft
    <2> QED BY <2>1, <2>2
<1>5. n \in 0..Len(f)
    BY <1>2
<1>6. /\ g \in Seq(Frames) /\ Whole(g) /\ Len(g) \in Nat /\ n <= Len(g)
      /\ \A i \in 1..n : g[i] = f[i]
      /\ \A i \in 1..Len(g) : i > n => g[i] = Torn
    BY ONLY <1>2, <1>4, <1>5, Shortened
<1>7. k = Len(f) => g = f
    <2> SUFFICES ASSUME k = Len(f) PROVE g = f
        OBVIOUS
    <2>1. n = Len(f) /\ ~(n < Len(f))
        BY <1>2
    <2>2. g = SubSeq(f, 1, Len(f)) /\ \A i \in 1..Len(f) : f[i] \in Frames
        BY <1>2, <1>4, <2>1, LenProperties
    <2>3. Len(g) = (IF 1 <= Len(f) THEN Len(f) - 1 + 1 ELSE 0)
        BY <1>2, <2>2, SubSeqProperties
    <2>4. Len(g) = Len(f)
        BY <1>2, <2>3
    <2> QED BY <1>2, <1>6, <2>1, <2>4, SeqEqual
<1> QED BY <1>1, <1>4, <1>6, <1>7

\* The records a power loss leaves.
LEMMA RecordsLeft ==
    ASSUME StoreInv, found' = [j \in Journals |-> Len(file'[j])],
           \A j \in Journals : file'[j] \in FilesLeft(file[j], found[j])
    PROVE  /\ Authorized' \subseteq Authorized /\ Durable \subseteq Authorized' /\ Durable' = Authorized'
           /\ Of(file'[Authority], "completed") \subseteq Of(file[Authority], "completed")
<1> DEFINE f == file[Authority]
           g == file'[Authority]
<1>1. Authority \in Journals
    BY AuthorityFacts
<1>2. PICK n \in found[Authority]..Len(f) :
         /\ g \in Seq(Frames) /\ Len(g) \in Nat /\ n <= Len(g)
         /\ \A i \in 1..n : g[i] = f[i]
         /\ \A i \in 1..Len(g) : i > n => g[i] = Torn
    BY <1>1, FilesLeftMeaning
<1>3. Len(f) \in Nat /\ found[Authority] \in 0..Len(f) /\ f \in Seq(Frames)
    BY <1>1, JournalFacts
<1>4. found'[Authority] = Len(g)
    BY <1>1
<1>5. Torn.kind = "torn"
    BY DEF Torn
<1> HIDE DEF f, g
<1>6. \A i \in 1..Len(g) : g[i].kind # "torn" => i \in 1..n /\ i \in 1..Len(f) /\ g[i] = f[i]
    BY <1>2, <1>3, <1>5
<1>7. ASSUME NEW kind \in {"authorized", "completed"} PROVE Of(g, kind) \subseteq Of(f, kind)
    <2> SUFFICES ASSUME NEW s \in Of(g, kind) PROVE s \in Of(f, kind)
        OBVIOUS
    <2>1. PICK i \in 1..Len(g) : g[i].kind = kind /\ g[i].of = s
        BY <1>2, OfMeaning
    <2>2. i \in 1..Len(f) /\ g[i] = f[i]
        BY <1>6, <2>1
    <2>3. \E k \in 1..Len(f) : f[k].kind = kind /\ f[k].of = s
        BY <2>1, <2>2
    <2> QED BY <1>3, <2>3, OfMeaning
<1>8. ASSUME NEW s \in Durable PROVE s \in Of(g, "authorized")
    <2>1. PICK i \in 1..found[Authority] : f[i].kind = "authorized" /\ f[i].of = s
        BY DEF Durable, f
    <2>2. i \in 1..Len(g) /\ g[i] = f[i]
        BY <1>2, <1>3
    <2>3. \E k \in 1..Len(g) : g[k].kind = "authorized" /\ g[k].of = s
        BY <2>1, <2>2
    <2> QED BY <1>2, <2>3, OfMeaning
<1>9. Durable' = Of(g, "authorized")
    <2>1. \A s : s \in Of(g, "authorized") <=> \E k \in 1..Len(g) : g[k].kind = "authorized" /\ g[k].of = s
        BY <1>2, OfMeaning
    <2>2. Durable' = {s \in Sessions : \E i \in 1..Len(g) : g[i].kind = "authorized" /\ g[i].of = s}
        BY <1>4 DEF Durable, g
    <2>3. Of(g, "authorized") \subseteq Sessions
        BY <1>7, AuthorityFacts DEF Authorized, Retired, f
    <2> QED BY <2>1, <2>2, <2>3
<1> QED BY <1>7, <1>8, <1>9 DEF Authorized, Retired, f, g

LEMMA PowerLossKeeps ==
    ASSUME StoreInv, PowerLoss, ~betrayed'
    PROVE  StoreInv'
<1>1. /\ phase' = "down" /\ poisoned' = FALSE /\ head' = Unregistered
      /\ debit' = 0 /\ writing' = {} /\ cut' = {} /\ task' = Idle
      /\ held' = names' /\ acked' = acked
      /\ names' \in [Sessions -> SUBSET {"dir", "live", "archive"}]
      /\ \A j \in Journals : file'[j] \in FilesLeft(file[j], found[j])
      /\ \A s \in Sessions : names'[s] \in NamesLeft(s, held[s])
    <2>1. /\ \A j \in Journals : file'[j] \in FilesLeft(file[j], found[j])
          /\ \A s \in Sessions : names'[s] \in NamesLeft(s, held[s])
        BY Zenon DEF PowerLoss
    <2>2. /\ phase' = "down" /\ poisoned' = FALSE /\ head' = Unregistered
          /\ debit' = 0 /\ writing' = {} /\ cut' = {} /\ task' = Idle
        BY Zenon DEF PowerLoss, Down
    <2>3. /\ held' = names' /\ acked' = acked
          /\ names' \in [Sessions -> SUBSET {"dir", "live", "archive"}]
        BY Zenon DEF PowerLoss
    <2> QED BY <2>1, <2>2, <2>3
<1>2. head' \in [Journals -> Int] /\ \A j \in Journals : head'[j] = -1
    <2>1. -1 \in Int
        OBVIOUS
    <2> QED BY <1>1, <2>1 DEF Unregistered
<1>3. found' = [j \in Journals |-> Len(file'[j])]
    BY DEF PowerLoss
<1>4. DOMAIN file' = Journals /\ file' = [j \in Journals |-> file'[j]]
    BY DEF PowerLoss
<1>5. \A j \in Journals : file'[j] \in Seq(Frames) /\ Len(file'[j]) \in Nat /\ found'[j] = Len(file'[j])
    BY <1>1, <1>3, FilesLeftMeaning
<1>6. Types'
    <2>1. file' \in [Journals -> Seq(Frames)]
        BY <1>4, <1>5
    <2>2. found' \in [Journals -> Nat]
        BY <1>3, <1>5
    <2>3. ASSUME NEW s \in Sessions PROVE file'[s] \in Seq({Torn} \cup Plain)
        <3>1. s \in Journals
            BY AuthorityFacts
        <3>2. PICK n \in found[s]..Len(file[s]) :
                 file'[s] \in {SubSeq(file[s], 1, n), Append(SubSeq(file[s], 1, n), Torn)}
            BY <1>1, <3>1, FilesLeftMeaning
        <3>3. file[s] \in Seq({Torn} \cup Plain) /\ Len(file[s]) \in Nat /\ found[s] \in 0..Len(file[s])
            BY <3>1, JournalFacts DEF StoreInv, Types
        <3>4. n \in Int /\ \A i \in 1..n : i \in 1..Len(file[s])
            BY <3>3
        <3>5. \A i \in 1..n : file[s][i] \in {Torn} \cup Plain
            BY <3>3, <3>4, LenProperties
        <3>6. SubSeq(file[s], 1, n) \in Seq({Torn} \cup Plain)
            BY <3>3, <3>4, <3>5, SubSeqProperties
        <3>7. Append(SubSeq(file[s], 1, n), Torn) \in Seq({Torn} \cup Plain)
            BY <3>6, AppendProperties
        <3> QED BY <3>2, <3>3, <3>6, <3>7
    <2>4. acked \in [Journals -> Seq(Frames)]
        BY DEF StoreInv, Types
    <2> QED BY <1>1, <1>2, <2>1, <2>2, <2>3, <2>4 DEF Types
<1>7. ASSUME NEW j \in Journals PROVE JournalInv(j)'
    <2>1. PICK n \in found[j]..Len(file[j]) :
             /\ Whole(file'[j]) /\ Len(file'[j]) \in Nat /\ n <= Len(file'[j])
             /\ \A i \in 1..n : file'[j][i] = file[j][i]
        BY <1>1, FilesLeftMeaning
    <2>2. JournalInv(j) /\ found[j] \in 0..Len(file[j]) /\ Len(acked[j]) \in Nat /\ Len(file[j]) \in Nat
        BY JournalFacts
    <2>3. Keeps(acked[j], file[j], found[j])
        BY <2>2 DEF JournalInv
    <2>4. Len(acked[j]) <= found[j] /\ \A i \in 1..Len(acked[j]) : i \in 1..n
        BY <2>2, <2>3 DEF Keeps
    <2>5. Keeps(acked[j], file'[j], Len(file'[j]))
        <3>1. Len(acked[j]) <= Len(file'[j])
            BY <2>1, <2>2, <2>4
        <3> QED BY <2>1, <2>3, <2>4, <3>1 DEF Keeps
    <2>6. HeadInv(file'[j], -1, FALSE, FALSE)
        BY <2>1 DEF HeadInv
    <2>7. HeadInv(file'[j], head'[j], j \in writing', poisoned')
        BY <1>1, <1>2, <2>6 DEF HeadInv
    <2> QED BY <1>1, <1>5, <2>1, <2>5, <2>7 DEF JournalInv
<1>8. /\ Authorized' \subseteq Authorized /\ Durable \subseteq Authorized' /\ Durable' = Authorized'
      /\ Of(file'[Authority], "completed") \subseteq Of(file[Authority], "completed")
    BY <1>1, <1>3, RecordsLeft
<1>9. AuthorityInv'
    <2> DEFINE f == file[Authority]
               g == file'[Authority]
    <2>1. Authority \in Journals /\ Sessions \subseteq Journals
        BY AuthorityFacts
    <2>2. PICK n \in found[Authority]..Len(f) :
             /\ Len(g) \in Nat /\ n <= Len(g) /\ \A i \in 1..n : g[i] = f[i]
             /\ \A i \in 1..Len(g) : i > n => g[i] = Torn
        BY <1>1, <2>1, FilesLeftMeaning
    <2>3. Len(f) \in Nat /\ found[Authority] \in 0..Len(f)
        BY <2>1, JournalFacts
    <2>4. Torn.kind = "torn"
        BY DEF Torn
    <2>5. /\ \A i \in 1..Len(f) : f[i].kind = "authorized" =>
                /\ f[i].of \in Sessions \ writing /\ f[i].kept = file[f[i].of]
                /\ Final(file[f[i].of], found[f[i].of])
                /\ \A k \in 1..Len(f) : f[k].kind = "authorized" /\ f[k].of = f[i].of => k = i
          /\ \A i \in 1..Len(f) : f[i].kind = "completed" =>
                \E k \in 1..(i - 1) : f[k].kind = "authorized" /\ f[k].of = f[i].of
        BY DEF StoreInv, AuthorityInv
    <2>6. ASSUME NEW s \in Sessions, Final(file[s], found[s])
          PROVE  file'[s] = file[s] /\ Final(file'[s], found'[s])
        <3>1. file'[s] = file[s]
            BY <1>1, <2>1, <2>6, FilesLeftMeaning DEF Final
        <3> QED BY <1>5, <2>1, <2>6, <3>1 DEF Final
    <2> HIDE DEF f, g
    <2>7. \A i \in 1..Len(g) : g[i].kind # "torn" => i \in 1..n /\ i \in 1..Len(f) /\ g[i] = f[i]
        BY <2>2, <2>3, <2>4
    <2>8. ASSUME NEW i \in 1..Len(g), g[i].kind = "authorized"
          PROVE  /\ g[i].of \in Sessions \ writing' /\ g[i].kept = file'[g[i].of]
                 /\ Final(file'[g[i].of], found'[g[i].of])
                 /\ \A k \in 1..Len(g) : g[k].kind = "authorized" /\ g[k].of = g[i].of => k = i
        <3>1. i \in 1..Len(f) /\ g[i] = f[i]
            BY <2>7, <2>8
        <3>2. /\ g[i].of \in Sessions /\ g[i].kept = file[g[i].of]
              /\ Final(file[g[i].of], found[g[i].of])
            BY <2>5, <2>8, <3>1
        <3>3. \A k \in 1..Len(g) : g[k].kind = "authorized" /\ g[k].of = g[i].of => k = i
            BY <2>5, <2>7, <2>8, <3>1
        <3> QED BY <1>1, <2>6, <3>2, <3>3
    <2>9. ASSUME NEW i \in 1..Len(g), g[i].kind = "completed"
          PROVE  \E k \in 1..(i - 1) : g[k].kind = "authorized" /\ g[k].of = g[i].of
        <3>1. i \in 1..n /\ i \in 1..Len(f) /\ g[i] = f[i]
            BY <2>7, <2>9
        <3>2. PICK k \in 1..(i - 1) : f[k].kind = "authorized" /\ f[k].of = f[i].of
            BY <2>5, <2>9, <3>1
        <3>3. k \in 1..n
            BY <2>2, <2>3, <3>1
        <3> QED BY <2>2, <3>1, <3>2, <3>3
    <2> QED BY <2>8, <2>9 DEF AuthorityInv, g
<1>10. ASSUME NEW s \in Sessions PROVE NamesInv(s)'
    <2>1. NamesInv(s) /\ s \in Journals
        BY AuthorityFacts DEF StoreInv
    <2> DEFINE X == names'[s]
    <2>2. /\ <<names[s], held[s]>> \in Open => X \in {{}, Installed}
          /\ held[s] = Installed /\ names[s] = Installed => X = Installed
          /\ held[s] = Gone /\ names[s] = Gone => X = Gone
          /\ <<names[s], held[s]>> \in Collecting => X \in {Installed, Both, Moved, Gone}
          /\ "live" \in X => "live" \in names[s] \cup held[s]
        BY <1>1, NamesLeftMeaning
    <2> HIDE DEF X
    <2>3. s \notin Authorized' => <<X, X>> \in Open /\ (acked[s] # <<>> => X = Installed)
        <3>1. CASE s \in Authorized
            <4>1. s \notin Authorized' => X = Installed
                BY <1>8, <2>1, <2>2, <3>1 DEF NamesInv
            <4> QED BY <4>1 DEF Open
        <3>2. CASE s \notin Authorized
            <4>1. Installed # {}
                BY DEF Installed
            <4>2. <<names[s], held[s]>> \in Open /\ (acked[s] # <<>> => held[s] = Installed)
                BY <2>1, <3>2 DEF NamesInv
            <4>3. acked[s] # <<>> => names[s] = Installed /\ held[s] = Installed
                BY <4>1, <4>2 DEF Open
            <4> QED BY <2>2, <4>2, <4>3 DEF Open
        <3> QED BY <3>1, <3>2
    <2>4. s \in Authorized' => <<X, X>> \in Collecting
        BY <1>8, <2>1, <2>2 DEF NamesInv, Collecting
    <2>5. s \in Of(file'[Authority], "completed") => X = Gone
        BY <1>8, <2>1, <2>2 DEF NamesInv
    <2>6. "live" \in X => found'[s] >= 1 /\ file'[s][1] # Torn
        <3> SUFFICES ASSUME "live" \in X PROVE found'[s] >= 1 /\ file'[s][1] # Torn
            OBVIOUS
        <3>1. found[s] >= 1 /\ file[s][1] # Torn
            BY <2>1, <2>2 DEF NamesInv
        <3>2. PICK n \in found[s]..Len(file[s]) :
                 Len(file'[s]) \in Nat /\ n <= Len(file'[s]) /\ \A i \in 1..n : file'[s][i] = file[s][i]
            BY <1>1, <2>1, FilesLeftMeaning
        <3>3. found[s] \in Int
            BY <2>1, JournalFacts
        <3>4. 1 \in 1..n /\ Len(file'[s]) >= 1
            BY <3>1, <3>2, <3>3
        <3> QED BY <1>5, <2>1, <3>1, <3>2, <3>4
    <2>7. ~(head'[s] >= 0)
        BY <1>2, <2>1
    <2> QED BY <1>1, <1>8, <2>3, <2>4, <2>5, <2>6, <2>7 DEF NamesInv, X
<1>11. TaskInv'
    BY <1>1 DEF TaskInv, Idle, GcSteps
<1>12. ProcessInv'
    <2>1. Authority \in Journals
        BY AuthorityFacts
    <2>2. PICK d : Debits(d, file[Authority])
        BY DEF StoreInv, ProcessInv
    <2>3. file[Authority] \in Seq(Frames) /\ Len(file[Authority]) \in Nat /\ found[Authority] \in 0..Len(file[Authority])
        BY <2>1, JournalFacts
    <2>4. PICK n \in found[Authority]..Len(file[Authority]) :
             /\ file'[Authority] \in Seq(Frames) /\ n <= Len(file'[Authority])
             /\ \A i \in 1..n : file'[Authority][i] = file[Authority][i]
             /\ \A i \in 1..Len(file'[Authority]) : i > n => file'[Authority][i] = Torn
        BY <1>1, <2>1, FilesLeftMeaning
    <2>5. n \in 0..Len(file[Authority])
        BY <2>3
    <2>6. \E c : Debits(c, file'[Authority])
        BY <2>2, <2>3, <2>4, <2>5, DebitsShorter
    <2> QED BY <1>1, <2>6 DEF ProcessInv
<1> QED BY <1>6, <1>7, <1>9, <1>10, <1>11, <1>12 DEF StoreInv

-----------------------------------------------------------------------------
(***************************************************************************)
(* The invariant and what follows from it.                                 *)
(***************************************************************************)

LEMMA StoreInit ==
    ASSUME Init
    PROVE  StoreInv
<1> USE DEF Init
<1>1. Authority \in Journals /\ Sessions \subseteq Journals /\ Authority \notin Sessions
    BY StoreAssumption DEF Journals
<1>2. /\ \A j \in Journals : file[j] = <<>> /\ found[j] = 0 /\ head[j] = -1 /\ acked[j] = <<>>
      /\ \A s \in Sessions : names[s] = {} /\ held[s] = {}
    BY DEF Unregistered
<1>3. Types
    <2>1. -1 \in Int /\ <<>> \in Seq(Frames) /\ <<>> \in Seq({Torn} \cup Plain)
        OBVIOUS
    <2> QED BY <1>1, <1>2, <2>1 DEF Types, Unregistered
<1>4. ASSUME NEW j \in Journals PROVE JournalInv(j)
    <2>1. Len(file[j]) = 0 /\ Len(acked[j]) = 0 /\ j \notin writing
        BY <1>2
    <2>2. \A i \in 1..0 : FALSE
        OBVIOUS
    <2>3. Whole(file[j]) /\ Keeps(acked[j], file[j], found[j])
        BY <1>2, <2>1, <2>2 DEF Whole, Keeps
    <2>4. HeadInv(file[j], head[j], j \in writing, poisoned)
        BY <1>2, <2>1 DEF HeadInv
    <2> QED BY <1>2, <2>1, <2>3, <2>4 DEF JournalInv
<1>5. Len(file[Authority]) = 0 /\ \A i \in 1..0 : FALSE
    BY <1>1, <1>2
<1>6. AuthorityInv
    BY <1>5 DEF AuthorityInv
<1>7. ProcessInv
    <2>1. Debits([i \in 0..0 |-> 0], file[Authority])
        BY <1>5 DEF Debits
    <2> QED BY <2>1 DEF ProcessInv
<1>8. TaskInv
    BY DEF TaskInv, Idle, GcSteps
<1>9. Authorized = {} /\ Of(file[Authority], "completed") = {}
    <2>1. file[Authority] \in Seq(Frames)
        BY <1>1, <1>3 DEF Types
    <2>2. \A kind, s : s \notin Of(file[Authority], kind)
        <3>1. DOMAIN file[Authority] = {}
            BY <1>5, <2>1, LenProperties
        <3> QED BY <3>1 DEF Of
    <2> QED BY <2>2 DEF Authorized, Retired
<1>10. ASSUME NEW s \in Sessions PROVE NamesInv(s)
    <2>1. <<names[s], held[s]>> \in Open /\ acked[s] = <<>> /\ ~(head[s] >= 0) /\ "live" \notin names[s] \cup held[s]
        BY <1>1, <1>2 DEF Open
    <2> QED BY <1>9, <2>1 DEF NamesInv
<1> QED BY <1>3, <1>4, <1>6, <1>7, <1>8, <1>10 DEF StoreInv

LEMMA StoreStep ==
    ASSUME StoreInv, [Next]_vars, ~betrayed'
    PROVE  StoreInv'
<1>1. CASE UNCHANGED vars
    <2>1. UNCHANGED <<file, found, names, held, phase, poisoned, head, debit, writing, cut, task, acked>>
        BY <1>1 DEF vars, process, history
    <2>2. \A s \in Sessions : NamesInv(s)'
        BY <2>1, NamesKept
    <2>3. TaskInv'
        BY <2>1, SameJournals DEF StoreInv, TaskInv
    <2>4. cut \subseteq Journals /\ task \in TaskTypes /\ (phase # "up" => task = Idle)
        BY DEF StoreInv, Types, TaskTypes, ProcessInv
    <2> QED BY <2>1, <2>2, <2>3, <2>4, NameTypes, Frame DEF Both, TaskTypes
<1>2. CASE OpenAuthority \/ OpenDone \/ RefuseNonce
    BY <1>2, OpenAuthorityKeeps, OpenDoneKeeps, RefuseNonceKeeps
<1>3. ASSUME NEW j \in Journals, RecordRepair(j) \/ AppendSync(j) \/ AppendSyncFails(j)
      PROVE  StoreInv'
    <2>1. j \in Sessions \/ j = Authority
        BY DEF Journals
    <2> QED BY <1>3, <2>1, RecordRepairKeeps, AppendSyncSessionKeeps, AppendSyncAuthorityKeeps, AppendSyncFailsKeeps
<1>4. ASSUME NEW s \in Sessions,
             \/ OpenSession(s)
             \/ \E kind \in {"work", "closed"} : AppendEntry(s, kind)
             \/ InstallRename(s) \/ InstallFinish(s) \/ InstallFails(s)
      PROVE  StoreInv'
    BY <1>4, OpenSessionKeeps, AppendEntryKeeps, InstallRenameKeeps, InstallFinishKeeps, InstallFailsKeeps
<1>5. ASSUME NEW s \in Sessions,
             \/ GcAuthorize(s) \/ GcRetain(s) \/ GcSyncArchive(s) \/ GcSyncSource(s)
             \/ GcRemove(s) \/ GcSyncRemoval(s) \/ GcComplete(s)
      PROVE  StoreInv'
    BY <1>5, GcAuthorizeKeeps, GcRetainKeeps, GcSyncArchiveKeeps, GcSyncSourceKeeps, GcRemoveKeeps,
       GcSyncRemovalKeeps, GcCompleteKeeps
<1>6. CASE GcFails \/ Exit \/ PowerLoss
    BY <1>6, GcFailsKeeps, ExitKeeps, PowerLossKeeps
<1> QED BY <1>1, <1>2, <1>3, <1>4, <1>5, <1>6 DEF Next

\* A step of the store says nothing about a power loss of before.
LEMMA BetrayedStep ==
    ASSUME [Next]_vars, betrayed \in BOOLEAN
    PROVE  betrayed' \in BOOLEAN /\ (betrayed => betrayed')
<1>1. CASE UNCHANGED vars
    BY <1>1 DEF vars, history
<1>2. CASE PowerLoss
    BY <1>2 DEF PowerLoss
<1>3. CASE ~PowerLoss /\ Next
    <2>1. betrayed' = betrayed
        BY <1>3 DEF Next, OpenAuthority, OpenJournal, OpenDone, RefuseNonce, RecordRepair, AppendSync,
                    AppendSyncFails, OpenSession, AppendEntry, InstallRename, InstallFinish, InstallFails,
                    GcAuthorize, GcRetain, GcSyncArchive, GcSyncSource, GcRemove, GcSyncRemoval, GcComplete,
                    GcFails, Exit
    <2> QED BY <2>1
<1> QED BY <1>1, <1>2, <1>3

\* The invariant holds of the store, of its journals, of the names of its sessions and of
\* every part of both that a power loss leaves, until a power loss takes what the last open
\* had found and nothing had synchronized.
THEOREM HostedStoreInvariant == Spec => [](betrayed \/ StoreInv)
<1> DEFINE IInv == betrayed \in BOOLEAN /\ (betrayed \/ StoreInv)
<1>1. Init => IInv
    <2>1. Init => betrayed \in BOOLEAN
        BY DEF Init
    <2> QED BY <2>1, StoreInit
<1>2. IInv /\ [Next]_vars => IInv'
    <2> SUFFICES ASSUME IInv, [Next]_vars PROVE IInv'
        OBVIOUS
    <2>1. betrayed' \in BOOLEAN /\ (betrayed => betrayed')
        BY BetrayedStep
    <2>2. CASE betrayed'
        BY <2>1, <2>2
    <2>3. CASE ~betrayed'
        BY <2>1, <2>3, StoreStep
    <2> QED BY <2>2, <2>3
<1>3. IInv => betrayed \/ StoreInv
    OBVIOUS
<1> QED BY <1>1, <1>2, <1>3, PTL DEF Spec

-----------------------------------------------------------------------------
(***************************************************************************)
(* A collection, whatever a power loss has taken before.  Its own barriers *)
(* settle the names of its session, in the order of its steps.             *)
(***************************************************************************)
Retiring ==
    /\ DOMAIN file = Journals /\ \E S : file[Authority] \in Seq(S)
    /\ DOMAIN synced = Journals /\ synced[Authority] \in Nat
    /\ names \in [Sessions -> SUBSET Both] /\ disk \in [Sessions -> SUBSET Both]

\* A completion follows its authorization, and its session has the archive only.
Recorded ==
    \A i \in 1..Len(file[Authority]) : file[Authority][i].kind = "completed" =>
       /\ file[Authority][i].of \in Sessions
       /\ names[file[Authority][i].of] = Gone /\ disk[file[Authority][i].of] = Gone
       /\ \E k \in 1..(i - 1) : /\ file[Authority][k].kind = "authorized"
                                /\ file[Authority][k].of = file[Authority][i].of

\* What each step of a collection has settled.
Underway ==
    /\ phase # "up" => task = Idle
    /\ task.at \in GcSteps => task.of \in Sessions /\ task.of \in Retired(file[Authority])
    /\ task.at = "archive" => "archive" \in names[task.of]
    /\ task.at \in {"source", "remove"} =>
          names[task.of] \in {Moved, Gone} /\ "archive" \in disk[task.of]
    /\ task.at = "removed" => names[task.of] = Gone /\ "archive" \in disk[task.of]
    /\ task.at = "complete" => names[task.of] = Gone /\ disk[task.of] = Gone

RetiredInv == Retiring /\ Recorded /\ Underway

LEMMA AnyOf ==
    ASSUME NEW S, NEW f \in Seq(S), NEW kind, NEW s
    PROVE  s \in Of(f, kind) <=> \E i \in 1..Len(f) : f[i].kind = kind /\ f[i].of = s
<1>1. DOMAIN f = 1..Len(f)
    BY LenProperties
<1> QED BY <1>1 DEF Of

\* The authority journal of a state the invariant holds of.
LEMMA Records ==
    ASSUME RetiredInv
    PROVE  /\ Authority \in Journals /\ Authority \notin Sessions /\ Sessions \subseteq Journals
           /\ Len(file[Authority]) \in Nat
           /\ \A s : s \in Retired(file[Authority]) <=>
                 \E i \in 1..Len(file[Authority]) :
                    file[Authority][i].kind = "authorized" /\ file[Authority][i].of = s
<1>1. PICK S : file[Authority] \in Seq(S)
    BY DEF RetiredInv, Retiring
<1>2. Len(file[Authority]) \in Nat
    BY <1>1, LenProperties
<1>3. \A s : s \in Retired(file[Authority]) <=>
         \E i \in 1..Len(file[Authority]) :
            file[Authority][i].kind = "authorized" /\ file[Authority][i].of = s
    BY <1>1, AnyOf DEF Retired
<1> QED BY <1>2, <1>3, StoreAssumption DEF Journals

\* A journal that grows or is cut keeps its completions in order.
LEMMA RecordedKept ==
    ASSUME RetiredInv,
           \A i \in 1..Len(file'[Authority]) : file'[Authority][i].kind = "completed" =>
              \/ i \in 1..Len(file[Authority]) /\ \A k \in 1..i : file'[Authority][k] = file[Authority][k]
              \/ /\ file'[Authority][i].of \in Sessions
                 /\ names'[file'[Authority][i].of] = Gone /\ disk'[file'[Authority][i].of] = Gone
                 /\ \E k \in 1..(i - 1) : /\ file'[Authority][k].kind = "authorized"
                                          /\ file'[Authority][k].of = file'[Authority][i].of,
           \A s \in Sessions : s \in Retired(file[Authority]) /\ names[s] = Gone /\ disk[s] = Gone =>
              names'[s] = Gone /\ disk'[s] = Gone,
           Len(file'[Authority]) \in Nat
    PROVE  Recorded'
<1> DEFINE f == file[Authority]
           g == file'[Authority]
<1>1. Len(f) \in Nat /\ Len(g) \in Nat
    BY Records
<1>2. ASSUME NEW i \in 1..Len(g), g[i].kind = "completed",
             i \in 1..Len(f), \A k \in 1..i : g[k] = f[k]
      PROVE  /\ g[i].of \in Sessions /\ names'[g[i].of] = Gone /\ disk'[g[i].of] = Gone
             /\ \E k \in 1..(i - 1) : g[k].kind = "authorized" /\ g[k].of = g[i].of
    <2>1. i \in 1..i /\ g[i] = f[i]
        BY <1>2
    <2>2. f[i].of \in Sessions /\ names[f[i].of] = Gone /\ disk[f[i].of] = Gone
        BY <1>2, <2>1 DEF RetiredInv, Recorded
    <2>3. PICK k \in 1..(i - 1) : f[k].kind = "authorized" /\ f[k].of = f[i].of
        BY <1>2, <2>1 DEF RetiredInv, Recorded
    <2>4. k \in 1..i /\ k \in 1..Len(f)
        BY <1>1, <1>2
    <2>5. f[i].of \in Retired(f)
        BY <2>3, <2>4, Records
    <2> QED BY <1>2, <2>1, <2>2, <2>3, <2>4, <2>5
<1> QED BY <1>2 DEF Recorded

\* Steps that leave the authority journal alone, and the names of the retired sessions.
LEMMA SameRecords ==
    ASSUME RetiredInv, file'[Authority] = file[Authority], Retiring',
           \A s \in Sessions : s \in Retired(file[Authority]) /\ names[s] = Gone /\ disk[s] = Gone =>
              names'[s] = Gone /\ disk'[s] = Gone
    PROVE  Recorded'
<1>1. Len(file[Authority]) \in Nat
    BY Records
<1> QED BY <1>1, RecordedKept

LEMMA TaskEnds ==
    ASSUME task' = Idle \/ (task'.at = "install" /\ phase' = "up")
    PROVE  Underway'
BY DEF Underway, Idle, GcSteps

\* Names and journals as the sessions directory's synchronization leaves them.
LEMMA SyncedRetired ==
    ASSUME RetiredInv
    PROVE  /\ SessionsSynced(disk) \in [Sessions -> SUBSET Both]
           /\ \A s \in Sessions : names[s] = Gone =>
                 /\ disk[s] = Gone => SessionsSynced(disk)[s] = Gone
                 /\ "archive" \in disk[s] => SessionsSynced(disk)[s] = Gone
<1>1. \A s \in Sessions : names[s] \subseteq Both /\ disk[s] \subseteq Both
    BY DEF RetiredInv, Retiring
<1>2. "dir" \notin Gone /\ Gone \ {"dir", "live"} = Gone
    BY DEF Gone
<1>3. \A s \in Sessions : "archive" \in disk[s] => disk[s] \ {"dir", "live"} = Gone
    BY <1>1 DEF Both, Gone
<1>4. SessionsSynced(disk) \in [Sessions -> SUBSET Both]
    BY <1>1 DEF SessionsSynced, Both
<1> QED BY <1>2, <1>3, <1>4 DEF SessionsSynced

LEMMA QuietRetired ==
    ASSUME RetiredInv,
           \/ OpenDone \/ GcFails \/ Exit \/ UNCHANGED vars
           \/ \E j \in Journals : AppendSync(j) \/ AppendSyncFails(j)
           \/ \E s \in Sessions : OpenSession(s) \/ InstallFails(s) \/ InstallFinish(s)
                                    \/ \E kind \in {"work", "closed"} : AppendEntry(s, kind)
    PROVE  RetiredInv'
<1>1. Authority \in Journals /\ Authority \notin Sessions /\ Sessions \subseteq Journals
      /\ Len(file[Authority]) \in Nat
    BY Records
<1>2. names' = names /\ disk' \in {disk, SessionsSynced(disk)}
    BY DEF OpenDone, GcFails, Exit, vars, AppendSync, AppendSyncFails, OpenSession, OpenJournal,
           InstallFails, InstallFinish, AppendEntry
<1>3. file'[Authority] = file[Authority] /\ DOMAIN file' = Journals
    <2>1. file' = file \/ \E s \in Sessions : \E x : file' = [file EXCEPT ![s] = x]
        BY DEF OpenDone, GcFails, Exit, vars, AppendSync, AppendSyncFails, OpenSession, OpenJournal,
               InstallFails, InstallFinish, AppendEntry, AppendWrite, AppendWhole, AppendPart
    <2> QED BY <1>1, <2>1 DEF RetiredInv, Retiring
<1>4. DOMAIN synced' = Journals /\ synced'[Authority] \in Nat
    <2>1. \/ synced' = synced \/ (\E s \in Sessions : \E x : synced' = [synced EXCEPT ![s] = x])
          \/ synced' = [synced EXCEPT ![Authority] = Len(file[Authority])]
        BY DEF OpenDone, GcFails, Exit, vars, AppendSync, AppendSyncFails, OpenSession, OpenJournal,
               InstallFails, InstallFinish, AppendEntry, Journals
    <2> QED BY <1>1, <2>1 DEF RetiredInv, Retiring
<1>5. Retiring'
    BY <1>2, <1>3, <1>4, SyncedRetired DEF RetiredInv, Retiring
<1>6. Recorded'
    <2>1. \A s \in Sessions : names[s] = Gone /\ disk[s] = Gone => names'[s] = Gone /\ disk'[s] = Gone
        BY <1>2, SyncedRetired
    <2> QED BY <1>3, <1>5, <2>1, SameRecords
<1>7. Underway'
    <2>1. (task' = task /\ disk' = disk /\ phase' \in {phase, "up"}) \/ task' = Idle
        BY DEF OpenDone, GcFails, Exit, Down, vars, process, AppendSync, AppendSyncFails, OpenSession,
               OpenJournal, InstallFails, InstallFinish, AppendEntry
    <2>2. CASE task' = task /\ disk' = disk /\ phase' \in {phase, "up"}
        BY <1>2, <1>3, <2>2 DEF RetiredInv, Underway
    <2> QED BY <2>1, <2>2, TaskEnds
<1> QED BY <1>5, <1>6, <1>7 DEF RetiredInv

LEMMA InstallRenameRetired ==
    ASSUME RetiredInv, NEW s \in Sessions, InstallRename(s)
    PROVE  RetiredInv'
<1>1. Authority \in Journals /\ Authority \notin Sessions /\ Sessions \subseteq Journals
    BY Records
<1>2. /\ s \notin Retired(file[Authority]) /\ disk' = disk /\ task'.at = "install" /\ phase' = "up"
      /\ names' = [names EXCEPT ![s] = @ \cup {"dir", "live"}]
    BY DEF InstallRename, MayInstall
<1>3. /\ file'[Authority] = file[Authority] /\ DOMAIN file' = Journals
      /\ synced'[Authority] = synced[Authority] /\ DOMAIN synced' = Journals
    BY <1>1 DEF InstallRename, RetiredInv, Retiring
<1>4. Retiring'
    BY <1>2, <1>3 DEF RetiredInv, Retiring, Both
<1>5. \A t \in Sessions : t \in Retired(file[Authority]) => names'[t] = names[t]
    BY <1>2 DEF RetiredInv, Retiring
<1> QED BY <1>2, <1>3, <1>4, <1>5, SameRecords, TaskEnds DEF RetiredInv

LEMMA CollectionRetired ==
    ASSUME RetiredInv, NEW s \in Sessions,
           GcRetain(s) \/ GcSyncArchive(s) \/ GcSyncSource(s) \/ GcRemove(s) \/ GcSyncRemoval(s)
    PROVE  RetiredInv'
<1>1. file' = file /\ synced' = synced
    BY DEF GcRetain, GcSyncArchive, GcSyncSource, GcRemove, GcSyncRemoval
<1>2. names \in [Sessions -> SUBSET Both] /\ disk \in [Sessions -> SUBSET Both]
    BY DEF RetiredInv, Retiring
<1>3. \A t \in Sessions :
         /\ names'[t] = IF t # s THEN names[t] ELSE names'[s]
         /\ names'[s] \subseteq Both /\ (names[s] = Gone => names'[s] = Gone)
    <2>1. /\ "archive" \in Gone /\ Gone \ {"live"} = Gone /\ Gone \ {"dir"} = Gone
          /\ "archive" \in Both
        BY DEF Gone, Both
    <2> QED BY <1>2, <2>1 DEF GcRetain, GcSyncArchive, GcSyncSource, GcRemove, GcSyncRemoval
<1>4. names' \in [Sessions -> SUBSET Both]
    BY <1>2, <1>3 DEF GcRetain, GcSyncArchive, GcSyncSource, GcRemove, GcSyncRemoval
<1>5. \/ disk' = disk \/ disk' = SessionsSynced(disk)
      \/ disk' = [disk EXCEPT ![s] = @ \cup {"archive"}] \/ disk' = [disk EXCEPT ![s] = @ \ {"live"}]
    BY DEF GcRetain, GcSyncArchive, GcSyncSource, SourceSynced, GcRemove, GcSyncRemoval
<1>6. /\ disk' \in [Sessions -> SUBSET Both]
      /\ \A t \in Sessions : names[t] = Gone /\ disk[t] = Gone => disk'[t] = Gone
    <2>1. "archive" \in Both /\ Gone \cup {"archive"} = Gone /\ Gone \ {"live"} = Gone
        BY DEF Both, Gone
    <2> QED BY <1>2, <1>5, <2>1, SyncedRetired
<1>7. Retiring'
    BY <1>1, <1>4, <1>6 DEF RetiredInv, Retiring
<1>8. Recorded'
    BY <1>1, <1>3, <1>6, <1>7, SameRecords
<1>9. Underway'
    <2>0. phase' = "up"
        BY DEF GcRetain, GcSyncArchive, GcSyncSource, GcRemove, GcSyncRemoval, RetiredInv, Underway, Idle
    <2>1. \A n \in SUBSET Both : "archive" \in n => n \ {"live"} \in {Moved, Gone}
        BY DEF Both, Moved, Gone
    <2>2. Moved \ {"dir"} = Gone /\ Gone \ {"dir"} = Gone
        BY DEF Moved, Gone
    <2>3. CASE GcRetain(s)
        <3>1. task' = [at |-> "archive", of |-> s] /\ "archive" \in names'[s] /\ s \in Retired(file[Authority])
            BY <1>2, <2>3 DEF GcRetain, PendingGc
        <3> QED BY <1>1, <2>0, <3>1 DEF Underway, GcSteps
    <2>4. CASE GcSyncArchive(s)
        <3>1. "archive" \in names[s] /\ s \in Retired(file[Authority])
            BY <2>4 DEF GcSyncArchive, RetiredInv, Underway, GcSteps
        <3>2. /\ task' = [at |-> "source", of |-> s] /\ names'[s] \in {Moved, Gone}
              /\ "archive" \in disk'[s]
            BY <1>2, <2>1, <2>4, <3>1 DEF GcSyncArchive
        <3> QED BY <1>1, <2>0, <3>1, <3>2 DEF Underway, GcSteps
    <2>5. CASE GcSyncSource(s)
        <3>1. names[s] \in {Moved, Gone} /\ "archive" \in disk[s] /\ s \in Retired(file[Authority])
            BY <2>5 DEF GcSyncSource, RetiredInv, Underway, GcSteps
        <3>2. "archive" \in disk'[s]
            <4>1. names[s] = Gone => SessionsSynced(disk)[s] = Gone
                BY <3>1, SyncedRetired
            <4>2. "archive" \in Gone /\ "dir" \in Moved
                BY DEF Gone, Moved
            <4> QED BY <1>2, <2>5, <3>1, <4>1, <4>2 DEF GcSyncSource, SourceSynced
        <3>3. task' = [at |-> "remove", of |-> s] /\ names' = names
            BY <2>5 DEF GcSyncSource
        <3> QED BY <1>1, <2>0, <3>1, <3>2, <3>3 DEF Underway, GcSteps
    <2>6. CASE GcRemove(s)
        <3>1. names[s] \in {Moved, Gone} /\ "archive" \in disk[s] /\ s \in Retired(file[Authority])
            BY <2>6 DEF GcRemove, RetiredInv, Underway, GcSteps
        <3>2. task' = [at |-> "removed", of |-> s] /\ names'[s] = Gone /\ disk' = disk
            BY <1>2, <2>2, <2>6, <3>1 DEF GcRemove
        <3> QED BY <1>1, <2>0, <3>1, <3>2 DEF Underway, GcSteps
    <2>7. CASE GcSyncRemoval(s)
        <3>1. names[s] = Gone /\ "archive" \in disk[s] /\ s \in Retired(file[Authority])
            BY <2>7 DEF GcSyncRemoval, RetiredInv, Underway, GcSteps
        <3>2. task' = [at |-> "complete", of |-> s] /\ names' = names /\ disk'[s] = Gone
            BY <2>7, <3>1, SyncedRetired DEF GcSyncRemoval
        <3> QED BY <1>1, <2>0, <3>1, <3>2 DEF Underway, GcSteps
    <2> QED BY <2>3, <2>4, <2>5, <2>6, <2>7
<1> QED BY <1>7, <1>8, <1>9 DEF RetiredInv

\* The authority journal gets one frame more.
LEMMA AuthorityRetired ==
    ASSUME RetiredInv, NEW e, AppendWrite(Authority, e), UNCHANGED <<synced, names, disk>>,
           e.kind = "completed" =>
              /\ e.of \in Sessions /\ names[e.of] = Gone /\ disk[e.of] = Gone
              /\ e.of \in Retired(file[Authority])
    PROVE  Retiring' /\ Recorded'
<1> DEFINE f == file[Authority]
           g == file'[Authority]
<1>1. Authority \in Journals /\ Len(f) \in Nat
    BY Records
<1>2. PICK x \in {e, Torn} : file' = [file EXCEPT ![Authority] = Append(@, x)]
    BY DEF AppendWrite, AppendWhole, AppendPart
<1>3. PICK S : f \in Seq(S)
    BY DEF RetiredInv, Retiring
<1>4. g = Append(f, x) /\ DOMAIN file' = Journals
    BY <1>1, <1>2 DEF RetiredInv, Retiring
<1>5. f \in Seq(S \cup {x}) /\ x \in S \cup {x}
    <2>1. \A i \in 1..Len(f) : f[i] \in S \cup {x}
        BY <1>3, LenProperties
    <2> QED BY <1>1, <1>3, <2>1, IsASeq, LenProperties
<1>6. /\ g \in Seq(S \cup {x}) /\ Len(g) = Len(f) + 1 /\ g[Len(f) + 1] = x
      /\ \A i \in 1..Len(f) : g[i] = f[i]
    BY <1>4, <1>5, AppendProperties
<1>7. Retiring'
    BY <1>4, <1>6 DEF RetiredInv, Retiring
<1> HIDE DEF g
<1>8. ASSUME NEW i \in 1..Len(g), g[i].kind = "completed"
      PROVE  \/ i \in 1..Len(f) /\ \A k \in 1..i : g[k] = f[k]
             \/ /\ g[i].of \in Sessions /\ names[g[i].of] = Gone /\ disk[g[i].of] = Gone
                /\ \E k \in 1..(i - 1) : g[k].kind = "authorized" /\ g[k].of = g[i].of
    <2>1. CASE i \in 1..Len(f)
        BY <1>1, <1>6, <2>1
    <2>2. CASE i = Len(f) + 1
        <3>1. g[i] = e
            BY <1>6, <1>8, <2>2 DEF Torn
        <3>2. PICK k \in 1..Len(f) : f[k].kind = "authorized" /\ f[k].of = e.of
            BY <1>8, <3>1, Records
        <3>3. k \in 1..(i - 1) /\ g[k] = f[k]
            BY <1>1, <1>6, <2>2
        <3> QED BY <1>8, <3>1, <3>2, <3>3
    <2>3. i \in 1..Len(f) \/ i = Len(f) + 1
        BY <1>1, <1>6
    <2> QED BY <2>1, <2>2, <2>3
<1>9. Recorded'
    BY <1>1, <1>6, <1>8, RecordedKept DEF g
<1> QED BY <1>7, <1>9

LEMMA AuthorityStepRetired ==
    ASSUME RetiredInv,
           \/ RefuseNonce \/ (\E j \in Journals : RecordRepair(j))
           \/ \E s \in Sessions : GcAuthorize(s) \/ GcComplete(s)
    PROVE  RetiredInv'
<1>1. CASE RefuseNonce \/ (\E j \in Journals : RecordRepair(j)) \/ (\E s \in Sessions : GcAuthorize(s))
    <2>1. PICK e : AppendWrite(Authority, e) /\ e.kind # "completed" /\ UNCHANGED <<synced, names, disk>>
        BY <1>1 DEF RefuseNonce, RecordRepair, GcAuthorize, Entry
    <2>2. Retiring' /\ Recorded'
        BY <2>1, AuthorityRetired
    <2>3. task = Idle /\ task' = task
        BY <1>1 DEF RefuseNonce, RecordRepair, GcAuthorize, RetiredInv, Underway
    <2>4. Underway'
        BY <2>3, TaskEnds
    <2> QED BY <2>2, <2>4 DEF RetiredInv
<1>2. ASSUME NEW s \in Sessions, GcComplete(s) PROVE RetiredInv'
    <2> DEFINE e == Entry(Authority, "completed", s, <<>>)
    <2>1. AppendWrite(Authority, e) /\ UNCHANGED <<synced, names, disk>> /\ task' = Idle
        BY <1>2 DEF GcComplete
    <2>2. e.of = s
        BY DEF Entry
    <2>3. names[s] = Gone /\ disk[s] = Gone /\ s \in Retired(file[Authority])
        BY <1>2 DEF GcComplete, RetiredInv, Underway, GcSteps
    <2> HIDE DEF e
    <2>4. Retiring' /\ Recorded'
        BY <2>1, <2>2, <2>3, AuthorityRetired
    <2> QED BY <2>1, <2>4, TaskEnds DEF RetiredInv
<1> QED BY <1>1, <1>2

\* Of a journal k frames are left, the next one perhaps torn.
LEMMA RecordsCut ==
    ASSUME NEW S, NEW f \in Seq(S), NEW k \in 0..Len(f), NEW g,
           g = SubSeq(f, 1, k) \/ g = Append(SubSeq(f, 1, k), Torn)
    PROVE  /\ \E R : g \in Seq(R)
           /\ Len(g) \in Nat
           /\ \A i \in 1..Len(g) : g[i].kind # "torn" =>
                 i \in 1..Len(f) /\ \A n \in 1..i : g[n] = f[n]
<1> DEFINE h == SubSeq(f, 1, k)
<1>1. Len(f) \in Nat /\ k \in Nat /\ \A i \in 1..k : f[i] \in S
    BY LenProperties
<1>2. h \in Seq(S) /\ Len(h) = k /\ \A i \in 1..k : h[i] = f[i]
    <2>1. /\ h \in Seq(S) /\ Len(h) = IF 1 <= k THEN k - 1 + 1 ELSE 0
          /\ \A i \in 1..(k - 1 + 1) : h[i] = f[1 + i - 1]
        BY <1>1, SubSeqProperties
    <2> HIDE DEF h
    <2> QED BY <1>1, <2>1
<1> HIDE DEF h
<1>3. CASE g = h
    BY <1>1, <1>2, <1>3
<1>4. CASE g = Append(h, Torn)
    <2>1. h \in Seq(S \cup {Torn})
        <3>1. \A i \in 1..Len(h) : h[i] \in S \cup {Torn}
            BY <1>2, LenProperties
        <3> QED BY <1>1, <1>2, <3>1, IsASeq, LenProperties
    <2>2. /\ g \in Seq(S \cup {Torn}) /\ Len(g) = k + 1 /\ g[k + 1] = Torn
          /\ \A i \in 1..k : g[i] = h[i]
        BY <1>2, <1>4, <2>1, AppendProperties
    <2>3. Torn.kind = "torn"
        BY DEF Torn
    <2>4. \A i \in 1..Len(g) : g[i].kind # "torn" => i \in 1..k
        BY <1>1, <2>2, <2>3
    <2> QED BY <1>1, <1>2, <2>2, <2>4
<1> QED BY <1>3, <1>4 DEF h

LEMMA CutRetired ==
    ASSUME RetiredInv, OpenAuthority \/ PowerLoss
    PROVE  RetiredInv'
<1> DEFINE f == file[Authority]
           g == file'[Authority]
<1>1. Authority \in Journals /\ Len(f) \in Nat
    BY Records
<1>2. PICK S : f \in Seq(S)
    BY DEF RetiredInv, Retiring
<1>3. PICK k \in 0..Len(f) : g = SubSeq(f, 1, k) \/ g = Append(SubSeq(f, 1, k), Torn)
    <2>1. CASE OpenAuthority
        <3>1. g = Entries(f)
            BY <1>1, <2>1 DEF OpenAuthority, OpenJournal, RetiredInv, Retiring
        <3>2. CASE IsTorn(f)
            <4>1. Len(f) # 0
                BY <1>2, <3>2, EmptySeq DEF IsTorn
            <4>2. Len(f) - 1 \in 0..Len(f)
                BY <1>1, <4>1
            <4> QED BY <3>1, <3>2, <4>2 DEF Entries, Front
        <3>3. CASE ~IsTorn(f)
            <4>1. g = f /\ Len(f) \in 0..Len(f) /\ \A i \in 1..Len(f) : f[i] \in S
                BY <1>1, <1>2, <3>1, <3>3, LenProperties DEF Entries
            <4>2. /\ SubSeq(f, 1, Len(f)) \in Seq(S)
                  /\ Len(SubSeq(f, 1, Len(f))) = IF 1 <= Len(f) THEN Len(f) - 1 + 1 ELSE 0
                  /\ \A i \in 1..(Len(f) - 1 + 1) : SubSeq(f, 1, Len(f))[i] = f[1 + i - 1]
                BY <1>1, <1>2, <4>1, SubSeqProperties
            <4>3. PICK h : h = SubSeq(f, 1, Len(f))
                OBVIOUS
            <4>4. h \in Seq(S) /\ Len(h) = Len(f) /\ \A i \in 1..Len(f) : h[i] = f[i]
                BY <1>1, <4>2, <4>3
            <4>5. h = f
                BY <1>2, <4>4, SeqEqual
            <4> QED BY <4>1, <4>3, <4>5
        <3> QED BY <3>2, <3>3
    <2>2. CASE PowerLoss
        <3>1. g \in FilesLeft(f, synced[Authority]) /\ synced[Authority] \in Nat
            BY <1>1, <2>2 DEF PowerLoss, RetiredInv, Retiring
        <3>2. \A n \in synced[Authority]..Len(f) : n \in 0..Len(f)
            BY <1>1, <3>1
        <3>3. \A n \in synced[Authority]..(Len(f) - 1) : n \in 0..Len(f)
            BY <1>1, <3>1
        <3> QED BY <3>1, <3>2, <3>3 DEF FilesLeft
    <2> QED BY <2>1, <2>2
<1> HIDE DEF f, g
<1>4. /\ \E R : g \in Seq(R)
      /\ Len(g) \in Nat
      /\ \A i \in 1..Len(g) : g[i].kind # "torn" => i \in 1..Len(f) /\ \A n \in 1..i : g[n] = f[n]
    BY <1>2, <1>3, RecordsCut
<1>5. DOMAIN file' = Journals /\ DOMAIN synced' = Journals /\ synced'[Authority] \in Nat
    <2>1. CASE OpenAuthority
        <3>1. Len(Entries(file[Authority])) \in Nat
            BY <1>1, <1>4, <2>1 DEF OpenAuthority, OpenJournal, RetiredInv, Retiring, g
        <3> QED BY <1>1, <2>1, <3>1 DEF OpenAuthority, OpenJournal, RetiredInv, Retiring
    <2>2. CASE PowerLoss
        BY <1>1, <1>4, <2>2 DEF PowerLoss, g
    <2> QED BY <2>1, <2>2
<1>6. /\ names' \in [Sessions -> SUBSET Both] /\ disk' \in [Sessions -> SUBSET Both]
      /\ \A s \in Sessions : names[s] = Gone /\ disk[s] = Gone => names'[s] = Gone /\ disk'[s] = Gone
    <2>1. CASE OpenAuthority
        BY <2>1 DEF OpenAuthority, OpenJournal, RetiredInv, Retiring
    <2>2. CASE PowerLoss
        <3>1. names' \in [Sessions -> SUBSET Both] /\ disk' = names'
            BY <2>2 DEF PowerLoss, Both
        <3>2. ASSUME NEW s \in Sessions, names[s] = Gone, disk[s] = Gone PROVE names'[s] = Gone
            <4>1. names'[s] \in NamesLeft(s, disk[s])
                BY <2>2 DEF PowerLoss
            <4> QED BY <3>2, <4>1 DEF NamesLeft
        <3> QED BY <3>1, <3>2
    <2> QED BY <2>1, <2>2
<1>7. Retiring'
    BY <1>4, <1>5, <1>6 DEF Retiring, g
<1>8. Recorded'
    BY <1>4, <1>6, RecordedKept DEF f, g
<1>9. Underway'
    <2>1. CASE PowerLoss
        BY <2>1, TaskEnds DEF PowerLoss, Down
    <2>2. CASE OpenAuthority
        <3>1. task' = Idle
            BY <2>2 DEF OpenAuthority, OpenJournal, RetiredInv, Underway
        <3> QED BY <3>1, TaskEnds
    <2> QED BY <2>1, <2>2
<1> QED BY <1>7, <1>8, <1>9 DEF RetiredInv


LEMMA RetiredStep ==
    ASSUME RetiredInv, [Next]_vars
    PROVE  RetiredInv'
<1>1. CASE OpenDone \/ GcFails \/ Exit \/ UNCHANGED vars
    BY <1>1, QuietRetired
<1>2. CASE OpenAuthority \/ PowerLoss
    BY <1>2, CutRetired
<1>3. CASE RefuseNonce
    BY <1>3, AuthorityStepRetired
<1>4. ASSUME NEW j \in Journals, RecordRepair(j) \/ AppendSync(j) \/ AppendSyncFails(j)
      PROVE  RetiredInv'
    BY <1>4, QuietRetired, AuthorityStepRetired
<1>5. ASSUME NEW s \in Sessions,
             \/ OpenSession(s) \/ \E kind \in {"work", "closed"} : AppendEntry(s, kind)
             \/ InstallRename(s) \/ InstallFinish(s) \/ InstallFails(s)
      PROVE  RetiredInv'
    BY <1>5, QuietRetired, InstallRenameRetired
<1>6. ASSUME NEW s \in Sessions,
             \/ GcAuthorize(s) \/ GcRetain(s) \/ GcSyncArchive(s) \/ GcSyncSource(s)
             \/ GcRemove(s) \/ GcSyncRemoval(s) \/ GcComplete(s)
      PROVE  RetiredInv'
    BY <1>6, AuthorityStepRetired, CollectionRetired
<1> QED BY <1>1, <1>2, <1>3, <1>4, <1>5, <1>6 DEF Next

\* A session whose collection is recorded as complete has its archive and nothing else,
\* visible and durable, for good: complete_authorized_closed_session_gc synchronizes every
\* name before it records, no later installation takes the identifier, and no crash, reopen
\* or power loss brings a name back.
THEOREM CollectedStaysGone == Spec => []RetiredIsGone
<1>1. Init => RetiredInv
    <2> SUFFICES ASSUME Init PROVE RetiredInv
        OBVIOUS
    <2>1. Authority \in Journals
        BY DEF Journals
    <2>2. file[Authority] = <<>> /\ Len(file[Authority]) = 0 /\ file[Authority] \in Seq({})
        BY <2>1 DEF Init
    <2>3. Retiring
        BY <2>1, <2>2 DEF Init, Retiring
    <2>4. Recorded
        BY <2>2 DEF Recorded
    <2>5. Underway
        BY DEF Init, Underway, Idle, GcSteps
    <2> QED BY <2>3, <2>4, <2>5 DEF RetiredInv
<1>2. RetiredInv /\ [Next]_vars => RetiredInv'
    BY RetiredStep
<1>3. RetiredInv => RetiredIsGone
    <2> SUFFICES ASSUME RetiredInv, NEW s \in Of(Entries(file[Authority]), "completed")
                 PROVE  names[s] = {"archive"} /\ disk[s] = {"archive"}
        BY DEF RetiredIsGone
    <2>1. PICK S, f : f = file[Authority] /\ f \in Seq(S)
        BY DEF RetiredInv, Retiring
    <2>2. Len(f) \in Nat /\ (IsTorn(f) => Len(f) # 0)
        BY <2>1, LenProperties, EmptySeq DEF IsTorn
    <2>3. /\ Len(Entries(f)) \in Nat /\ Len(Entries(f)) <= Len(f) /\ DOMAIN Entries(f) = 1..Len(Entries(f))
          /\ \A i \in 1..Len(Entries(f)) : Entries(f)[i] = f[i]
        <3>1. CASE IsTorn(f)
            <4> DEFINE n == Len(f) - 1
                       h == SubSeq(f, 1, n)
            <4>1. n \in 0..Len(f) /\ n \in Nat /\ \A i \in 1..n : f[i] \in S
                BY <2>1, <2>2, <3>1, LenProperties
            <4>2. /\ h \in Seq(S) /\ Len(h) = IF 1 <= n THEN n - 1 + 1 ELSE 0
                  /\ \A i \in 1..(n - 1 + 1) : h[i] = f[1 + i - 1]
                BY <2>1, <2>2, <4>1, SubSeqProperties
            <4>3. Entries(f) = h
                BY <3>1 DEF Entries, Front
            <4> HIDE DEF n, h
            <4>4. Len(h) = n /\ \A i \in 1..n : h[i] = f[i]
                BY <4>1, <4>2
            <4> QED BY <2>2, <4>1, <4>2, <4>3, <4>4, LenProperties
        <3>2. CASE ~IsTorn(f)
            BY <2>1, <2>2, <3>2, LenProperties DEF Entries
        <3> QED BY <3>1, <3>2
    <2>4. PICK i \in 1..Len(Entries(f)) : Entries(f)[i].kind = "completed" /\ Entries(f)[i].of = s
        BY <2>1, <2>3 DEF Of
    <2>5. i \in 1..Len(f) /\ f[i].kind = "completed" /\ f[i].of = s
        BY <2>2, <2>3, <2>4
    <2> QED BY <2>1, <2>5 DEF RetiredInv, Recorded, Gone
<1> QED BY <1>1, <1>2, <1>3, PTL DEF Spec

\* An entry that append_journal_file acknowledged stays in its journal, and the journal keeps
\* a name: no failed append, torn tail, repair, collection, crash or power loss takes either,
\* as long as no power loss takes what an open had found and nothing had synchronized.
THEOREM AckedSurvives == Spec => []AckedIsKept
<1>1. StoreInv => AckedIsKept
    <2> SUFFICES ASSUME StoreInv PROVE AckedIsKept
        OBVIOUS
    <2>1. ASSUME NEW j \in Journals PROVE IsPrefix(acked[j], file[j])
        <3>1. PICK x, f, n : x = acked[j] /\ f = file[j] /\ n = found[j]
            OBVIOUS
        <3>2. x \in Seq(Frames) /\ f \in Seq(Frames) /\ n \in 0..Len(f) /\ Len(f) \in Nat /\ Len(x) \in Nat
            BY <3>1, JournalFacts
        <3>3. Len(x) <= n /\ \A i \in 1..Len(x) : x[i] = f[i]
            BY <3>1, JournalFacts DEF JournalInv, Keeps
        <3> DEFINE a == SubSeq(x, 1, Len(x))
                   b == SubSeq(f, 1, Len(x))
        <3>4. Len(x) <= Len(f) /\ \A i \in 1..Len(x) : x[i] \in Frames /\ f[i] \in Frames
            <4>1. Len(x) <= Len(f) /\ \A i \in 1..Len(x) : x[i] \in Frames
                BY <3>2, <3>3, LenProperties
            <4> QED BY <3>3, <4>1
        <3>5. /\ a \in Seq(Frames) /\ b \in Seq(Frames)
              /\ Len(a) = (IF 1 <= Len(x) THEN Len(x) - 1 + 1 ELSE 0) /\ Len(b) = Len(a)
              /\ \A i \in 1..(Len(x) - 1 + 1) : a[i] = x[1 + i - 1] /\ b[i] = f[1 + i - 1]
            BY <3>2, <3>4, SubSeqProperties
        <3> HIDE DEF a, b
        <3>6. Len(a) = Len(x) /\ Len(b) = Len(x) /\ \A i \in 1..Len(x) : a[i] = b[i]
            BY <3>2, <3>3, <3>5
        <3>7. a = b
            BY <3>5, <3>6, SeqEqual
        <3> QED BY <3>1, <3>4, <3>7 DEF IsPrefix, a, b
    <2>2. ASSUME NEW s \in Sessions, acked[s] # <<>> PROVE {"live", "archive"} \cap names[s] # {}
        <3>1. names[s] \in {Installed, Both, Moved, Gone}
            <4>1. NamesInv(s)
                BY DEF StoreInv
            <4>2. s \notin Authorized => held[s] = Installed /\ <<names[s], held[s]>> \in Open
                BY <2>2, <4>1 DEF NamesInv
            <4>3. Installed # {}
                BY DEF Installed
            <4>4. s \notin Authorized => names[s] = Installed
                BY <4>2, <4>3 DEF Open
            <4> QED BY <4>4, CollectedNames
        <3> QED BY <3>1 DEF Installed, Both, Moved, Gone
    <2> QED BY <2>1, <2>2 DEF AckedIsKept
<1>2. betrayed => AckedIsKept
    BY DEF AckedIsKept
<1> QED BY <1>1, <1>2, HostedStoreInvariant, PTL

\* authority_control_debit of no prefix of the authority journal exceeds the headroom.
LEMMA DebitsBounded ==
    ASSUME StoreInv, NEW i \in 1..Len(Entries(file[Authority]))
    PROVE  /\ DebitOf(SubSeq(Entries(file[Authority]), 1, i)) \in Nat
           /\ DebitOf(SubSeq(Entries(file[Authority]), 1, i)) <= Headroom
<1>1. Authority \in Journals
    BY AuthorityFacts
<1>2. PICK f, d : f = file[Authority] /\ Debits(d, f)
    BY DEF StoreInv, ProcessInv
<1>3. f \in Seq(Frames) /\ Whole(f) /\ Len(f) \in Nat
    BY <1>1, <1>2, JournalFacts
<1>4. PICK a : a = Entries(f)
    OBVIOUS
<1>5. /\ a \in Seq(Frames) /\ Len(a) \in Nat /\ Whole(a) /\ ~IsTorn(a) /\ Len(a) <= Len(f)
      /\ \A k \in 1..Len(a) : a[k] = f[k] /\ f[k] # Torn
    <2>1. /\ a \in Seq(Frames) /\ Len(a) \in Nat /\ Whole(a) /\ ~IsTorn(a)
          /\ \A k \in 1..Len(a) : a[k] = f[k] /\ f[k] # Torn
          /\ IsTorn(f) => Len(f) = Len(a) + 1
          /\ ~IsTorn(f) => a = f
        BY <1>3, <1>4, EntriesMeaning
    <2>2. Len(a) <= Len(f)
        BY <1>3, <2>1
    <2> QED BY <2>1, <2>2
<1>6. i \in 1..Len(a) /\ i \in 0..Len(a) /\ i \in 0..Len(f) /\ i \in 1..Len(f)
    <2>1. i \in 1..Len(a)
        BY <1>2, <1>4
    <2> QED BY <1>3, <1>5, <2>1
<1>7. PICK g : g = SubSeq(a, 1, i)
    OBVIOUS
<1>8. g \in Seq(Frames) /\ Len(g) = i /\ \A k \in 1..i : g[k] = f[k] /\ g[k] # Torn
    <2>1. i \in Int /\ \A k \in 1..i : k \in 1..Len(a)
        BY <1>5, <1>6
    <2>2. \A k \in 1..i : a[k] \in Frames
        BY <1>5, <2>1, LenProperties
    <2>3. /\ g \in Seq(Frames) /\ Len(g) = (IF 1 <= i THEN i - 1 + 1 ELSE 0)
          /\ \A k \in 1..(i - 1 + 1) : g[k] = a[1 + k - 1]
        BY <1>5, <1>7, <2>1, <2>2, SubSeqProperties
    <2>4. Len(g) = i /\ \A k \in 1..i : g[k] = a[k]
        BY <1>6, <2>3
    <2> QED BY <1>5, <2>1, <2>3, <2>4
<1>9. Whole(g) /\ ~IsTorn(g)
    <2>1. Whole(f) /\ \A k \in 1..i : k \in 1..Len(f)
        BY <1>3, <1>6
    <2>2. Whole(g)
        BY <1>8, <2>1 DEF Whole
    <2>3. Len(g) \in 1..i
        BY <1>6, <1>8
    <2> QED BY <1>8, <2>2, <2>3 DEF IsTorn, Last
<1>10. PICK c : Debits(c, g) /\ c[i] = d[i]
    <2>1. i <= Len(g) /\ Len(g) <= Len(f) /\ \A k \in 1..Len(g) : ~(k > i)
        BY <1>3, <1>6, <1>8
    <2>2. \A k \in 1..i : g[k] = f[k]
        BY <1>8
    <2>3. \A k \in 1..Len(g) : k > i => g[k] = Torn
        BY <2>1
    <2>4. Debits(d, f) /\ f \in Seq(Frames) /\ g \in Seq(Frames) /\ i \in 0..Len(f)
        BY <1>2, <1>3, <1>6, <1>8
    <2> QED BY ONLY <2>1, <2>2, <2>3, <2>4, DebitsShorter
<1>11. DebitOf(g) = d[i]
    BY <1>8, <1>9, <1>10, DebitMeaning
<1>12. d[i] \in Nat /\ d[i] <= Headroom
    BY <1>2, <1>5, <1>6 DEF Debits
<1> QED BY <1>2, <1>4, <1>7, <1>11, <1>12

\* The authorization that initialize_gc_archives finds holds the exact journal.
LEMMA AuthorizationKept ==
    ASSUME StoreInv, NEW s \in Authorized
    PROVE  Authorization(Entries(file[Authority]), s).kept = file[s]
<1>1. file[Authority] \in Seq(Frames) /\ Whole(file[Authority])
    BY AuthorityFacts, JournalFacts
<1>2. PICK f, a : f = file[Authority] /\ a = Entries(f)
    OBVIOUS
<1>3. f \in Seq(Frames) /\ Whole(f)
    BY <1>1, <1>2
<1>4. /\ a \in Seq(Frames) /\ Len(a) \in Nat /\ Len(f) \in Nat
      /\ \A k \in 1..Len(a) : a[k] = f[k] /\ k \in 1..Len(f)
    <2>1. /\ a \in Seq(Frames) /\ Len(a) \in Nat /\ Len(f) \in Nat
          /\ \A k \in 1..Len(a) : a[k] = f[k]
          /\ IsTorn(f) => Len(f) = Len(a) + 1
          /\ ~IsTorn(f) => a = f
        BY <1>2, <1>3, EntriesMeaning
    <2> QED BY <2>1
<1>5. s \in Of(a, "authorized")
    <2>1. s \in Of(f, "authorized")
        BY <1>2 DEF Authorized, Retired
    <2> QED BY <1>2, <1>3, <2>1, OpenedAuthority
<1>6. \E i \in 1..Len(a) : a[i].kind = "authorized" /\ a[i].of = s
    BY <1>4, <1>5, OfMeaning
<1>7. DOMAIN a = 1..Len(a)
    BY <1>4, LenProperties
<1>8. PICK i \in 1..Len(a) : a[i].kind = "authorized" /\ a[i].of = s /\ Authorization(a, s) = a[i]
    BY <1>6, <1>7 DEF Authorization
<1>9. f[i].kind = "authorized" /\ f[i].of = s /\ i \in 1..Len(f) /\ a[i] = f[i]
    BY <1>4, <1>8
<1>10. f[i].kept = file[s]
    BY <1>2, <1>9 DEF StoreInv, AuthorityInv
<1> QED BY <1>2, <1>8, <1>9, <1>10

\* However the store ended, initialize_journals accepts the state root it left: the
\* journals are whole up to a torn tail, the control debit fits, and every archive and
\* session directory is accounted for; with the exception of AckedSurvives.
THEOREM StoreReopens == Spec => []AlwaysReopens
<1>1. StoreInv => ~Refused
    <2> SUFFICES ASSUME StoreInv PROVE ~Refused
        OBVIOUS
    <2> DEFINE a == Entries(file[Authority])
    <2>1. file[Authority] \in Seq(Frames) /\ Whole(file[Authority])
        BY AuthorityFacts, JournalFacts
    <2>2. ~Corrupt(file[Authority]) /\ a \in Seq(Frames)
        BY <2>1, EntriesMeaning
    <2>3. \A i \in DOMAIN a : ~(DebitOf(SubSeq(a, 1, i)) > Headroom)
        <3>1. DOMAIN a = 1..Len(a)
            BY <2>2, LenProperties
        <3> SUFFICES ASSUME NEW i \in 1..Len(a) PROVE ~(DebitOf(SubSeq(a, 1, i)) > Headroom)
            BY <3>1
        <3>2. DebitOf(SubSeq(a, 1, i)) \in Nat /\ DebitOf(SubSeq(a, 1, i)) <= Headroom
            BY DebitsBounded
        <3> QED BY <3>2, StoreAssumption
    <2>4. Retired(a) = Authorized /\ Of(a, "completed") = Of(file[Authority], "completed")
        BY <2>1, OpenedAuthority DEF Authorized, Retired
    <2>5. PendingGc(a) = Authorized \ Of(file[Authority], "completed")
        BY <2>4 DEF PendingGc
    <2>6. \A s \in Authorized : file[s] = Authorization(a, s).kept
        BY AuthorizationKept
    <2> HIDE DEF a
    <2>7. /\ "archive" \notin Installed /\ "archive" \in Both /\ "archive" \in Moved /\ "archive" \in Gone
          /\ "live" \in Installed /\ "dir" \notin Gone
        BY DEF Installed, Both, Moved, Gone
    <2>8. ~ArchivesRefused(a)
        <3> SUFFICES ASSUME NEW s \in Sessions
                     PROVE  /\ "archive" \in names[s] => s \in Authorized
                            /\ s \in Authorized /\ "archive" \notin names[s] =>
                                  s \in PendingGc(a) /\ "live" \in names[s]
            BY <2>4, <2>6 DEF ArchivesRefused
        <3>1. NamesInv(s)
            BY DEF StoreInv
        <3>2. "archive" \in names[s] => s \in Authorized
            BY <2>7, <3>1 DEF NamesInv, Open
        <3>3. s \in Authorized /\ "archive" \notin names[s] => names[s] = Installed
            BY <2>7, CollectedNames
        <3>4. s \in Of(file[Authority], "completed") => names[s] = Gone
            BY <3>1 DEF NamesInv
        <3> QED BY <2>5, <2>7, <3>2, <3>3, <3>4
    <2>9. ~SessionsRefused(a)
        <3> SUFFICES ASSUME NEW s \in Sessions, "dir" \in names[s]
                     PROVE  /\ ~(s \in Retired(a) /\ s \notin PendingGc(a))
                            /\ ~(s \notin PendingGc(a) /\ "live" \notin names[s])
                            /\ "live" \in names[s] => ~Corrupt(file[s]) /\ Entries(file[s]) # <<>>
            BY DEF SessionsRefused
        <3>1. NamesInv(s) /\ s \in Journals
            BY AuthorityFacts DEF StoreInv
        <3>2. s \notin Of(file[Authority], "completed")
            BY <2>7, <3>1 DEF NamesInv
        <3>3. s \notin Authorized => names[s] = Installed
            BY <3>1 DEF NamesInv, Open
        <3>4. /\ file[s] \in Seq(Frames) /\ Whole(file[s]) /\ Len(file[s]) \in Nat
              /\ found[s] \in 0..Len(file[s])
            BY <3>1, JournalFacts
        <3>5. ~Corrupt(file[s])
            BY <3>4, EntriesMeaning
        <3>6. "live" \in names[s] => Entries(file[s]) # <<>>
            <4> SUFFICES ASSUME "live" \in names[s] PROVE Entries(file[s]) # <<>>
                OBVIOUS
            <4>1. 1 \in 1..Len(file[s]) /\ file[s][1] # Torn
                BY <3>1, <3>4 DEF NamesInv
            <4>2. 1 <= Len(Entries(file[s]))
                BY <3>4, <4>1, EntriesMeaning
            <4>3. Len(<<>>) = 0
                OBVIOUS
            <4> QED BY <4>2, <4>3
        <3> QED BY <2>4, <2>5, <2>7, <3>2, <3>3, <3>5, <3>6
    <2> QED BY <2>2, <2>3, <2>8, <2>9 DEF Refused, a
<1>2. betrayed \/ StoreInv => AlwaysReopens
    BY <1>1 DEF AlwaysReopens
<1> QED BY <1>2, HostedStoreInvariant, PTL

=============================================================================
