----------------------------- MODULE HostedStore -----------------------------
(***************************************************************************)
(* The durable session store of a hosted V2 node.  Each session has a      *)
(* journal; the authority journal records, among other things, the garbage *)
(* collection of closed sessions and the repairs of torn tails.  One       *)
(* process owns the state root at a time.                                  *)
(*                                                                         *)
(* A file is a sequence of entries of which a prefix is synchronized; a    *)
(* partly written entry at its end is a torn frame.  The names of a        *)
(* session are its directory, the live journal in it and the archive its   *)
(* journal is moved to; each is visible, durable or both.                  *)
(*                                                                         *)
(* A store that opens goes on from what it finds, and synchronizes nothing *)
(* of it that is intact: a frame whose synchronization failed, or a rename *)
(* whose directory was never synchronized, is taken for durable.  The      *)
(* history variables record what an open has found, and whether a power    *)
(* loss has taken any of that.                                             *)
(***************************************************************************)
EXTENDS Integers, Sequences, SequencesExt

CONSTANTS
  Sessions,   \* session identifiers
  Authority,  \* AUTHORITY_JOURNAL_ID_V2
  Payload,    \* bytes a session's operations and checkpoints occupy
  Headroom,   \* CLOSED_SESSION_GC_AUTHORITY_HEADROOM_BYTES_V2
  MaxEntries, \* bound: entries of a session journal
  MaxControl  \* bound: entries of the authority journal

ASSUME StoreAssumption ==
  /\ Authority \notin Sessions
  /\ Payload \in [Sessions -> Nat] /\ Headroom \in Nat
  /\ MaxEntries \in Nat /\ MaxControl \in Nat

Journals == Sessions \cup {Authority}

VARIABLES
  file,      \* journal -> its entries, as a reader finds them
  synced,    \* journal -> how many of them survive a power loss
  names,     \* session -> the directory entries a reader finds
  disk,      \* session -> the directory entries a power loss leaves
  phase,     \* the store is "down", "opening" or "up"
  poisoned,  \* reopen_required
  head,      \* journal -> entries the cached head covers, -1 if not registered
  debit,     \* authority_control_bytes
  writing,   \* journal -> the frame between its write and its synchronization
  cut,       \* journals whose torn tail was cut by this open, not yet recorded
  task,      \* installation or garbage collection in progress
  acked,     \* journal -> entries acknowledged to a caller
  found,     \* history: journal -> frames synchronized, or found by the last open
  held,      \* history: session -> names synchronized, or found by the last open
  betrayed   \* history: has a power loss taken what an open had found

process == <<phase, poisoned, head, debit, writing, cut, task>>
history == <<found, held, betrayed>>
vars == <<file, synced, names, disk, process, acked, history>>

(***************************************************************************)
(* Journals.  An entry carries its sequence number; the authorization of a *)
(* garbage collection also the exact journal it retains.  A frame of the   *)
(* authority journal counts one byte.                                      *)
(***************************************************************************)
Torn == [kind |-> "torn"]

Entry(j, kind, of, kept) == [seq |-> Len(file[j]) + 1, kind |-> kind, of |-> of, kept |-> kept]

IsTorn(f) == f # <<>> /\ Last(f) = Torn

\* scan_validated_journal: an incomplete frame at the end is torn, one
\* anywhere else, or a break in the sequence, is corruption.
Entries(f) == IF IsTorn(f) THEN Front(f) ELSE f

Corrupt(f) == \E i \in DOMAIN Entries(f) : f[i] = Torn \/ f[i].seq # i

Of(f, kind) == {f[i].of : i \in {k \in DOMAIN f : f[k].kind = kind}}

Retired(f) == Of(f, "authorized")

PendingGc(f) == Retired(f) \ Of(f, "completed")

Authorization(f, s) == f[CHOOSE i \in DOMAIN f : f[i].kind = "authorized" /\ f[i].of = s]

\* authority_control_debit_after_event
DebitAfter(d, e) ==
  CASE e.kind = "completed" -> IF d + 1 > Payload[e.of] THEN d + 1 - Payload[e.of] ELSE 0
    [] e.kind \in {"authorized", "repaired"} -> d + 1
    [] OTHER -> d

DebitOf(f) ==
  LET spent[i \in 0..Len(f)] == IF i = 0 THEN 0 ELSE DebitAfter(spent[i - 1], f[i])
  IN spent[Len(f)]

(***************************************************************************)
(* Opening.  Startup refuses a state root it cannot account for.           *)
(***************************************************************************)
\* initialize_gc_archives: an archive needs its authorization and must be the
\* exact journal; a retired session without one needs the exact live journal.
ArchivesRefused(a) ==
  \E s \in Sessions :
    \/ "archive" \in names[s] /\ s \notin Retired(a)
    \/ "archive" \in names[s] /\ s \in Retired(a) /\ file[s] # Authorization(a, s).kept
    \/ /\ s \in Retired(a) /\ "archive" \notin names[s]
       /\ \/ s \notin PendingGc(a) \/ "live" \notin names[s]
          \/ file[s] # Authorization(a, s).kept

\* initialize_journals and initialize_journal for the session directories.
SessionsRefused(a) ==
  \E s \in Sessions : "dir" \in names[s] /\
    \/ s \in Retired(a) /\ s \notin PendingGc(a)
    \/ s \notin PendingGc(a) /\ "live" \notin names[s]
    \/ "live" \in names[s] /\ (Corrupt(file[s]) \/ Entries(file[s]) = <<>>)

Refused ==
  LET a == Entries(file[Authority]) IN
  \/ Corrupt(file[Authority])
  \/ \E i \in DOMAIN a : DebitOf(SubSeq(a, 1, i)) > Headroom
  \/ ArchivesRefused(a) \/ SessionsRefused(a)

Idle == [at |-> "idle"]

Unregistered == [j \in Journals |-> -1]

Init ==
  /\ file = [j \in Journals |-> <<>>]
  /\ synced = [j \in Journals |-> 0]
  /\ names = [s \in Sessions |-> {}] /\ disk = names
  /\ phase = "down" /\ poisoned = FALSE
  /\ head = Unregistered
  /\ debit = 0 /\ writing = {} /\ cut = {} /\ task = Idle
  /\ acked = [j \in Journals |-> <<>>]
  /\ found = synced /\ held = disk /\ betrayed = FALSE

\* truncate_torn_journal_tail cuts and synchronizes the file; a journal without
\* a torn tail is only read.
OpenJournal(j) ==
  /\ head[j] = -1
  /\ file' = [file EXCEPT ![j] = Entries(@)]
  /\ synced' = [synced EXCEPT ![j] = IF IsTorn(file[j]) THEN Len(Entries(file[j])) ELSE @]
  /\ found' = [found EXCEPT ![j] = IF IsTorn(file[j]) THEN Len(Entries(file[j])) ELSE @]
  /\ head' = [head EXCEPT ![j] = Len(Entries(file[j]))]
  /\ cut' = IF IsTorn(file[j]) THEN {j} ELSE {}
  /\ UNCHANGED <<names, disk, poisoned, writing, task, acked, held, betrayed>>

OpenAuthority ==
  /\ phase = "down" /\ ~Refused
  /\ OpenJournal(Authority)
  /\ debit' = DebitOf(Entries(file[Authority]))
  /\ phase' = "opening"

Opening == phase = "opening" /\ cut = {} /\ writing = {} /\ ~poisoned

OpenSession(s) ==
  /\ Opening
  /\ "live" \in names[s]
  /\ OpenJournal(s)
  /\ UNCHANGED <<debit, phase>>

\* Nothing is synchronized: neither the journals nor the directories.
OpenDone ==
  /\ Opening
  /\ \A s \in Sessions : "live" \in names[s] => head[s] >= 0
  /\ phase' = "up"
  /\ found' = [j \in Journals |-> Len(file[j])] /\ held' = names
  /\ UNCHANGED <<file, synced, names, disk, poisoned, head, debit, writing, cut, task, acked, betrayed>>

(***************************************************************************)
(* append_journal_file.  An entry is acknowledged once its frame is        *)
(* written whole, synchronized and verified.  A failed write that left     *)
(* nothing behind is an ordinary error and no step; one that left a part,  *)
(* or a synchronization that fails twice, poisons the store.               *)
(***************************************************************************)
MayAppend(j, e) ==
  /\ ~poisoned /\ head[j] >= 0 /\ j \notin writing
  /\ head[j] = Len(file[j])
  /\ e.seq = head[j] + 1
  /\ j = Authority => DebitAfter(debit, e) <= Headroom /\ e.seq <= MaxControl

\* begin_authority_control_transition; only a poisoned store keeps the debit of
\* an entry that failed.
Debited(j, e) == debit' = IF j = Authority THEN DebitAfter(debit, e) ELSE debit

AppendWhole(j, e) ==
  /\ MayAppend(j, e) /\ Debited(j, e)
  /\ file' = [file EXCEPT ![j] = Append(@, e)]
  /\ writing' = writing \cup {j}
  /\ UNCHANGED poisoned

AppendPart(j, e) ==
  /\ MayAppend(j, e) /\ Debited(j, e)
  /\ file' = [file EXCEPT ![j] = Append(@, Torn)]
  /\ poisoned' = TRUE
  /\ UNCHANGED writing

AppendWrite(j, e) == AppendWhole(j, e) \/ AppendPart(j, e)

\* Mutant: the head advances and the entry is acknowledged before the barrier.
AppendUnsynced(j) ==
  /\ j \in writing
  /\ writing' = writing \ {j}
  /\ head' = [head EXCEPT ![j] = Len(file[j])]
  /\ acked' = [acked EXCEPT ![j] = file[j]]
  /\ UNCHANGED <<file, synced, names, disk, phase, poisoned, debit, cut, task, found, held, betrayed>>

AppendSync(j) ==
  /\ j \in writing
  /\ writing' = writing \ {j}
  /\ synced' = [synced EXCEPT ![j] = Len(file[j])]
  /\ found' = [found EXCEPT ![j] = Len(file[j])]
  /\ head' = [head EXCEPT ![j] = Len(file[j])]
  /\ acked' = [acked EXCEPT ![j] = file[j]]
  /\ UNCHANGED <<file, names, disk, phase, poisoned, debit, cut, task, held, betrayed>>

\* reconcile_appended_frame cannot prove the frame durable.
AppendSyncFails(j) ==
  /\ j \in writing
  /\ writing' = writing \ {j}
  /\ poisoned' = TRUE
  /\ UNCHANGED <<file, synced, names, disk, phase, head, debit, cut, task, acked, found, held, betrayed>>

\* A mutation of an open session, by the runtime.
AppendEntry(s, kind) ==
  /\ phase = "up" /\ task.at \in {"idle", "install"}
  /\ "live" \in names[s] /\ Len(file[s]) < MaxEntries
  /\ file[s] # <<>> /\ Last(file[s]).kind # "closed"
  /\ AppendWrite(s, Entry(s, kind, s, <<>>))
  /\ UNCHANGED <<synced, names, disk, phase, head, cut, task, acked, found, held, betrayed>>

\* A refused placement lease, recorded by the runtime.
RefuseNonce ==
  /\ phase = "up" /\ task = Idle /\ PendingGc(file[Authority]) = {}
  /\ AppendWrite(Authority, Entry(Authority, "refused", Authority, <<>>))
  /\ UNCHANGED <<synced, names, disk, phase, head, cut, task, acked, found, held, betrayed>>

\* record_journal_tail_repair; when it fails the store is not opened (Exit).
RecordRepair(j) ==
  /\ phase = "opening" /\ j \in cut
  /\ AppendWrite(Authority, Entry(Authority, "repaired", j, <<>>))
  /\ cut' = cut \ {j}
  /\ UNCHANGED <<synced, names, disk, phase, head, task, acked, found, held, betrayed>>

(***************************************************************************)
(* install_session: a staged tree with the synchronized first entry is     *)
(* renamed into place, its parents are synchronized and its journal is     *)
(* registered.  Once renamed, a failure poisons the store.                 *)
(***************************************************************************)
MayInstall(s) == "dir" \notin names[s] /\ s \notin Retired(file[Authority])

InstallRename(s) ==
  /\ phase = "up" /\ ~poisoned /\ task = Idle
  /\ MayInstall(s)
  /\ file' = [file EXCEPT ![s] = <<[seq |-> 1, kind |-> "opened", of |-> s, kept |-> <<>>]>>]
  /\ synced' = [synced EXCEPT ![s] = 1] /\ found' = [found EXCEPT ![s] = 1]
  /\ names' = [names EXCEPT ![s] = @ \cup {"dir", "live"}]
  /\ task' = [at |-> "install", of |-> s]
  /\ UNCHANGED <<disk, phase, poisoned, head, debit, writing, cut, acked, held, betrayed>>

\* One synchronization of the sessions directory settles all its entries.
SessionsSynced(d) == [s \in Sessions |->
  IF "dir" \in names[s] THEN d[s] \cup (names[s] \cap {"dir", "live"}) ELSE d[s] \ {"dir", "live"}]

InstallFinish(s) ==
  /\ task = [at |-> "install", of |-> s]
  /\ disk' = SessionsSynced(disk) /\ held' = SessionsSynced(held)
  /\ head' = [head EXCEPT ![s] = Len(file[s])]
  /\ acked' = [acked EXCEPT ![s] = file[s]]
  /\ task' = Idle
  /\ UNCHANGED <<file, synced, names, phase, poisoned, debit, writing, cut, found, betrayed>>

InstallFails(s) ==
  /\ task = [at |-> "install", of |-> s]
  /\ poisoned' = TRUE /\ task' = Idle
  /\ UNCHANGED <<file, synced, names, disk, phase, head, debit, writing, cut, acked, found, held,
                 betrayed>>

(***************************************************************************)
(* Garbage collection of a closed session: authorize, retain the journal   *)
(* in the archive, remove the directory, record completion.  Every part    *)
(* re-drives the barriers of an earlier attempt.                           *)
(***************************************************************************)
GcAuthorize(s) ==
  LET e == Entry(Authority, "authorized", s, file[s])
      done == [e EXCEPT !.kind = "completed"] IN
  /\ phase = "up" /\ task = Idle /\ writing = {}
  /\ PendingGc(file[Authority]) = {}
  /\ "dir" \in names[s] /\ head[s] = Len(file[s])
  /\ file[s] # <<>> /\ Last(file[s]).kind = "closed"
  /\ DebitAfter(DebitAfter(debit, e), done) <= Headroom
  /\ AppendWrite(Authority, e)
  /\ UNCHANGED <<synced, names, disk, phase, head, cut, task, acked, found, held, betrayed>>

\* retain_closed_session_gc_journal: an archive that exists is validated.
GcRetain(s) ==
  /\ phase = "up" /\ ~poisoned /\ task = Idle /\ writing = {}
  /\ s \in PendingGc(file[Authority])
  /\ file[s] = Authorization(file[Authority], s).kept
  /\ "archive" \in names[s] \/ "live" \in names[s]
  /\ names' = [names EXCEPT ![s] =
       IF "archive" \in @ THEN @ ELSE (@ \ {"live"}) \cup {"archive"}]
  /\ task' = [at |-> "archive", of |-> s]
  /\ UNCHANGED <<file, synced, disk, phase, poisoned, head, debit, writing, cut, acked, found,
                 held, betrayed>>

\* Mutant: the archive directory is not synchronized.
GcSkipArchiveSync(s) ==
  /\ task = [at |-> "archive", of |-> s]
  /\ names' = [names EXCEPT ![s] = @ \ {"live"}]
  /\ task' = [at |-> "source", of |-> s]
  /\ UNCHANGED <<file, synced, disk, phase, poisoned, head, debit, writing, cut, acked, found,
                 held, betrayed>>

\* The archive's name is made durable before a duplicate live name is removed.
GcSyncArchive(s) ==
  /\ task = [at |-> "archive", of |-> s]
  /\ disk' = [disk EXCEPT ![s] = @ \cup {"archive"}]
  /\ held' = [held EXCEPT ![s] = @ \cup {"archive"}]
  /\ names' = [names EXCEPT ![s] = @ \ {"live"}]
  /\ task' = [at |-> "source", of |-> s]
  /\ UNCHANGED <<file, synced, phase, poisoned, head, debit, writing, cut, acked, found, betrayed>>

\* sync_live_gc_source_absence: the session's directory, or its parent.
SourceSynced(s, d) ==
  IF "dir" \in names[s] THEN [d EXCEPT ![s] = @ \ {"live"}] ELSE SessionsSynced(d)

GcSyncSource(s) ==
  /\ task = [at |-> "source", of |-> s]
  /\ disk' = SourceSynced(s, disk) /\ held' = SourceSynced(s, held)
  /\ task' = [at |-> "remove", of |-> s]
  /\ UNCHANGED <<file, synced, names, phase, poisoned, head, debit, writing, cut, acked, found,
                 betrayed>>

GcRemove(s) ==
  /\ task = [at |-> "remove", of |-> s]
  /\ names' = [names EXCEPT ![s] = @ \ {"dir"}]
  /\ task' = [at |-> "removed", of |-> s]
  /\ UNCHANGED <<file, synced, disk, phase, poisoned, head, debit, writing, cut, acked, found,
                 held, betrayed>>

\* Mutant: the sessions directory is synchronized only by whoever removed it.
GcSkipRemovalSync(s) ==
  /\ task = [at |-> "removed", of |-> s]
  /\ head' = [head EXCEPT ![s] = -1]
  /\ task' = [at |-> "complete", of |-> s]
  /\ UNCHANGED <<file, synced, names, disk, phase, poisoned, debit, writing, cut, acked, found,
                 held, betrayed>>

GcSyncRemoval(s) ==
  /\ task = [at |-> "removed", of |-> s]
  /\ disk' = SessionsSynced(disk) /\ held' = SessionsSynced(held)
  /\ head' = [head EXCEPT ![s] = -1]
  /\ task' = [at |-> "complete", of |-> s]
  /\ UNCHANGED <<file, synced, names, phase, poisoned, debit, writing, cut, acked, found, betrayed>>

GcComplete(s) ==
  /\ task = [at |-> "complete", of |-> s]
  /\ AppendWrite(Authority, Entry(Authority, "completed", s, <<>>))
  /\ task' = Idle
  /\ UNCHANGED <<synced, names, disk, phase, head, cut, acked, found, held, betrayed>>

\* A step of the collection fails; the authorization stays pending.
GcFails ==
  /\ task.at \notin {"idle", "install"}
  /\ task' = Idle
  /\ UNCHANGED <<file, synced, names, disk, phase, poisoned, head, debit, writing, cut, acked,
                 found, held, betrayed>>

(***************************************************************************)
(* Faults.  The process may end at any moment, on purpose (the way out of  *)
(* a poisoned store, or a failed open) or not.  A power loss also takes a  *)
(* suffix of what was not synchronized, possibly tearing an entry, and any *)
(* of the unsettled directory changes; a rename never leaves the journal   *)
(* without a name.                                                         *)
(***************************************************************************)
Down ==
  /\ phase' = "down" /\ poisoned' = FALSE
  /\ head' = Unregistered
  /\ debit' = 0 /\ writing' = {} /\ cut' = {} /\ task' = Idle

Exit == phase # "down" /\ Down /\ UNCHANGED <<file, synced, names, disk, acked, found, held, betrayed>>

\* What may be left of journal f of which n frames are synchronized.
FilesLeft(f, n) ==
  {SubSeq(f, 1, k) : k \in n..Len(f)} \cup {Append(SubSeq(f, 1, k), Torn) : k \in n..(Len(f) - 1)}

\* What may be left of the names of session s of which those in d are durable.
NamesLeft(s, d) ==
  {X \in SUBSET (names[s] \cup d) :
     /\ names[s] \cap d \subseteq X
     /\ "live" \in X => "dir" \in X
     /\ "dir" \in X => {"live", "archive"} \cap X # {}
     /\ {"live", "archive"} \cap d # {} => {"live", "archive"} \cap X # {}}

PowerLoss ==
  /\ Down
  /\ file' \in [Journals -> UNION {FilesLeft(file[j], synced[j]) : j \in Journals}]
  /\ \A j \in Journals : file'[j] \in FilesLeft(file[j], synced[j])
  /\ names' \in [Sessions -> SUBSET {"dir", "live", "archive"}]
  /\ \A s \in Sessions : names'[s] \in NamesLeft(s, disk[s])
  /\ synced' = [j \in Journals |-> Len(file'[j])] /\ disk' = names'
  /\ found' = synced' /\ held' = names'
  /\ betrayed' = \/ betrayed
                 \/ \E j \in Journals : file'[j] \notin FilesLeft(file[j], found[j])
                 \/ \E s \in Sessions : names'[s] \notin NamesLeft(s, held[s])
  /\ UNCHANGED acked

Next ==
  \/ OpenAuthority \/ OpenDone \/ RefuseNonce
  \/ \E j \in Journals : RecordRepair(j) \/ AppendSync(j) \/ AppendSyncFails(j)
  \/ \E s \in Sessions :
       \/ OpenSession(s)
       \/ \E kind \in {"work", "closed"} : AppendEntry(s, kind)
       \/ InstallRename(s) \/ InstallFinish(s) \/ InstallFails(s)
       \/ GcAuthorize(s) \/ GcRetain(s) \/ GcSyncArchive(s) \/ GcSyncSource(s)
       \/ GcRemove(s) \/ GcSyncRemoval(s) \/ GcComplete(s)
  \/ GcFails \/ Exit \/ PowerLoss

Spec == Init /\ [][Next]_vars

(***************************************************************************)
(* Properties.                                                             *)
(***************************************************************************)
TypeOK ==
  /\ \A j \in Journals : /\ synced[j] \in 0..Len(file[j]) /\ found[j] \in synced[j]..Len(file[j])
                         /\ head[j] \in -1..Len(file[j])
  /\ \A s \in Sessions : names[s] \cup disk[s] \cup held[s] \subseteq {"dir", "live", "archive"}
  /\ phase \in {"down", "opening", "up"} /\ poisoned \in BOOLEAN /\ betrayed \in BOOLEAN
  /\ debit \in 0..Headroom
  /\ writing \subseteq Journals /\ cut \subseteq Journals

\* An acknowledged entry survives failed appends, torn tails and their repair, the
\* move of its journal into the archive, crashes and power losses
\* (append_journal_file, truncate_torn_journal_tail, retain_closed_session_gc).
\* The one exception is a power loss that takes what an earlier open had found
\* and nothing had synchronized: open does not synchronize it, and an entry
\* acknowledged later may stand on it (the name of a session's directory).
AckedIsKept ==
  ~betrayed =>
    /\ \A j \in Journals : IsPrefix(acked[j], file[j])
    /\ \A s \in Sessions : acked[s] # <<>> => {"live", "archive"} \cap names[s] # {}

\* However the store ended, it can be opened again: no interruption of an
\* append, an installation or a collection leaves a root that
\* initialize_journals refuses, and so the collection can be resumed; with the
\* exception of AckedIsKept (a collection authorized on a frame that an open
\* found, and that a power loss then took, leaves an archive nobody authorized).
AlwaysReopens == phase = "down" /\ ~betrayed => ~Refused

\* Once its collection is recorded as complete, a session has its archive and
\* nothing else, visible or durable, ever again (complete_authorized_closed_
\* session_gc; install_session refuses its identifier).
RetiredIsGone ==
  \A s \in Of(Entries(file[Authority]), "completed") :
    names[s] = {"archive"} /\ disk[s] = {"archive"}
=============================================================================
