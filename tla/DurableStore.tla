---------------------------- MODULE DurableStore ----------------------------
(***************************************************************************)
(* The durable store of the fabric: the CRC-framed journal, the atomically *)
(* replaced snapshot and the in-memory document (src/durability).          *)
(*                                                                         *)
(* The disk is the sequence of records in ncf.journal, of which the first  *)
(* `synced' are on stable storage, and the last complete ncf.snapshot. A   *)
(* commit is three appends (Intent, Payload, Commit), each followed by its *)
(* own flush, so a crash or an I/O error falls between any two of them.    *)
(* Store::open is a loop over the journal, one action per record.          *)
(*                                                                         *)
(* A record cut short, by a crash or by a short write, leaves bytes behind *)
(* that the replay loop must tell from a record.  They are a pseudo-record *)
(* of the journal: TornHeader when fewer bytes than a header are there,    *)
(* TornPayload when the header is whole and the payload is not.            *)
(*                                                                         *)
(* Data abstraction.  A mutation is a serial number and the slot of the    *)
(* document it writes: a key (policy, topology, capacity, epoch, one       *)
(* domain's state) whose last write wins, or the bounded history list.     *)
(***************************************************************************)
EXTENDS Integers, Sequences, FiniteSets

CONSTANTS Keys,         \* document slots a later mutation overwrites
          Domains,      \* the keys that hold a domain state
          MaxDomains,   \* StoreOptions::max_domains
          MaxHistory,   \* StoreOptions::max_history_entries, 0 = unlimited
          MaxJournal,   \* JournalOptions::max_journal_bytes, in records
          MaxMutations, \* bound: mutations submitted
          MaxCrashes,   \* bound: crashes
          MaxFaults,    \* bound: I/O errors
          MaxCheckpoints \* bound: checkpoints

\* The slot of a HistoryAppend mutation.
History == "history"

ASSUME ConstantsAssumption ==
  /\ Domains \subseteq Keys
  /\ History \notin Keys
  /\ MaxDomains \in Nat
  /\ MaxHistory \in Nat
  /\ MaxJournal \in Nat
  /\ MaxMutations \in Nat
  /\ MaxCrashes \in Nat
  /\ MaxFaults \in Nat
  /\ MaxCheckpoints \in Nat

VARIABLES
  journal,    \* records of ncf.journal, in file order
  synced,     \* how many of them are on stable storage
  snapshot,   \* what ncf.snapshot holds
  pc,         \* where the single user of the Store is
  file,       \* Journal::file_ is not null
  nextSeq,    \* Journal::next_sequence_
  doc,        \* Store::document_
  step,       \* type of the record being appended
  mut, txn,   \* mutation being committed, and its transaction id
  pos, valid, \* replay: next record, and how many passed their checks
  cut,        \* replay: the status is TruncatedTail
  pending,    \* replay: payloads whose commit has not been seen
  \* history variables
  nextId,     \* serial number of the next mutation
  acked,      \* mutations reported as durable
  written,    \* mutations whose Commit record was appended whole
  short,      \* an append of this session left bytes of a record behind
  buried,     \* some record was appended behind such bytes
  crashes, faults, checkpoints

disk == <<journal, synced, snapshot>>
replayVars == <<pos, valid, cut, pending>>
commitVars == <<step, mut, txn>>
bounds == <<crashes, faults, checkpoints>>
vars == <<journal, synced, snapshot, pc, file, nextSeq, doc, step, mut, txn,
          pos, valid, cut, pending, nextId, acked, written, short,
          buried, crashes, faults, checkpoints>>

-----------------------------------------------------------------------------
(* Types *)

Targets == Keys \cup {History}
Mutation == [id : Nat, target : Targets]
NoMutation == [id |-> 0, target |-> "none"]
MutationSlot == Mutation \cup {NoMutation}

Torn == {"TornHeader", "TornPayload"}
RecordType == {"Intent", "Payload", "Commit", "Rebase"}

\* One record of the journal; only a Payload carries a mutation.
JournalRecord ==
  [type : RecordType \cup Torn, seq : Nat, txn : Nat,
   mut : MutationSlot]

\* The document: each key's last mutation (0: none yet), the history list and
\* the transactions it records as ambiguous attempts.
DurableDocument ==
  [lastSeq : Nat, image : [Keys -> Nat], history : Seq(Nat),
   attempts : SUBSET Nat]

EmptyDocument ==
  [lastSeq |-> 0, image |-> [k \in Keys |-> 0], history |-> <<>>,
   attempts |-> {}]

DataOK ==
  /\ journal \in Seq(JournalRecord)
  /\ synced \in Nat
  /\ snapshot \in DurableDocument
  /\ pc \in {"closed", "replay", "idle", "append", "sync", "rebase"}
  /\ nextSeq \in Nat
  /\ doc \in DurableDocument
  /\ step \in RecordType
  /\ mut \in MutationSlot
  /\ txn \in Nat
  /\ pos \in Nat /\ valid \in Nat
  /\ pending \subseteq [txn : Nat, mut : MutationSlot]
  /\ nextId \in Nat
  /\ acked \subseteq Mutation
  /\ written \subseteq MutationSlot
  /\ crashes \in Nat /\ faults \in Nat /\ checkpoints \in Nat

FlagsOK ==
  /\ file \in BOOLEAN
  /\ cut \in BOOLEAN
  /\ short \in BOOLEAN
  /\ buried \in BOOLEAN

TypeOK == DataOK /\ FlagsOK

Init ==
  /\ journal = <<>> /\ synced = 0 /\ snapshot = EmptyDocument
  /\ pc = "closed" /\ file = FALSE
  /\ nextSeq = 1 /\ doc = EmptyDocument
  /\ step = "Intent" /\ mut = NoMutation /\ txn = 0
  /\ pos = 1 /\ valid = 0 /\ cut = FALSE /\ pending = {}
  /\ nextId = 1 /\ acked = {} /\ written = {}
  /\ short = FALSE /\ buried = FALSE /\ crashes = 0 /\ faults = 0
  /\ checkpoints = 0

-----------------------------------------------------------------------------
(* The document *)

\* Store::apply. Every key is overwritten; a history entry is pushed back.
Apply(d, m) ==
  IF m.target \in Keys
  THEN [d EXCEPT !.image[m.target] = m.id]
  ELSE [d EXCEPT !.history = Append(@, m.id)]

\* Mutant: the newest entries are erased.
PruneNewest(h) ==
  IF MaxHistory = 0 \/ Len(h) <= MaxHistory THEN h ELSE SubSeq(h, 1, MaxHistory)

\* Store::prune_document: the oldest entries beyond the limit are erased.
Prune(h) ==
  IF MaxHistory = 0 \/ Len(h) <= MaxHistory
  THEN h
  ELSE SubSeq(h, Len(h) - MaxHistory + 1, Len(h))

\* Store::enforce_growth_limits. At the bound every DomainState mutation is
\* refused, whether or not its domain is already in the document.
GrowthAllows(t) ==
  t \in Domains => Cardinality({d \in Domains : doc.image[d] # 0}) < MaxDomains

-----------------------------------------------------------------------------
(* Appending *)

TornAt(i) == journal[i].type \in Torn
TornTail == journal # <<>> /\ TornAt(Len(journal))

Record == [type |-> step, seq |-> nextSeq, txn |-> txn,
           mut |-> IF step = "Payload" THEN mut ELSE NoMutation]

\* The forms the bytes of a record can take when not all of them reach the
\* file. A Rebase record has no payload, so only its header can be cut.
TornForms(r) ==
  {[r EXCEPT !.type = t] :
     t \in IF r.type \in {"Rebase", "TornHeader"} THEN {"TornHeader"} ELSE Torn}

\* The journal file once the record r is cut short behind its first n records:
\* nothing of r is there, or a part of it.
CutShort(n, r) ==
  {SubSeq(journal, 1, n)} \cup {Append(SubSeq(journal, 1, n), t) : t \in TornForms(r)}

\* Store::commit up to its first append: the growth limit is checked and the
\* transaction id is the sequence number of the Intent to come.
BeginCommit(t) ==
  /\ pc = "idle"
  /\ nextId <= MaxMutations
  /\ GrowthAllows(t)
  /\ mut' = [id |-> nextId, target |-> t]
  /\ nextId' = nextId + 1
  /\ txn' = nextSeq
  /\ step' = "Intent"
  /\ pc' = "append"
  /\ UNCHANGED <<disk, file, nextSeq, doc, replayVars, acked, written,
                 short, buried, bounds>>

\* Journal::append, the header and the payload written whole.
AppendRecord ==
  /\ pc = "append"
  /\ file
  /\ Len(journal) < MaxJournal
  /\ journal' = Append(journal, Record)
  /\ nextSeq' = nextSeq + 1
  /\ pc' = "sync"
  /\ buried' = (buried \/ TornTail)
  /\ written' = IF step = "Commit" THEN written \cup {mut} ELSE written
  /\ UNCHANGED <<synced, snapshot, file, doc, commitVars, replayVars, nextId,
                 acked, short, bounds>>

\* Journal::append refused before it writes anything: no file, or no room.
AppendRefused ==
  /\ pc = "append"
  /\ ~file \/ Len(journal) >= MaxJournal
  /\ pc' = "idle"
  /\ UNCHANGED <<disk, file, nextSeq, doc, commitVars, replayVars, nextId,
                 acked, written, short, buried, bounds>>

\* Journal::append stopped by a short write. The bytes stay in the file;
\* size_ and next_sequence_ are left alone.
ShortWrite ==
  /\ pc = "append"
  /\ file
  /\ Len(journal) < MaxJournal
  /\ faults < MaxFaults
  /\ \E r \in TornForms(Record) : journal' = Append(journal, r)
  /\ short' = TRUE
  /\ buried' = (buried \/ TornTail)
  /\ pc' = "idle"
  /\ faults' = faults + 1
  /\ UNCHANGED <<synced, snapshot, file, nextSeq, doc, commitVars, replayVars,
                 nextId, acked, written, crashes,
                 checkpoints>>

\* Mutant: the flush is forgotten.
FlushMissing == UNCHANGED synced

\* Journal::sync, with which append ends: all of the file is on stable storage.
Flush == synced' = Len(journal)

\* The append's flush succeeds and it is followed by the next one.
SyncRecord ==
  /\ pc = "sync"
  /\ step \in {"Intent", "Payload"}
  /\ Flush
  /\ step' = IF step = "Intent" THEN "Payload" ELSE "Commit"
  /\ pc' = "append"
  /\ UNCHANGED <<journal, snapshot, file, nextSeq, doc, mut, txn, replayVars,
                 nextId, acked, written, short, buried, bounds>>

\* The Commit record is durable: the mutation is applied, the document pruned
\* and the caller told of success.
FinishCommit ==
  /\ pc = "sync"
  /\ step = "Commit"
  /\ Flush
  /\ LET d == Apply(doc, mut) IN
       doc' = [d EXCEPT !.lastSeq = nextSeq - 1, !.history = Prune(@)]
  /\ acked' = acked \cup {mut}
  /\ pc' = "idle"
  /\ UNCHANGED <<journal, snapshot, file, nextSeq, commitVars, replayVars,
                 nextId, written, short, buried, bounds>>

\* Mutant: the mutation is applied before its Commit record is flushed.
SyncFailsApplied ==
  /\ pc = "sync" /\ step = "Commit"
  /\ faults < MaxFaults
  /\ doc' = Apply(doc, mut)
  /\ pc' = "idle"
  /\ faults' = faults + 1
  /\ UNCHANGED <<disk, file, nextSeq, commitVars, replayVars, nextId, acked, written,
                 short, buried, crashes, checkpoints>>

\* The flush of an append fails: the error goes to the caller, the record may
\* be whole, in part or not at all in the file, and its sequence is used up.
SyncFails ==
  /\ pc = "sync"
  /\ faults < MaxFaults
  /\ LET n == Len(journal) IN
       \E j \in {journal} \cup CutShort(n - 1, journal[n]) :
         /\ journal' = j
         /\ short' = (short \/ (j # <<>> /\ j[Len(j)].type \in Torn))
  /\ pc' = "idle"
  /\ faults' = faults + 1
  /\ UNCHANGED <<synced, snapshot, file, nextSeq, doc, commitVars, replayVars,
                 nextId, acked, written, buried, crashes,
                 checkpoints>>

-----------------------------------------------------------------------------
(* Checkpoint *)

\* Store::checkpoint up to the rebase: the document is written to a temporary
\* file, flushed, renamed over ncf.snapshot and read back.
WriteSnapshot ==
  /\ pc = "idle"
  /\ checkpoints < MaxCheckpoints
  /\ checkpoints' = checkpoints + 1
  /\ snapshot' = doc
  /\ pc' = "rebase"
  /\ UNCHANGED <<journal, synced, file, nextSeq, doc, commitVars, replayVars,
                 nextId, acked, written, short, buried, crashes,
                 faults>>

\* Journal::rebase: the file is reopened empty and a Rebase record appended.
RebaseJournal ==
  /\ pc = "rebase"
  /\ file
  /\ journal' = <<>>
  /\ synced' = 0
  /\ step' = "Rebase"
  /\ txn' = 0
  /\ mut' = NoMutation
  /\ short' = FALSE
  /\ pc' = "append"
  /\ UNCHANGED <<snapshot, file, nextSeq, doc, replayVars, nextId, acked,
                 written, buried, bounds>>

\* The journal cannot be reopened: file_ stays null until the next open.
RebaseFails ==
  /\ pc = "rebase"
  /\ IF file THEN faults < MaxFaults /\ faults' = faults + 1
             ELSE faults' = faults
  /\ file' = FALSE
  /\ pc' = "idle"
  /\ UNCHANGED <<disk, nextSeq, doc, commitVars, replayVars, nextId, acked,
                 written, short, buried, crashes,
                 checkpoints>>

\* The flush of the Rebase record, with which the checkpoint is done.
FinishRebase ==
  /\ pc = "sync"
  /\ step = "Rebase"
  /\ Flush
  /\ pc' = "idle"
  /\ UNCHANGED <<journal, snapshot, file, nextSeq, doc, commitVars, replayVars,
                 nextId, acked, written, short, buried, bounds>>

-----------------------------------------------------------------------------
(* Opening *)

\* Journal::replay accepts the first n records: those before the first torn
\* one.
Accepts(n) ==
  /\ \A i \in 1..n : ~TornAt(i)
  /\ n < Len(journal) => TornAt(n + 1)

\* The status it can return with them. Bytes too short for a record end the
\* loop with TruncatedTail, or with Empty when no record came before. When more
\* was appended behind them, they are read as one record that fails its CRC,
\* unless all of it together is still too short: cut headers for a header, or
\* anything for the payload that the first header declares.
ReplayStatus(n) ==
  LET tail == IF n > 0 THEN "TruncatedTail" ELSE "Empty"
      rest == {journal[i].type : i \in (n + 1)..Len(journal)}
  IN  IF n = Len(journal) THEN {IF n > 0 THEN "Complete" ELSE "Empty"}
      ELSE IF n + 1 = Len(journal) THEN {tail}
      ELSE IF journal[n + 1].type = "TornHeader" /\ rest # {"TornHeader"} THEN {"Corrupt"}
      ELSE {"Corrupt", tail}

\* Store::open up to its loop: the snapshot is the document to start from.
BeginOpen ==
  /\ pc = "closed"
  /\ \E n \in 0..Len(journal) :
       /\ Accepts(n)
       /\ valid' = n
       /\ \E s \in ReplayStatus(n) \ {"Corrupt"} : cut' = (s = "TruncatedTail")
  /\ doc' = snapshot
  /\ file' = TRUE
  /\ nextSeq' = 1
  /\ pos' = 1
  /\ pending' = {}
  /\ short' = FALSE
  /\ pc' = "replay"
  /\ UNCHANGED <<disk, commitVars, nextId, acked, written, buried,
                 bounds>>

\* Store::open fails on a corrupt journal. The directory stays as it is.
OpenRefused ==
  /\ pc = "closed"
  /\ \E n \in 0..Len(journal) : Accepts(n) /\ "Corrupt" \in ReplayStatus(n)
  /\ UNCHANGED vars

\* The payload replay holds for the transaction of a Commit record.
Found(r) == {p \in pending : p.txn = r.txn}

\* Mutant: records the snapshot already holds are replayed too.
FreshAlways(r) == TRUE

\* A record beyond the document's last sequence.
Fresh(r) == r.seq > doc.lastSeq

\* The records the loop passes over: those up to the document's last sequence,
\* an Intent, which only sets the kind of an attempt still to be judged, and a
\* Commit without a payload, which is counted as rejected.
Skipped(r) ==
  \/ ~Fresh(r)
  \/ r.type = "Intent"
  \/ r.type = "Commit" /\ Found(r) = {}

\* One record of the replay loop.
ReplayRecord ==
  /\ pc = "replay"
  /\ pos <= valid
  /\ pos' = pos + 1
  /\ LET r == journal[pos] IN
       \/ /\ Skipped(r)
          /\ UNCHANGED <<doc, pending>>
       \/ /\ Fresh(r) /\ r.type = "Payload"
          /\ pending' = (pending \ Found(r)) \cup {[txn |-> r.txn, mut |-> r.mut]}
          /\ doc' = doc
       \/ /\ Fresh(r) /\ r.type = "Commit"
          /\ \E p \in Found(r) :
               doc' = [Apply(doc, p.mut) EXCEPT !.lastSeq = r.seq]
          /\ pending' = pending \ Found(r)
       \/ /\ Fresh(r) /\ r.type = "Rebase"
          /\ doc' = [doc EXCEPT !.lastSeq = r.seq]
          /\ pending' = pending
  /\ UNCHANGED <<disk, pc, file, nextSeq, commitVars, valid, cut, nextId,
                 acked, written, short, buried, bounds>>

\* Mutant: an unfinished attempt is applied.
RecoveredApplied ==
  IF pending = {} THEN doc ELSE Apply(doc, (CHOOSE p \in pending : TRUE).mut)

\* The document replay ends with: a payload left over is an ambiguous attempt.
Recovered == [doc EXCEPT !.attempts = @ \cup {p.txn : p \in pending}]

\* Mutant: the last sequence is used again.
ResumeAtLast == doc.lastSeq

\* Journal::resume_sequence, as Store::open calls it.
ResumeSequence == doc.lastSeq + 1

\* Mutant: the tail is left in the file.
KeepTail == UNCHANGED <<journal, synced>>

\* Journal::truncate_to, as Store::open calls it: only a TruncatedTail is cut.
CutTornTail ==
  IF cut THEN /\ journal' = SubSeq(journal, 1, valid)
              /\ synced' = valid
         ELSE UNCHANGED <<journal, synced>>

\* Store::open behind its loop: unfinished attempts are recorded, numbering
\* resumes behind the last sequence applied and a torn tail is cut.
FinishOpen ==
  /\ pc = "replay"
  /\ pos > valid
  /\ doc' = Recovered
  /\ nextSeq' = ResumeSequence
  /\ CutTornTail
  /\ pos' = 1 /\ valid' = 0 /\ cut' = FALSE /\ pending' = {}
  /\ pc' = "idle"
  /\ UNCHANGED <<snapshot, file, commitVars, nextId, acked, written, short,
                 buried, bounds>>

\* What the process kept in memory is gone.
Forget ==
  /\ pc' = "closed" /\ file' = FALSE /\ nextSeq' = 1 /\ doc' = EmptyDocument
  /\ step' = "Intent" /\ mut' = NoMutation /\ txn' = 0
  /\ pos' = 1 /\ valid' = 0 /\ cut' = FALSE /\ pending' = {} /\ short' = FALSE

\* Journal::truncate_to fails, before or after the file was cut.
CutFails ==
  /\ pc = "replay"
  /\ pos > valid
  /\ cut
  /\ faults < MaxFaults
  /\ \/ UNCHANGED <<journal, synced>>
     \/ journal' = SubSeq(journal, 1, valid) /\ synced' = valid
  /\ Forget
  /\ faults' = faults + 1
  /\ UNCHANGED <<snapshot, nextId, acked, written, buried, crashes,
                 checkpoints>>

-----------------------------------------------------------------------------
(* Stopping *)

\* The store is destroyed: Journal::close flushes the stream and closes it.
Close ==
  /\ pc = "idle"
  /\ Forget
  /\ UNCHANGED <<disk, nextId, acked, written, buried, bounds>>

\* The process dies. Of the records that were never flushed any prefix reaches
\* the disk, its last one perhaps in part; the snapshot is old or new, whole.
Crash ==
  /\ crashes < MaxCrashes
  /\ \E n \in synced..Len(journal) :
       \E j \in IF n = Len(journal) THEN {journal} ELSE CutShort(n, journal[n + 1]) :
         /\ journal' = j
         /\ synced' = Len(j)
  /\ Forget
  /\ crashes' = crashes + 1
  /\ UNCHANGED <<snapshot, nextId, acked, written, buried, faults,
                 checkpoints>>

Next ==
  \/ \E t \in Targets : BeginCommit(t)
  \/ AppendRecord
  \/ AppendRefused
  \/ ShortWrite
  \/ SyncRecord
  \/ FinishCommit
  \/ SyncFails
  \/ WriteSnapshot
  \/ RebaseJournal
  \/ RebaseFails
  \/ FinishRebase
  \/ BeginOpen
  \/ OpenRefused
  \/ ReplayRecord
  \/ FinishOpen
  \/ CutFails
  \/ Close
  \/ Crash

Spec == Init /\ [][Next]_vars
-----------------------------------------------------------------------------
(* Properties *)

InSession == pc \in {"idle", "append", "sync", "rebase"}

\* A mutation that Store::commit reported as durable is never lost: whenever
\* the store is open, its key holds it or a later one. The exception is a
\* journal in which a record was appended behind the bytes of a cut one.
AckedValueSurvives ==
  ~buried /\ InSession =>
    \A m \in acked : m.target \in Keys => doc.image[m.target] >= m.id

\* The same for the history list: an acknowledged entry leaves it only when
\* prune_document aged it out, behind max_history_entries later ones.
AckedEntrySurvives ==
  ~buried /\ InSession =>
    \A m \in acked : m.target = History =>
      \/ \E i \in 1..Len(doc.history) : doc.history[i] = m.id
      \/ /\ MaxHistory > 0
         /\ Cardinality({i \in 1..Len(doc.history) : doc.history[i] > m.id}) >= MaxHistory

\* Replay never applies an unfinished attempt: everything in the document, and
\* in the snapshot made from it, had its Commit record appended.
OnlyCommittedApplied ==
  \A d \in {doc, snapshot} :
    /\ \A k \in Keys : d.image[k] # 0 => [id |-> d.image[k], target |-> k] \in written
    /\ \A i \in 1..Len(d.history) : [id |-> d.history[i], target |-> History] \in written

\* No history entry is applied twice or out of order, in particular not when a
\* crash falls between the snapshot's rename and the journal's rebase and the
\* records of the journal meet a snapshot that already holds them.
HistoryInOrder ==
  \A i, j \in 1..Len(doc.history) : i < j => doc.history[i] < doc.history[j]

\* Torn bytes behind at least one whole record never survive into a session:
\* where a session finds some, and no append of its own left them, they are
\* the first bytes of the file.
TornTailCut ==
  InSession /\ ~short /\ (\E i \in 1..Len(journal) : TornAt(i)) => TornAt(1)

\* Every torn tail is cut when the store is opened (README, "Durability"): a
\* session that had no failed append has no torn bytes in its journal.
EveryTornTailCut == InSession /\ TornTail => short

-----------------------------------------------------------------------------
(* The store implements what it promises *)

\* The commit in progress, from its first append to its last flush.
InFlight == IF pc \in {"append", "sync"} /\ step # "Rebase" THEN mut ELSE NoMutation

Promise == INSTANCE DocumentStore
  WITH Nothing <- NoMutation,
       open <- InSession,
       image <- IF InSession THEN doc.image ELSE EmptyDocument.image,
       busy <- InFlight,
       reached <- written,
       damaged <- buried

\* The journal, its replay and the snapshots implement DocumentStore: commits
\* take effect one at a time or not at all, a failed one is invisible to the
\* session, and a reopened store has everything that was acknowledged and
\* nothing that was not on its way to the disk, until records are appended
\* behind the bytes of a cut one.
StorePromise == Promise!Spec

-----------------------------------------------------------------------------
(* The inductive invariant behind AckedValueSurvives *)

\* The record that closes a replay window: nothing behind it in the file may
\* have a sequence number up to its own, or replay would skip it.
Closing(i) == journal[i].type \in {"Commit", "Rebase"}

\* Torn bytes are at the end of the file only.
TornLast == \A i \in 1..Len(journal) : TornAt(i) => i = Len(journal)

\* A Commit directly follows the Payload of its transaction.
CommitShape ==
  \A i \in 1..Len(journal) : journal[i].type = "Commit" =>
    /\ i > 1
    /\ journal[i - 1].type = "Payload"
    /\ journal[i - 1].txn = journal[i].txn
    /\ journal[i].seq = journal[i - 1].seq + 1

\* Sequence numbers restart at every open, behind the last record applied, and
\* still every record behind a Commit or Rebase has a larger one.
ClosingInOrder ==
  \A i, j \in 1..Len(journal) :
    i < j /\ Closing(i) /\ ~TornAt(j) => journal[i].seq < journal[j].seq

\* Payloads are in the order in which their mutations were submitted.
PayloadsInOrder ==
  \A i, j \in 1..Len(journal) :
    i < j /\ journal[i].type = "Payload" /\ journal[j].type = "Payload"
      => journal[i].mut.id < journal[j].mut.id

\* A Payload carries a mutation that was submitted.
PayloadsSubmitted ==
  \A i \in 1..Len(journal) : journal[i].type = "Payload" =>
    journal[i].mut \in Mutation /\ journal[i].mut.id < nextId

\* A document d agrees with the Commits from position p on: those beyond its
\* last sequence lie beyond it with their Payload, and are newer than all of d.
Ahead(d, p) ==
  \A i \in 1..Len(journal) :
    journal[i].type = "Commit" /\ i >= p /\ journal[i].seq > d.lastSeq =>
      /\ journal[i - 1].seq > d.lastSeq
      /\ \A k \in Keys : journal[i - 1].mut.id > d.image[k]

\* Every acknowledged value is in the snapshot or under a flushed Commit that
\* replay will not skip.
Recoverable ==
  \A m \in acked : m.target \in Keys =>
    \/ m.id <= snapshot.image[m.target]
    \/ \E i \in 1..Len(journal) :
         /\ i <= synced
         /\ journal[i].type = "Commit"
         /\ journal[i].seq > snapshot.lastSeq
         /\ journal[i - 1].mut = m

\* Serial numbers handed out so far bound everything stored.
IdsBounded ==
  /\ \A k \in Keys : snapshot.image[k] < nextId /\ doc.image[k] < nextId
  /\ \A m \in acked : m.id < nextId

\* Numbering starts at 1, a record being flushed is not flushed yet, replay
\* stays inside the file and a commit has a mutation to write.
FileInv ==
  /\ nextSeq >= 1
  /\ synced <= Len(journal)
  /\ pc = "sync" => synced < Len(journal)
  /\ pc = "replay" => pos >= 1 /\ pos <= valid + 1 /\ valid <= Len(journal)
  /\ pc \in {"append", "sync"} /\ step # "Rebase" => mut \in Mutation

DiskInv ==
  /\ TornLast /\ CommitShape /\ ClosingInOrder /\ PayloadsInOrder
  /\ PayloadsSubmitted /\ Ahead(snapshot, 1) /\ Recoverable /\ IdsBounded

\* What holds of an open store between and inside its operations.
SessionInv ==
  InSession =>
    /\ snapshot.lastSeq <= doc.lastSeq
    /\ doc.lastSeq < nextSeq
    /\ \A i \in 1..Len(journal) : Closing(i) => journal[i].seq < nextSeq
    /\ \A m \in acked : m.target \in Keys => doc.image[m.target] >= m.id
    /\ Ahead(doc, 1)
    /\ pc = "rebase" => snapshot = doc

\* The mutation in flight is newer than everything stored; from its Payload on
\* it is the last thing in the file.
FlightInv ==
  pc \in {"append", "sync"} /\ step # "Rebase" =>
    /\ mut.id < nextId
    /\ \A k \in Keys : snapshot.image[k] < mut.id /\ doc.image[k] < mut.id
    /\ step = "Intent" \/ (step = "Payload" /\ pc = "append") =>
         \A i \in 1..Len(journal) : journal[i].type = "Payload" => journal[i].mut.id < mut.id
    /\ (step = "Payload" /\ pc = "sync") \/ (step = "Commit" /\ pc = "append") =>
         LET n == Len(journal) IN
         /\ n > 0
         /\ journal[n].type = "Payload" /\ journal[n].txn = txn
         /\ journal[n].mut = mut
         /\ nextSeq = journal[n].seq + 1
         /\ journal[n].seq > doc.lastSeq
    /\ step = "Commit" /\ pc = "sync" =>
         LET n == Len(journal) IN
         /\ n > 1
         /\ journal[n].type = "Commit" /\ journal[n].seq = nextSeq - 1
         /\ journal[n].seq > doc.lastSeq
         /\ journal[n - 1].mut = mut

\* A record being flushed is the last of the file.
FlushInv == pc = "sync" => journal[Len(journal)].type = step

\* The replay loop before record pos: the records before it are accounted for
\* in the document, those from it on are all ahead of it.
ReplayInv ==
  pc = "replay" =>
    /\ \A i \in 1..Len(journal) : i > valid => TornAt(i)
    /\ \A i \in 1..valid : ~TornAt(i)
    /\ snapshot.lastSeq <= doc.lastSeq
    /\ \A k \in Keys : doc.image[k] >= snapshot.image[k]
    /\ \A i \in 1..Len(journal) : i < pos /\ Closing(i) => journal[i].seq <= doc.lastSeq
    /\ \A i \in 1..Len(journal) :
         /\ i < pos /\ journal[i].type = "Commit" /\ journal[i].seq > snapshot.lastSeq
         /\ journal[i - 1].mut.target \in Keys
         => doc.image[journal[i - 1].mut.target] >= journal[i - 1].mut.id
    /\ \A i \in 1..Len(journal) :
         i >= pos /\ journal[i].type = "Commit" /\ journal[i].seq > snapshot.lastSeq
           => journal[i].seq > doc.lastSeq
    /\ Ahead(doc, pos)
    /\ \A p, q \in pending : p.txn = q.txn => p = q
    /\ pos > 1 /\ journal[pos - 1].type = "Payload" /\ journal[pos - 1].seq > doc.lastSeq
         => [txn |-> journal[pos - 1].txn, mut |-> journal[pos - 1].mut] \in pending

Sound == DiskInv /\ SessionInv /\ FlightInv /\ FlushInv /\ ReplayInv

IInv ==
  /\ TypeOK
  /\ FileInv
  /\ ~buried => Sound

=============================================================================
