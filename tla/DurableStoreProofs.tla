------------------------- MODULE DurableStoreProofs -------------------------
(***************************************************************************)
(* Proofs about DurableStore, in three parts: type correctness, and that   *)
(* an acknowledged value survives every crash, restart, checkpoint and I/O *)
(* error as long as no record was appended behind torn bytes; what replay  *)
(* puts into the document, without that exception; and that the store      *)
(* keeps what DocumentStore promises.                                      *)
(***************************************************************************)
EXTENDS DurableStore, FiniteSetTheorems, TLAPS

-----------------------------------------------------------------------------
(* Lemmas about the operators *)

\* What a record holds in its mutation field has a serial number.
LEMMA SlotId ==
  ASSUME NEW m \in MutationSlot
  PROVE  m.id \in Nat
BY DEF MutationSlot, Mutation, NoMutation

\* Store::apply yields a document whatever payload it is given.
LEMMA ApplyType ==
  ASSUME NEW d \in DurableDocument, NEW m \in MutationSlot
  PROVE  Apply(d, m) \in DurableDocument
<1>1. m.id \in Nat
  BY SlotId
<1>2. CASE m.target \in Keys
  BY <1>1, <1>2 DEF Apply, DurableDocument
<1>3. CASE m.target \notin Keys
  <2>1. Append(d.history, m.id) \in Seq(Nat)
    BY <1>1 DEF DurableDocument
  <2> QED BY <1>3, <2>1 DEF Apply, DurableDocument
<1> QED BY <1>2, <1>3

\* Store::apply overwrites the key of the mutation and no other, and leaves
\* the last sequence alone.
LEMMA ApplyValue ==
  ASSUME NEW d \in DurableDocument, NEW m \in Mutation
  PROVE  /\ Apply(d, m).lastSeq = d.lastSeq
         /\ \A k \in Keys : Apply(d, m).image[k] = IF k = m.target THEN m.id ELSE d.image[k]
BY DEF Apply, DurableDocument, Mutation

\* Store::prune_document keeps a list a list.
LEMMA PruneType ==
  ASSUME NEW h \in Seq(Nat)
  PROVE  Prune(h) \in Seq(Nat)
<1>1. CASE MaxHistory = 0 \/ Len(h) <= MaxHistory
  BY <1>1 DEF Prune
<1>2. CASE ~(MaxHistory = 0 \/ Len(h) <= MaxHistory)
  <2>1. Len(h) \in Nat /\ MaxHistory \in Nat
    BY ConstantsAssumption
  <2>2. Len(h) - MaxHistory + 1 \in 1..(Len(h) + 1)
    BY <1>2, <2>1
  <2>3. SubSeq(h, Len(h) - MaxHistory + 1, Len(h)) \in Seq(Nat)
    BY <2>1, <2>2
  <2> QED BY <1>2, <2>3 DEF Prune
<1> QED BY <1>1, <1>2

\* j is what is left of journal i when everything behind its first n records
\* is lost, except perhaps a part of the next one.
Trimmed(i, j, n) ==
  /\ n <= Len(i)
  /\ Len(j) = n \/ (n < Len(i) /\ Len(j) = n + 1 /\ j[n + 1].type \in Torn)
  /\ \A k \in 1..n : j[k] = i[k]

\* A record cut short is still a record of the journal, of a torn type.
LEMMA TornFormsType ==
  ASSUME NEW r \in JournalRecord, NEW t \in TornForms(r)
  PROVE  t \in JournalRecord /\ t.type \in Torn
BY DEF TornForms, JournalRecord, Torn

\* Cutting the file short keeps its first n records.
LEMMA CutShortTrimmed ==
  ASSUME journal \in Seq(JournalRecord), NEW n \in 0..Len(journal), n < Len(journal),
         NEW r \in JournalRecord, NEW j \in CutShort(n, r)
  PROVE  j \in Seq(JournalRecord) /\ Trimmed(journal, j, n)
<1> DEFINE s == SubSeq(journal, 1, n)
<1>1. /\ s \in Seq(JournalRecord)
      /\ Len(s) = n
      /\ \A k \in 1..n : s[k] = journal[k]
  OBVIOUS
<1>2. CASE j = s
  BY <1>1, <1>2 DEF Trimmed
<1>3. ASSUME NEW t \in TornForms(r), j = Append(s, t)
      PROVE  j \in Seq(JournalRecord) /\ Trimmed(journal, j, n)
  <2>1. t \in JournalRecord /\ t.type \in Torn
    BY TornFormsType
  <2> HIDE DEF s
  <2>2. j \in Seq(JournalRecord)
    BY <1>1, <1>3, <2>1
  <2>3. Len(j) = n + 1 /\ j[n + 1] = t /\ \A k \in 1..n : j[k] = s[k]
    BY <1>1, <1>3, <2>1
  <2> QED BY <1>1, <2>1, <2>2, <2>3 DEF Trimmed
<1> QED BY <1>2, <1>3 DEF CutShort

-----------------------------------------------------------------------------
(* Type correctness *)

\* The record Journal::append builds is a record.
LEMMA RecordType_ ==
  DataOK => Record \in JournalRecord
BY DEF DataOK, MutationSlot, Record, JournalRecord, RecordType

\* The flags stay Boolean.
LEMMA FlagsStep ==
  FlagsOK /\ [Next]_vars => FlagsOK'
<1> SUFFICES ASSUME FlagsOK, [Next]_vars PROVE FlagsOK'
  OBVIOUS
<1> USE DEF FlagsOK
<1>1. ASSUME NEW t \in Targets, BeginCommit(t) PROVE FlagsOK'
  BY <1>1, Zenon DEF BeginCommit, replayVars
<1>2. CASE AppendRecord
  BY <1>2, Zenon DEF AppendRecord, replayVars
<1>3. CASE AppendRefused
  BY <1>3, Zenon DEF AppendRefused, replayVars
<1>4. CASE ShortWrite
  BY <1>4, Zenon DEF ShortWrite, replayVars
<1>5. CASE SyncRecord
  BY <1>5, Zenon DEF SyncRecord, replayVars
<1>6. CASE FinishCommit
  BY <1>6, Zenon DEF FinishCommit, replayVars
<1>7. CASE SyncFails
  BY <1>7, Zenon DEF SyncFails, replayVars
<1>8. CASE WriteSnapshot
  BY <1>8, Zenon DEF WriteSnapshot, replayVars
<1>9. CASE RebaseJournal
  BY <1>9, Zenon DEF RebaseJournal, replayVars
<1>10. CASE RebaseFails
  BY <1>10, Zenon DEF RebaseFails, replayVars
<1>11. CASE FinishRebase
  BY <1>11, Zenon DEF FinishRebase, replayVars
<1>12. CASE BeginOpen
  BY <1>12, Zenon DEF BeginOpen
<1>13. CASE OpenRefused
  BY <1>13, Zenon DEF OpenRefused, vars
<1>14. CASE ReplayRecord
  BY <1>14, Zenon DEF ReplayRecord
<1>15. CASE FinishOpen
  BY <1>15, Zenon DEF CutTornTail, FinishOpen
<1>16. CASE CutFails
  BY <1>16, Zenon DEF CutFails, Forget
<1>17. CASE Close
  BY <1>17, Zenon DEF Close, Forget
<1>18. CASE Crash
  BY <1>18, Zenon DEF Crash, Forget
<1>19. CASE UNCHANGED vars
  BY <1>19, Zenon DEF vars
<1> QED BY <1>1, <1>2, <1>3, <1>4, <1>5, <1>6, <1>7, <1>8, <1>9, <1>10, <1>11,
           <1>12, <1>13, <1>14, <1>15, <1>16, <1>17, <1>18, <1>19 DEF Next

\* Every step keeps the types and the bounds of the file.
LEMMA DataStep ==
  DataOK /\ FileInv /\ [Next]_vars => DataOK' /\ FileInv'
<1> SUFFICES ASSUME DataOK, FileInv, [Next]_vars PROVE DataOK' /\ FileInv'
  OBVIOUS
<1> USE DEF DataOK, FileInv
<1>0. EmptyDocument \in DurableDocument /\ Len(journal) \in Nat
  BY DEF EmptyDocument, DurableDocument
<1>1. ASSUME NEW t \in Targets, BeginCommit(t) PROVE DataOK' /\ FileInv'
  BY <1>1 DEF BeginCommit, disk, replayVars, bounds, Mutation, MutationSlot, RecordType
<1>2. CASE AppendRecord
  <2>1. journal' \in Seq(JournalRecord) /\ Len(journal') = Len(journal) + 1
    BY <1>2, RecordType_ DEF AppendRecord
  <2>2. written' \subseteq MutationSlot
    BY <1>2 DEF AppendRecord
  <2> QED BY <1>0, <1>2, <2>1, <2>2 DEF AppendRecord, commitVars, replayVars, bounds
<1>3. CASE AppendRefused
  BY <1>3 DEF AppendRefused, disk, commitVars, replayVars, bounds
<1>4. CASE ShortWrite
  <2>1. journal' \in Seq(JournalRecord) /\ Len(journal') = Len(journal) + 1
    BY <1>4, RecordType_, TornFormsType DEF ShortWrite
  <2> QED BY <1>0, <1>4, <2>1 DEF ShortWrite, commitVars, replayVars, bounds
<1>5. CASE SyncRecord
  BY <1>0, <1>5 DEF Flush, SyncRecord, replayVars, bounds, RecordType
<1>6. CASE FinishCommit
  <2>1. Apply(doc, mut) \in DurableDocument
    BY ApplyType
  <2>2. Prune(Apply(doc, mut).history) \in Seq(Nat)
    BY <2>1, PruneType DEF DurableDocument
  <2>3. nextSeq - 1 \in Nat
    OBVIOUS
  <2>4. doc' \in DurableDocument
    BY <1>6, <2>1, <2>2, <2>3 DEF FinishCommit, DurableDocument
  <2>5. acked' \subseteq Mutation
    BY <1>6 DEF FinishCommit
  <2> QED BY <1>0, <1>6, <2>4, <2>5 DEF Flush, FinishCommit, commitVars, replayVars, bounds
<1>7. CASE SyncFails
  <2> DEFINE n == Len(journal)
  <2>1. n \in Nat /\ n > synced /\ n - 1 \in 0..n /\ n - 1 < n /\ journal[n] \in JournalRecord
    BY <1>0, <1>7 DEF SyncFails
  <2>2. PICK j \in {journal} \cup CutShort(n - 1, journal[n]) : journal' = j
    BY <1>7 DEF SyncFails
  <2>3. j \in Seq(JournalRecord) /\ Len(j) >= n - 1
    BY <2>1, CutShortTrimmed DEF Trimmed
  <2> QED BY <1>7, <2>1, <2>2, <2>3 DEF SyncFails, commitVars, replayVars, bounds
<1>8. CASE WriteSnapshot
  BY <1>8 DEF WriteSnapshot, commitVars, replayVars
<1>9. CASE RebaseJournal
  BY <1>9 DEF RebaseJournal, replayVars, bounds, RecordType, MutationSlot
<1>10. CASE RebaseFails
  BY <1>10 DEF RebaseFails, disk, commitVars, replayVars
<1>11. CASE FinishRebase
  BY <1>0, <1>11 DEF Flush, FinishRebase, commitVars, replayVars, bounds
<1>12. CASE BeginOpen
  BY <1>0, <1>12 DEF BeginOpen, disk, commitVars, bounds
<1>13. CASE OpenRefused
  BY <1>13 DEF OpenRefused, vars
<1>14. CASE ReplayRecord
  <2>1. pos \in 1..Len(journal) /\ journal[pos] \in JournalRecord
    BY <1>0, <1>14 DEF ReplayRecord
  <2>2. doc' \in DurableDocument
    BY <1>14, <2>1, ApplyType DEF Fresh, ReplayRecord, Found, JournalRecord, DurableDocument
  <2>3. pending' \subseteq [txn : Nat, mut : MutationSlot]
    <3>1. [txn |-> journal[pos].txn, mut |-> journal[pos].mut] \in [txn : Nat, mut : MutationSlot]
      BY <2>1 DEF JournalRecord
    <3>2. \/ UNCHANGED pending
          \/ pending' = pending \ Found(journal[pos])
          \/ pending' = (pending \ Found(journal[pos]))
                         \cup {[txn |-> journal[pos].txn, mut |-> journal[pos].mut]}
      BY <1>14, Zenon DEF ReplayRecord
    <3> QED BY <3>1, <3>2, Zenon
  <2>4. /\ pc = "replay" /\ pos <= valid /\ pos' = pos + 1
        /\ UNCHANGED <<disk, pc, file, nextSeq, commitVars, valid, cut, nextId,
                       acked, written, short, buried, bounds>>
    BY <1>14, Zenon DEF ReplayRecord
  <2> QED BY <1>0, <2>2, <2>3, <2>4 DEF disk, commitVars, bounds
<1>15. CASE FinishOpen
  <2>1. \A p \in pending : p.txn \in Nat
    OBVIOUS
  <2>2. doc.attempts \cup {p.txn : p \in pending} \subseteq Nat
    BY <2>1 DEF DurableDocument
  <2>3. doc' \in DurableDocument
    BY <1>15, <2>2 DEF Recovered, FinishOpen, DurableDocument
  <2>4. nextSeq' \in Nat /\ nextSeq' >= 1
    BY <1>15 DEF ResumeSequence, FinishOpen, DurableDocument
  <2>5. SubSeq(journal, 1, valid) \in Seq(JournalRecord) /\ Len(SubSeq(journal, 1, valid)) = valid
    BY <1>0, <1>15 DEF FinishOpen
  <2>6. journal' \in Seq(JournalRecord) /\ synced' \in Nat /\ synced' <= Len(journal')
    <3>1. \/ journal' = SubSeq(journal, 1, valid) /\ synced' = valid
          \/ UNCHANGED <<journal, synced>>
      BY <1>15, Zenon DEF CutTornTail, FinishOpen
    <3> QED BY <2>5, <3>1
  <2>7. pc' = "idle" /\ pos' \in Nat /\ valid' \in Nat /\ pending' = {}
    BY <1>15 DEF FinishOpen
  <2> QED BY <1>15, <2>3, <2>4, <2>6, <2>7 DEF FinishOpen, commitVars, bounds
<1>16. CASE CutFails
  <2>1. SubSeq(journal, 1, valid) \in Seq(JournalRecord) /\ Len(SubSeq(journal, 1, valid)) = valid
    BY <1>0, <1>16 DEF CutFails
  <2> QED BY <1>0, <1>16, <2>1 DEF CutFails, Forget, RecordType, MutationSlot
<1>17. CASE Close
  BY <1>0, <1>17 DEF Close, Forget, disk, bounds, RecordType, MutationSlot
<1>18. CASE Crash
  <2>1. PICK n \in synced..Len(journal) :
          \E j \in IF n = Len(journal) THEN {journal} ELSE CutShort(n, journal[n + 1]) :
            journal' = j /\ synced' = Len(j)
    BY <1>18 DEF Crash
  <2>2. journal' \in Seq(JournalRecord) /\ synced' = Len(journal')
    <3>1. CASE n = Len(journal)
      BY <2>1, <3>1
    <3>2. CASE n # Len(journal)
      <4>1. n \in 0..Len(journal) /\ n < Len(journal) /\ journal[n + 1] \in JournalRecord
        BY <1>0, <3>2
      <4> QED BY <2>1, <3>2, <4>1, CutShortTrimmed
    <3> QED BY <3>1, <3>2
  <2> QED BY <1>0, <1>18, <2>2 DEF Crash, Forget, RecordType, MutationSlot
<1>19. CASE UNCHANGED vars
  BY <1>19 DEF vars
<1> QED BY <1>1, <1>2, <1>3, <1>4, <1>5, <1>6, <1>7, <1>8, <1>9, <1>10, <1>11,
           <1>12, <1>13, <1>14, <1>15, <1>16, <1>17, <1>18, <1>19 DEF Next

\* Every variable of the store keeps its type through every operation, crash
\* and I/O error, also when the journal is corrupt.
THEOREM TypeCorrect == Spec => []TypeOK
<1>1. Init => DataOK /\ FileInv
  <2>1. EmptyDocument \in DurableDocument
    BY DEF EmptyDocument, DurableDocument
  <2> QED BY <2>1 DEF Init, DataOK, FileInv, RecordType, MutationSlot
<1>2. Init => FlagsOK
  BY DEF Init, FlagsOK
<1> QED BY <1>1, <1>2, DataStep, FlagsStep, PTL DEF Spec, TypeOK

-----------------------------------------------------------------------------
(* The disk under truncation and under append *)

\* The fields of the records in the file.
LEMMA Fields ==
  ASSUME DataOK, NEW i \in 1..Len(journal)
  PROVE  /\ journal[i].type \in RecordType \cup Torn
         /\ journal[i].seq \in Nat
         /\ journal[i].txn \in Nat
         /\ journal[i].mut \in MutationSlot
         /\ journal[i].mut.id \in Nat
<1>1. journal[i] \in JournalRecord
  BY DEF DataOK
<1> QED BY <1>1, SlotId DEF JournalRecord

\* The types of what the invariant compares.
LEMMA Numbers ==
  ASSUME DataOK
  PROVE  /\ journal \in Seq(JournalRecord) /\ Len(journal) \in Nat
         /\ synced \in Nat /\ nextSeq \in Nat /\ nextId \in Nat
         /\ pos \in Nat /\ valid \in Nat
         /\ snapshot.lastSeq \in Nat /\ doc.lastSeq \in Nat
         /\ \A k \in Keys : snapshot.image[k] \in Nat /\ doc.image[k] \in Nat
         /\ \A m \in acked : m.id \in Nat
<1>1. journal \in Seq(JournalRecord) /\ Len(journal) \in Nat
  BY DEF DataOK
<1>2. /\ snapshot.lastSeq \in Nat /\ doc.lastSeq \in Nat
      /\ \A k \in Keys : snapshot.image[k] \in Nat /\ doc.image[k] \in Nat
  BY DEF DataOK, DurableDocument
<1>3. \A m \in acked : m.id \in Nat
  BY DEF DataOK, Mutation
<1> QED BY <1>1, <1>2, <1>3 DEF DataOK

\* The same for the state after a step.
LEMMA NumbersNext ==
  ASSUME DataOK'
  PROVE  /\ journal' \in Seq(JournalRecord) /\ Len(journal') \in Nat
         /\ synced' \in Nat /\ nextSeq' \in Nat /\ nextId' \in Nat
         /\ pos' \in Nat /\ valid' \in Nat
         /\ snapshot'.lastSeq \in Nat /\ doc'.lastSeq \in Nat
         /\ \A k \in Keys : snapshot'.image[k] \in Nat /\ doc'.image[k] \in Nat
         /\ \A m \in acked' : m.id \in Nat
<1>1. journal' \in Seq(JournalRecord) /\ Len(journal') \in Nat
  BY DEF DataOK
<1>2. /\ snapshot'.lastSeq \in Nat /\ doc'.lastSeq \in Nat
      /\ \A k \in Keys : snapshot'.image[k] \in Nat /\ doc'.image[k] \in Nat
  BY DEF DataOK, DurableDocument
<1>3. \A m \in acked' : m.id \in Nat
  BY DEF DataOK, Mutation
<1> QED BY <1>1, <1>2, <1>3 DEF DataOK

\* Losing the end of the file, but no flushed Commit, keeps the disk sound.
LEMMA TrimDisk ==
  ASSUME DataOK, DataOK', FileInv, DiskInv,
         NEW n \in 0..Len(journal), Trimmed(journal, journal', n),
         \A i \in 1..Len(journal) :
           journal[i].type = "Commit" /\ i <= synced => i <= n /\ i <= synced',
         UNCHANGED <<snapshot, acked>>, nextId' >= nextId,
         \A k \in Keys : doc'.image[k] < nextId'
  PROVE  DiskInv'
<1>0. /\ Len(journal) \in Nat /\ Len(journal') \in Nat /\ nextId \in Nat /\ nextId' \in Nat
      /\ \A k \in Keys : snapshot.image[k] \in Nat
      /\ \A m \in acked : m.id \in Nat
  BY Numbers, NumbersNext
<1>1. \A i \in 1..Len(journal') :
        \/ i <= n /\ i \in 1..Len(journal) /\ journal'[i] = journal[i]
        \/ i = Len(journal') /\ i = n + 1 /\ journal'[i].type \in Torn
  BY <1>0 DEF Trimmed
<1>2. TornLast'
  BY <1>0, <1>1 DEF DiskInv, TornLast, TornAt, Trimmed
<1>3. CommitShape'
  <2> SUFFICES ASSUME NEW i \in 1..Len(journal'), journal'[i].type = "Commit"
               PROVE  /\ i > 1
                      /\ journal'[i - 1].type = "Payload"
                      /\ journal'[i - 1].txn = journal'[i].txn
                      /\ journal'[i].seq = journal'[i - 1].seq + 1
    BY DEF CommitShape
  <2>1. i <= n /\ i \in 1..Len(journal) /\ journal'[i] = journal[i]
    BY <1>1 DEF Torn
  <2>2. i > 1
    BY <2>1 DEF DiskInv, CommitShape
  <2>3. journal'[i - 1] = journal[i - 1]
    BY <1>0, <2>1, <2>2 DEF Trimmed
  <2> QED BY <2>1, <2>2, <2>3 DEF DiskInv, CommitShape
<1>4. ClosingInOrder'
  BY <1>0, <1>1 DEF DiskInv, ClosingInOrder, Closing, TornAt, Torn
<1>5. PayloadsInOrder'
  BY <1>0, <1>1 DEF DiskInv, PayloadsInOrder, Torn
<1>6. PayloadsSubmitted'
  <2> SUFFICES ASSUME NEW i \in 1..Len(journal'), journal'[i].type = "Payload"
               PROVE  journal'[i].mut \in Mutation /\ journal'[i].mut.id < nextId'
    BY DEF PayloadsSubmitted
  <2>1. i \in 1..Len(journal) /\ journal'[i] = journal[i]
    BY <1>1 DEF Torn
  <2>2. journal[i].mut \in Mutation /\ journal[i].mut.id < nextId
    BY <2>1 DEF DiskInv, PayloadsSubmitted
  <2> QED BY <1>0, <2>1, <2>2, Fields
<1>7. Ahead(snapshot, 1)'
  <2> SUFFICES ASSUME NEW i \in 1..Len(journal'), journal'[i].type = "Commit",
                      journal'[i].seq > snapshot.lastSeq
               PROVE  /\ journal'[i - 1].seq > snapshot.lastSeq
                      /\ \A k \in Keys : journal'[i - 1].mut.id > snapshot.image[k]
    BY DEF Ahead
  <2>1. i <= n /\ i \in 1..Len(journal) /\ journal'[i] = journal[i]
    BY <1>1 DEF Torn
  <2>2. i > 1
    BY <2>1 DEF DiskInv, CommitShape
  <2>3. journal'[i - 1] = journal[i - 1]
    BY <1>0, <2>1, <2>2 DEF Trimmed
  <2> QED BY <2>1, <2>2, <2>3 DEF DiskInv, Ahead
<1>8. Recoverable'
  <2> SUFFICES ASSUME NEW m \in acked, m.target \in Keys, ~(m.id <= snapshot.image[m.target])
               PROVE  \E i \in 1..Len(journal') :
                        /\ i <= synced'
                        /\ journal'[i].type = "Commit"
                        /\ journal'[i].seq > snapshot.lastSeq
                        /\ journal'[i - 1].mut = m
    BY DEF Recoverable
  <2>1. PICK i \in 1..Len(journal) :
          /\ i <= synced
          /\ journal[i].type = "Commit"
          /\ journal[i].seq > snapshot.lastSeq
          /\ journal[i - 1].mut = m
    BY DEF DiskInv, Recoverable
  <2>2. i <= n /\ i <= synced' /\ i > 1
    BY <2>1 DEF DiskInv, CommitShape
  <2>3. i \in 1..Len(journal') /\ journal'[i] = journal[i] /\ journal'[i - 1] = journal[i - 1]
    BY <1>0, <2>2 DEF Trimmed
  <2> QED BY <2>1, <2>2, <2>3
<1>9. IdsBounded'
  BY <1>0 DEF DiskInv, IdsBounded
<1> QED BY <1>2, <1>3, <1>4, <1>5, <1>6, <1>7, <1>8, <1>9 DEF DiskInv

\* An open store stays sound when its file loses records from the end.
LEMMA TrimSession ==
  ASSUME DataOK, DataOK', DiskInv, SessionInv, InSession, pc' = "idle",
         NEW n \in 0..Len(journal), Trimmed(journal, journal', n),
         UNCHANGED <<snapshot, nextSeq, doc, acked>>
  PROVE  SessionInv'
<1>0. Len(journal) \in Nat /\ Len(journal') \in Nat
  BY Numbers, NumbersNext
<1>1. \A i \in 1..Len(journal') : journal'[i].type \notin Torn =>
        i <= n /\ i \in 1..Len(journal) /\ journal'[i] = journal[i]
  BY <1>0 DEF Trimmed
<1>2. Ahead(doc, 1)'
  <2> SUFFICES ASSUME NEW i \in 1..Len(journal'), journal'[i].type = "Commit",
                      journal'[i].seq > doc.lastSeq
               PROVE  /\ journal'[i - 1].seq > doc.lastSeq
                      /\ \A k \in Keys : journal'[i - 1].mut.id > doc.image[k]
    BY DEF Ahead
  <2>1. i <= n /\ i \in 1..Len(journal) /\ journal'[i] = journal[i]
    BY <1>1 DEF Torn
  <2>2. i > 1
    BY <2>1 DEF DiskInv, CommitShape
  <2>3. journal'[i - 1] = journal[i - 1]
    BY <1>0, <2>1, <2>2 DEF Trimmed
  <2> QED BY <2>1, <2>3 DEF SessionInv, Ahead
<1>3. \A i \in 1..Len(journal') : Closing(i)' => journal'[i].seq < nextSeq
  BY <1>1 DEF SessionInv, Closing, Torn
<1> QED BY <1>2, <1>3 DEF SessionInv, InSession

\* Appending a record keeps the disk sound when the file has no torn tail, the
\* record is numbered behind every Commit and Rebase, a Payload is the newest
\* one and a Commit follows its Payload.
LEMMA AppendDisk ==
  ASSUME DataOK, DataOK', DiskInv, ~TornTail,
         NEW r \in JournalRecord, journal' = Append(journal, r),
         r.type \notin Torn =>
           \A i \in 1..Len(journal) : Closing(i) => journal[i].seq < r.seq,
         r.type = "Payload" =>
           /\ r.mut \in Mutation /\ r.mut.id < nextId
           /\ \A i \in 1..Len(journal) : journal[i].type = "Payload" => journal[i].mut.id < r.mut.id,
         r.type = "Commit" =>
           LET n == Len(journal) IN
           /\ n > 0
           /\ journal[n].type = "Payload" /\ journal[n].txn = r.txn
           /\ r.seq = journal[n].seq + 1
           /\ journal[n].seq > snapshot.lastSeq
           /\ \A k \in Keys : journal[n].mut.id > snapshot.image[k],
         UNCHANGED <<synced, snapshot, acked, nextId, doc>>
  PROVE  DiskInv'
<1> DEFINE n == Len(journal)
<1>0. n \in Nat
  BY Numbers
<1>1. /\ Len(journal') = n + 1
      /\ journal'[n + 1] = r
      /\ \A i \in 1..n : journal'[i] = journal[i]
  BY DEF DataOK
<1> HIDE DEF n
<1>2. \A i \in 1..Len(journal') : i = n + 1 \/ i \in 1..n
  BY <1>0, <1>1
<1>3. TornLast'
  BY <1>0, <1>1 DEF DiskInv, TornLast, TornTail, TornAt, n
<1>4. CommitShape'
  BY <1>0, <1>1, <1>2 DEF DiskInv, CommitShape, n
<1>5. ClosingInOrder'
  <2> SUFFICES ASSUME NEW i \in 1..Len(journal'), NEW j \in 1..Len(journal'), i < j,
                      Closing(i)', ~TornAt(j)'
               PROVE  journal'[i].seq < journal'[j].seq
    BY DEF ClosingInOrder
  <2>1. i \in 1..n /\ journal'[i] = journal[i]
    BY <1>0, <1>1, <1>2
  <2> QED BY <1>0, <1>1, <1>2, <2>1 DEF DiskInv, ClosingInOrder, Closing, TornAt, n
<1>6. PayloadsInOrder'
  BY <1>0, <1>1, <1>2 DEF DiskInv, PayloadsInOrder, n
<1>7. PayloadsSubmitted'
  BY <1>0, <1>1, <1>2 DEF DiskInv, PayloadsSubmitted, n
<1>8. Ahead(snapshot, 1)'
  <2> SUFFICES ASSUME NEW i \in 1..Len(journal'), journal'[i].type = "Commit",
                      journal'[i].seq > snapshot.lastSeq
               PROVE  /\ journal'[i - 1].seq > snapshot.lastSeq
                      /\ \A k \in Keys : journal'[i - 1].mut.id > snapshot.image[k]
    BY DEF Ahead
  <2>1. CASE i = n + 1
    BY <1>0, <1>1, <2>1 DEF n
  <2>2. CASE i \in 1..n
    <3>1. i > 1 /\ journal'[i] = journal[i] /\ journal'[i - 1] = journal[i - 1]
      BY <1>0, <1>1, <2>2 DEF DiskInv, CommitShape, n
    <3> QED BY <2>2, <3>1 DEF DiskInv, Ahead, n
  <2> QED BY <1>2, <2>1, <2>2
<1>9. Recoverable'
  <2> SUFFICES ASSUME NEW m \in acked, m.target \in Keys, ~(m.id <= snapshot.image[m.target])
               PROVE  \E i \in 1..Len(journal') :
                        /\ i <= synced
                        /\ journal'[i].type = "Commit"
                        /\ journal'[i].seq > snapshot.lastSeq
                        /\ journal'[i - 1].mut = m
    BY ZenonT(30) DEF Recoverable
  <2>1. PICK i \in 1..n :
          /\ i <= synced
          /\ journal[i].type = "Commit"
          /\ journal[i].seq > snapshot.lastSeq
          /\ journal[i - 1].mut = m
    BY DEF DiskInv, Recoverable, n
  <2>2. i > 1
    BY <2>1 DEF DiskInv, CommitShape, n
  <2>3. i \in 1..Len(journal') /\ journal'[i] = journal[i] /\ journal'[i - 1] = journal[i - 1]
    BY <1>0, <1>1, <2>2
  <2> QED BY <2>1, <2>3
<1>10. IdsBounded'
  BY DEF DiskInv, IdsBounded
<1> QED BY <1>3, <1>4, <1>5, <1>6, <1>7, <1>8, <1>9, <1>10 DEF DiskInv

-----------------------------------------------------------------------------
(* Each operation keeps the invariant *)

\* Submitting a mutation: its serial number is larger than all that is stored.
LEMMA BeginCommitSound ==
  ASSUME DataOK, DataOK', FileInv, Sound, NEW t \in Targets, BeginCommit(t)
  PROVE  Sound'
<1>0. /\ pc = "idle" /\ pc' = "append" /\ step' = "Intent"
      /\ mut'.id = nextId /\ nextId' = nextId + 1
      /\ UNCHANGED <<journal, synced, snapshot, nextSeq, doc, acked>>
  BY DEF BeginCommit, disk
<1> USE DEF Sound
<1>1. DiskInv'
  <2>1. Len(journal) \in 0..Len(journal) /\ Trimmed(journal, journal', Len(journal))
    BY <1>0, Numbers DEF Trimmed
  <2>2. nextId' >= nextId /\ \A k \in Keys : doc'.image[k] < nextId'
    BY <1>0, Numbers DEF DiskInv, IdsBounded
  <2>3. \A i \in 1..Len(journal) : i <= Len(journal)
    BY Numbers
  <2> QED BY <1>0, <2>1, <2>2, <2>3, TrimDisk
<1>2. SessionInv'
  BY <1>0 DEF SessionInv, InSession, Closing, Ahead
<1>3. FlightInv'
  BY <1>0, Numbers DEF FlightInv, DiskInv, IdsBounded, PayloadsSubmitted
<1> QED BY <1>0, <1>1, <1>2, <1>3 DEF FlushInv, ReplayInv

\* A refused append, the end of a failed rebase: nothing but pc changes.
LEMMA BackToIdleSound ==
  ASSUME DataOK, DataOK', FileInv, Sound, pc \in {"append", "rebase"}, pc' = "idle",
         UNCHANGED <<journal, synced, snapshot, nextSeq, doc, acked, nextId>>
  PROVE  Sound'
<1> USE DEF Sound
<1>1. DiskInv'
  BY DEF DiskInv, TornLast, CommitShape, ClosingInOrder, PayloadsInOrder,
         PayloadsSubmitted, Ahead, Recoverable, IdsBounded, Closing, TornAt
<1>2. SessionInv'
  BY DEF SessionInv, InSession, Closing, Ahead
<1> QED BY <1>1, <1>2 DEF FlightInv, FlushInv, ReplayInv

\* A short write leaves torn bytes at the end of the file.
LEMMA ShortWriteSound ==
  ASSUME DataOK, DataOK', FileInv, Sound, ~TornTail, ShortWrite
  PROVE  Sound'
<1> USE DEF Sound
<1>1. PICK r \in TornForms(Record) : journal' = Append(journal, r)
  BY DEF ShortWrite
<1>2. r \in JournalRecord /\ r.type \in Torn
  BY RecordType_, TornFormsType
<1>3. /\ pc = "append" /\ pc' = "idle"
      /\ UNCHANGED <<synced, snapshot, nextSeq, doc, acked, nextId>>
  BY DEF ShortWrite
<1>4. DiskInv'
  BY <1>1, <1>2, <1>3, AppendDisk DEF Torn
<1>5. /\ Len(journal') = Len(journal) + 1
      /\ journal'[Len(journal) + 1] = r
      /\ \A i \in 1..Len(journal) : journal'[i] = journal[i]
  BY <1>1, <1>2, Numbers
<1>6. \A i \in 1..Len(journal') : journal'[i].type \notin Torn =>
        i \in 1..Len(journal) /\ journal'[i] = journal[i]
  BY <1>2, <1>5, Numbers
<1>7. SessionInv'
  <2>1. Ahead(doc, 1)'
    <3> SUFFICES ASSUME NEW i \in 1..Len(journal'), journal'[i].type = "Commit",
                        journal'[i].seq > doc.lastSeq
                 PROVE  /\ journal'[i - 1].seq > doc.lastSeq
                        /\ \A k \in Keys : journal'[i - 1].mut.id > doc.image[k]
      BY <1>3 DEF Ahead
    <3>1. i \in 1..Len(journal) /\ journal'[i] = journal[i]
      BY <1>6 DEF Torn
    <3>2. i > 1
      BY <3>1 DEF DiskInv, CommitShape
    <3>3. journal'[i - 1] = journal[i - 1]
      BY <1>5, <3>1, <3>2, Numbers, SMTT(30)
    <3> QED BY <1>3, <3>1, <3>3 DEF SessionInv, InSession, Ahead
  <2>2. \A i \in 1..Len(journal') : Closing(i)' => journal'[i].seq < nextSeq
    BY <1>3, <1>6 DEF SessionInv, InSession, Closing, Torn
  <2> QED BY <1>3, <2>1, <2>2 DEF SessionInv, InSession
<1> QED BY <1>3, <1>4, <1>7 DEF FlightInv, FlushInv, ReplayInv

\* A whole record appended to a file without a torn tail.
LEMMA AppendRecordSound ==
  ASSUME DataOK, DataOK', FileInv, Sound, ~TornTail, AppendRecord
  PROVE  Sound'
<1> USE DEF Sound
<1> DEFINE n == Len(journal)
<1>1. /\ pc = "append" /\ pc' = "sync" /\ nextSeq' = nextSeq + 1
      /\ journal' = Append(journal, Record)
      /\ UNCHANGED <<synced, snapshot, doc, step, mut, txn, acked, nextId>>
  BY DEF AppendRecord, commitVars
<1>2. /\ Record \in JournalRecord /\ Record.type = step /\ Record.seq = nextSeq
      /\ Record.txn = txn /\ (step = "Payload" => Record.mut = mut)
  BY RecordType_ DEF Record
<1>3. /\ n \in Nat /\ Len(journal') = n + 1
      /\ journal'[n + 1] = Record
      /\ \A i \in 1..n : journal'[i] = journal[i]
  BY <1>1, <1>2, Numbers
<1>4. step \in RecordType /\ step \notin Torn
  BY DEF DataOK, RecordType, Torn
<1>5. \A i \in 1..n : Closing(i) => journal[i].seq < nextSeq
  BY <1>1 DEF SessionInv, InSession
<1>6. step = "Payload" =>
        /\ mut \in Mutation /\ mut.id < nextId
        /\ \A i \in 1..n : journal[i].type = "Payload" => journal[i].mut.id < mut.id
  BY <1>1 DEF FileInv, FlightInv
<1>7. step = "Commit" =>
        /\ n > 0 /\ journal[n].type = "Payload" /\ journal[n].txn = txn
        /\ journal[n].mut = mut
        /\ nextSeq = journal[n].seq + 1
        /\ journal[n].seq > doc.lastSeq
        /\ \A k \in Keys : snapshot.image[k] < mut.id /\ doc.image[k] < mut.id
  BY <1>1 DEF FlightInv
<1>8. step = "Commit" => journal[n].seq > snapshot.lastSeq
  <2> SUFFICES ASSUME step = "Commit" PROVE journal[n].seq > snapshot.lastSeq
    OBVIOUS
  <2>1. journal[n].seq \in Nat
    BY <1>3, <1>7, Fields
  <2>2. snapshot.lastSeq <= doc.lastSeq
    BY <1>1 DEF SessionInv, InSession
  <2> QED BY <1>7, <2>1, <2>2, Numbers
<1>9. mut.id \in Nat
  BY SlotId DEF DataOK
<1> HIDE DEF n, Sound
<1>10. DiskInv'
  <2>1. step = "Commit" => \A k \in Keys : journal[n].mut.id > snapshot.image[k]
    BY <1>7, <1>9, Numbers
  <2> QED BY <1>1, <1>2, <1>4, <1>5, <1>6, <1>7, <1>8, <2>1, AppendDisk DEF Sound, n
<1>11. SessionInv'
  <2>1. Ahead(doc, 1)'
    <3> SUFFICES ASSUME NEW i \in 1..Len(journal'), journal'[i].type = "Commit",
                        journal'[i].seq > doc.lastSeq
                 PROVE  /\ journal'[i - 1].seq > doc.lastSeq
                        /\ \A k \in Keys : journal'[i - 1].mut.id > doc.image[k]
      BY <1>1 DEF Ahead
    <3>1. CASE i = n + 1
      <4>1. step = "Commit" /\ journal'[i - 1] = journal[n]
        BY <1>2, <1>3, <1>7, <3>1
      <4> QED BY <1>7, <1>9, <4>1, Numbers
    <3>2. CASE i \in 1..n
      <4>1. journal'[i] = journal[i] /\ i > 1
        BY <1>3, <3>2 DEF Sound, DiskInv, CommitShape, n
      <4>2. journal'[i - 1] = journal[i - 1]
        BY <1>3, <3>2, <4>1
      <4> QED BY <1>1, <3>2, <4>1, <4>2 DEF Sound, SessionInv, InSession, Ahead, n
    <3> QED BY <1>3, <3>1, <3>2
  <2>2. \A i \in 1..Len(journal') : Closing(i)' => journal'[i].seq < nextSeq'
    <3> SUFFICES ASSUME NEW i \in 1..Len(journal'), Closing(i)'
                 PROVE  journal'[i].seq < nextSeq'
      OBVIOUS
    <3>1. CASE i = n + 1
      BY <1>1, <1>2, <1>3, <3>1, Numbers
    <3>2. CASE i \in 1..n
      <4>1. journal'[i] = journal[i] /\ journal[i].seq \in Nat
        BY <1>3, <3>2, Fields DEF n
      <4> QED BY <1>1, <1>5, <3>2, <4>1, Numbers DEF Closing
    <3> QED BY <1>3, <3>1, <3>2
  <2>3. doc.lastSeq < nextSeq'
    BY <1>1, Numbers DEF Sound, SessionInv, InSession
  <2> QED BY <1>1, <2>1, <2>2, <2>3 DEF Sound, SessionInv, InSession
<1>12. FlightInv'
  <2> SUFFICES ASSUME step # "Rebase" PROVE FlightInv'
    BY <1>1 DEF FlightInv
  <2>1. /\ mut.id < nextId
        /\ \A k \in Keys : snapshot.image[k] < mut.id /\ doc.image[k] < mut.id
    BY <1>1 DEF Sound, FlightInv
  <2>2. CASE step = "Intent"
    <3>1. \A i \in 1..n : journal[i].type = "Payload" => journal[i].mut.id < mut.id
      BY <1>1, <2>2 DEF Sound, FlightInv, n
    <3>2. \A i \in 1..Len(journal') : journal'[i].type = "Payload" => journal'[i].mut.id < mut.id
      BY <1>2, <1>3, <2>2, <3>1
    <3> QED BY <1>1, <2>1, <2>2, <3>2 DEF FlightInv
  <2>3. CASE step = "Payload"
    <3>1. nextSeq > doc.lastSeq
      BY <1>1, Numbers DEF Sound, SessionInv, InSession
    <3>2. /\ Len(journal') > 0
          /\ journal'[Len(journal')].type = "Payload" /\ journal'[Len(journal')].txn = txn
          /\ journal'[Len(journal')].mut = mut
          /\ nextSeq' = journal'[Len(journal')].seq + 1
          /\ journal'[Len(journal')].seq > doc.lastSeq
      BY <1>1, <1>2, <1>3, <2>3, <3>1
    <3> QED BY <1>1, <2>1, <2>3, <3>2 DEF FlightInv
  <2>4. CASE step = "Commit"
    <3>1. nextSeq > doc.lastSeq
      BY <1>1, Numbers DEF Sound, SessionInv, InSession
    <3>2. /\ Len(journal') > 1
          /\ journal'[Len(journal')].type = "Commit"
          /\ journal'[Len(journal')].seq = nextSeq' - 1
          /\ journal'[Len(journal')].seq > doc.lastSeq
          /\ journal'[Len(journal') - 1].mut = mut
      <4>0. nextSeq \in Nat
        BY Numbers
      <4>1. n \in 1..n /\ Len(journal') - 1 = n /\ nextSeq' - 1 = nextSeq
        BY <1>1, <1>3, <1>7, <2>4, <4>0
      <4>2. journal'[Len(journal') - 1] = journal[n] /\ journal'[Len(journal')] = Record
        BY <1>3, <4>1
      <4> QED BY <1>2, <1>3, <1>7, <2>4, <3>1, <4>1, <4>2
    <3> QED BY <1>1, <2>1, <2>4, <3>2 DEF FlightInv
  <2> QED BY <1>4, <2>2, <2>3, <2>4 DEF RecordType
<1>13. FlushInv'
  BY <1>1, <1>2, <1>3 DEF FlushInv
<1>14. ReplayInv'
  BY <1>1 DEF ReplayInv
<1> QED BY <1>10, <1>11, <1>12, <1>13, <1>14 DEF Sound

\* A flush that succeeds: of an Intent, a Payload or a Rebase.
LEMMA FlushedSound ==
  ASSUME DataOK, DataOK', FileInv, Sound, pc = "sync",
         SyncRecord \/ FinishRebase
  PROVE  Sound'
<1>0. /\ synced' = Len(journal)
      /\ UNCHANGED <<journal, snapshot, nextSeq, doc, mut, txn, acked, nextId>>
      /\ \/ pc' = "append" /\ step = "Intent" /\ step' = "Payload"
         \/ pc' = "append" /\ step = "Payload" /\ step' = "Commit"
         \/ pc' = "idle"
  BY DEF Flush, SyncRecord, FinishRebase, commitVars
<1>1. DiskInv'
  <2>1. /\ Len(journal) \in 0..Len(journal) /\ Trimmed(journal, journal', Len(journal))
        /\ \A i \in 1..Len(journal) : i <= Len(journal)
        /\ nextId' >= nextId
    BY <1>0, Numbers DEF Trimmed
  <2>2. \A k \in Keys : doc'.image[k] < nextId'
    BY <1>0 DEF Sound, DiskInv, IdsBounded
  <2> QED BY <1>0, <2>1, <2>2, TrimDisk DEF Sound
<1>2. SessionInv'
  BY <1>0 DEF Sound, SessionInv, InSession, Closing, Ahead
<1>3. FlightInv'
  BY <1>0 DEF Sound, FlightInv
<1> QED BY <1>0, <1>1, <1>2, <1>3 DEF Sound, FlushInv, ReplayInv

\* The flush of a Commit record: the mutation is acknowledged, and it is both
\* in the document and under a flushed Commit.
LEMMA FinishCommitSound ==
  ASSUME DataOK, DataOK', FileInv, Sound, FinishCommit
  PROVE  Sound'
<1> DEFINE n == Len(journal)
<1>0. /\ pc = "sync" /\ step = "Commit" /\ pc' = "idle" /\ synced' = n
      /\ acked' = acked \cup {mut}
      /\ UNCHANGED <<journal, snapshot, nextSeq, nextId>>
  BY DEF Flush, FinishCommit
<1>1. mut \in Mutation /\ mut.id \in Nat
  BY <1>0, SlotId DEF FileInv, DataOK
<1>2. /\ doc'.lastSeq = nextSeq - 1
      /\ \A k \in Keys : doc'.image[k] = IF k = mut.target THEN mut.id ELSE doc.image[k]
  <2>1. doc \in DurableDocument /\ Apply(doc, mut) \in DurableDocument
    BY ApplyType DEF DataOK
  <2>2. \A k \in Keys : Apply(doc, mut).image[k] = IF k = mut.target THEN mut.id ELSE doc.image[k]
    BY <1>1, <2>1, ApplyValue
  <2>3. doc' = [Apply(doc, mut) EXCEPT !.lastSeq = nextSeq - 1,
                                       !.history = Prune(Apply(doc, mut).history)]
    BY DEF FinishCommit
  <2> QED BY <2>1, <2>2, <2>3 DEF DurableDocument
<1>3. /\ mut.id < nextId
      /\ \A k \in Keys : snapshot.image[k] < mut.id /\ doc.image[k] < mut.id
      /\ n > 1 /\ journal[n].type = "Commit" /\ journal[n].seq = nextSeq - 1
      /\ journal[n].seq > doc.lastSeq
      /\ journal[n - 1].mut = mut
  BY <1>0 DEF Sound, FlightInv
<1>4. /\ snapshot.lastSeq <= doc.lastSeq /\ doc.lastSeq < nextSeq
      /\ \A i \in 1..n : Closing(i) => journal[i].seq < nextSeq
      /\ \A m \in acked : m.target \in Keys => doc.image[m.target] >= m.id
  BY <1>0 DEF Sound, SessionInv, InSession
<1>5. DiskInv'
  <2>1. Recoverable'
    <3> SUFFICES ASSUME NEW m \in acked \cup {mut}, m.target \in Keys,
                        ~(m.id <= snapshot.image[m.target])
                 PROVE  \E i \in 1..n :
                          /\ i <= n
                          /\ journal[i].type = "Commit"
                          /\ journal[i].seq > snapshot.lastSeq
                          /\ journal[i - 1].mut = m
      BY <1>0 DEF Recoverable
    <3>1. CASE m \in acked
      BY <3>1, Numbers DEF Sound, DiskInv, Recoverable
    <3>2. CASE m = mut
      <4>1. n \in 1..n /\ n <= n
        BY <1>3, Numbers
      <4>2. journal[n].seq > snapshot.lastSeq
        BY <1>3, <1>4, <4>1, Numbers, Fields
      <4> QED BY <1>3, <3>2, <4>1, <4>2
    <3> QED BY <3>1, <3>2
  <2>2. IdsBounded'
    BY <1>0, <1>2, <1>3 DEF Sound, DiskInv, IdsBounded
  <2> QED BY <1>0, <2>1, <2>2
       DEF Sound, DiskInv, TornLast, CommitShape, ClosingInOrder, PayloadsInOrder,
           PayloadsSubmitted, Ahead, Closing, TornAt
<1>6. SessionInv'
  <2>1. \A m \in acked' : m.target \in Keys => doc'.image[m.target] >= m.id
    <3> SUFFICES ASSUME NEW m \in acked \cup {mut}, m.target \in Keys
                 PROVE  doc'.image[m.target] >= m.id
      BY <1>0
    <3>1. CASE m \in acked
      <4>1. doc.image[m.target] >= m.id /\ doc.image[m.target] < mut.id
        BY <1>3, <1>4, <3>1
      <4>2. m.id \in Nat /\ doc.image[m.target] \in Nat
        BY <3>1, Numbers
      <4> QED BY <1>1, <1>2, <4>1, <4>2
    <3>2. CASE m = mut
      BY <1>1, <1>2, <3>2
    <3> QED BY <3>1, <3>2
  <2>2. Ahead(doc, 1)'
    <3> SUFFICES ASSUME NEW i \in 1..n, journal[i].type = "Commit", journal[i].seq > nextSeq - 1
                 PROVE  FALSE
      BY <1>0, <1>2 DEF Ahead
    <3> QED BY <1>4, Fields, Numbers DEF Closing
  <2>3. snapshot.lastSeq <= nextSeq - 1 /\ nextSeq - 1 < nextSeq
    BY <1>4, Numbers
  <2> QED BY <1>0, <1>2, <1>4, <2>1, <2>2, <2>3 DEF SessionInv, InSession, Closing
<1> QED BY <1>0, <1>5, <1>6 DEF Sound, FlightInv, FlushInv, ReplayInv

\* The flush fails: the record is there, in part or not at all.
LEMMA SyncFailsSound ==
  ASSUME DataOK, DataOK', FileInv, Sound, SyncFails
  PROVE  Sound'
<1> DEFINE n == Len(journal)
<1>0. /\ pc = "sync" /\ pc' = "idle"
      /\ UNCHANGED <<synced, snapshot, nextSeq, doc, acked, nextId>>
  BY DEF SyncFails
<1>1. n \in Nat /\ synced < n /\ synced \in Nat
  BY <1>0, Numbers DEF FileInv
<1>2. PICK j \in {journal} \cup CutShort(n - 1, journal[n]) : journal' = j
  BY DEF SyncFails
<1>3. PICK c \in 0..n : Trimmed(journal, journal', c) /\ c >= n - 1
  <2>1. CASE j = journal
    BY <1>1, <1>2, <2>1 DEF Trimmed
  <2>2. CASE j \in CutShort(n - 1, journal[n])
    <3>1. n - 1 \in 0..n /\ n - 1 < n /\ journal[n] \in JournalRecord
      BY <1>1, Numbers
    <3>2. Trimmed(journal, j, n - 1)
      BY <2>2, <3>1, CutShortTrimmed, Numbers
    <3> QED BY <1>2, <3>1, <3>2
  <2> QED BY <1>2, <2>1, <2>2
<1>4. DiskInv'
  <2>1. \A i \in 1..n : i <= synced => i <= c /\ i <= synced'
    BY <1>0, <1>1, <1>3
  <2>2. nextId' >= nextId /\ \A k \in Keys : doc'.image[k] < nextId'
    BY <1>0, Numbers DEF Sound, DiskInv, IdsBounded
  <2> QED BY <1>0, <1>3, <2>1, <2>2, TrimDisk DEF Sound
<1>5. SessionInv'
  BY <1>0, <1>3, <1>1, TrimSession DEF Sound, InSession
<1> QED BY <1>0, <1>4, <1>5 DEF Sound, FlightInv, FlushInv, ReplayInv

\* The snapshot replaced by the document, which holds every acknowledged value.
LEMMA WriteSnapshotSound ==
  ASSUME DataOK, DataOK', FileInv, Sound, WriteSnapshot
  PROVE  Sound'
<1>0. /\ pc = "idle" /\ pc' = "rebase" /\ snapshot' = doc
      /\ UNCHANGED <<journal, synced, nextSeq, doc, acked, nextId>>
  BY DEF WriteSnapshot
<1>1. /\ \A m \in acked : m.target \in Keys => doc.image[m.target] >= m.id
      /\ Ahead(doc, 1)
  BY <1>0 DEF Sound, SessionInv, InSession
<1>2. Recoverable' /\ IdsBounded'
  BY <1>0, <1>1, Numbers DEF Sound, DiskInv, Recoverable, IdsBounded
<1>3. Ahead(snapshot, 1)'
  BY <1>0, <1>1 DEF Ahead
<1>4. DiskInv'
  BY <1>0, <1>2, <1>3
    DEF Sound, DiskInv, TornLast, CommitShape, ClosingInOrder, PayloadsInOrder,
        PayloadsSubmitted, Closing, TornAt
<1>5. SessionInv'
  BY <1>0, Numbers DEF Sound, SessionInv, InSession, Closing, Ahead
<1> QED BY <1>0, <1>4, <1>5 DEF Sound, FlightInv, FlushInv, ReplayInv

\* The journal emptied behind a snapshot that holds everything.
LEMMA RebaseJournalSound ==
  ASSUME DataOK, DataOK', FileInv, Sound, RebaseJournal
  PROVE  Sound'
<1>0. /\ pc = "rebase" /\ pc' = "append" /\ step' = "Rebase" /\ journal' = <<>>
      /\ UNCHANGED <<snapshot, nextSeq, doc, acked, nextId>>
  BY DEF RebaseJournal
<1>1. \A i \in 1..Len(journal') : FALSE
  BY <1>0
<1>2. /\ snapshot = doc
      /\ \A m \in acked : m.target \in Keys => doc.image[m.target] >= m.id
      /\ snapshot.lastSeq <= doc.lastSeq /\ doc.lastSeq < nextSeq
  BY <1>0 DEF Sound, SessionInv, InSession
<1>3. Recoverable' /\ IdsBounded'
  BY <1>0, <1>2, Numbers DEF Sound, DiskInv, Recoverable, IdsBounded
<1>4. DiskInv'
  BY <1>1, <1>3
    DEF DiskInv, TornLast, CommitShape, ClosingInOrder, PayloadsInOrder,
        PayloadsSubmitted, Ahead
<1>5. SessionInv'
  BY <1>0, <1>1, <1>2 DEF SessionInv, InSession, Ahead
<1> QED BY <1>0, <1>4, <1>5 DEF Sound, FlightInv, FlushInv, ReplayInv

\* Closing, dying or failing to open: what was flushed is still there.
LEMMA ForgetSound ==
  ASSUME DataOK, DataOK', FileInv, Sound, Forget,
         NEW n \in 0..Len(journal), Trimmed(journal, journal', n),
         \A i \in 1..Len(journal) :
           journal[i].type = "Commit" /\ i <= synced => i <= n /\ i <= synced',
         UNCHANGED <<snapshot, acked, nextId>>
  PROVE  Sound'
<1>0. pc' = "closed" /\ doc' = EmptyDocument
  BY DEF Forget
<1>1. \A k \in Keys : doc'.image[k] < nextId'
  BY <1>0, Numbers DEF EmptyDocument, Sound, DiskInv, IdsBounded
<1>2. DiskInv'
  BY <1>1, TrimDisk, Numbers DEF Sound
<1> QED BY <1>0, <1>2 DEF Sound, SessionInv, InSession, FlightInv, FlushInv, ReplayInv

\* The process dies at any point of any operation.
LEMMA CrashSound ==
  ASSUME DataOK, DataOK', FileInv, Sound, Crash
  PROVE  Sound'
<1>0. Forget /\ UNCHANGED <<snapshot, acked, nextId>>
  BY DEF Crash
<1>1. PICK n \in synced..Len(journal) :
        \E j \in IF n = Len(journal) THEN {journal} ELSE CutShort(n, journal[n + 1]) :
          journal' = j /\ synced' = Len(j)
  BY DEF Crash
<1>2. n \in 0..Len(journal) /\ n >= synced /\ Len(journal) \in Nat /\ synced \in Nat
  BY <1>1, Numbers
<1>3. Trimmed(journal, journal', n) /\ synced' = Len(journal')
  <2>1. CASE n = Len(journal)
    BY <1>1, <1>2, <2>1 DEF Trimmed
  <2>2. CASE n # Len(journal)
    <3>1. n < Len(journal) /\ journal[n + 1] \in JournalRecord
      BY <1>2, <2>2, Numbers
    <3> QED BY <1>1, <1>2, <2>2, <3>1, CutShortTrimmed, Numbers
  <2> QED BY <2>1, <2>2
<1>4. \A i \in 1..Len(journal) : i <= synced => i <= n /\ i <= synced'
  BY <1>2, <1>3 DEF Trimmed
<1> QED BY <1>0, <1>2, <1>3, <1>4, ForgetSound

\* Closing an open store.
LEMMA CloseSound ==
  ASSUME DataOK, DataOK', FileInv, Sound, Close
  PROVE  Sound'
<1>0. Forget /\ UNCHANGED <<journal, synced, snapshot, acked, nextId>>
  BY DEF Close, disk
<1>1. /\ Len(journal) \in 0..Len(journal) /\ Trimmed(journal, journal', Len(journal))
      /\ \A i \in 1..Len(journal) : i <= Len(journal)
  BY <1>0, Numbers DEF Trimmed
<1> QED BY <1>0, <1>1, ForgetSound

\* The torn tail behind the records replay accepted may be cut: it holds no
\* Commit.
LEMMA CutTail ==
  ASSUME DataOK, DataOK', FileInv, Sound, pc = "replay",
         journal' = SubSeq(journal, 1, valid), synced' = valid
  PROVE  /\ valid \in 0..Len(journal) /\ Trimmed(journal, journal', valid)
         /\ \A i \in 1..Len(journal) :
              journal[i].type = "Commit" /\ i <= synced => i <= valid /\ i <= synced'
<1>1. valid \in 0..Len(journal) /\ Len(journal) \in Nat
  BY Numbers DEF FileInv
<1>2. \A i \in 1..Len(journal) : i > valid => journal[i].type \in Torn
  BY DEF Sound, ReplayInv, TornAt
<1>3. Len(journal') = valid /\ \A i \in 1..valid : journal'[i] = journal[i]
  BY <1>1, Numbers
<1>4. Trimmed(journal, journal', valid)
  BY <1>1, <1>3 DEF Trimmed
<1>5. \A i \in 1..Len(journal) : journal[i].type = "Commit" => i <= valid
  BY <1>1, <1>2 DEF Torn
<1> QED BY <1>1, <1>4, <1>5

\* The cut fails, before or after the file was shortened.
LEMMA CutFailsSound ==
  ASSUME DataOK, DataOK', FileInv, Sound, CutFails
  PROVE  Sound'
<1>0. Forget /\ UNCHANGED <<snapshot, acked, nextId>> /\ pc = "replay"
  BY DEF CutFails
<1>1. CASE UNCHANGED <<journal, synced>>
  <2>1. /\ Len(journal) \in 0..Len(journal) /\ Trimmed(journal, journal', Len(journal))
        /\ \A i \in 1..Len(journal) : i <= Len(journal)
    BY <1>1, Numbers DEF Trimmed
  <2> QED BY <1>0, <1>1, <2>1, ForgetSound
<1>2. CASE journal' = SubSeq(journal, 1, valid) /\ synced' = valid
  BY <1>0, <1>2, CutTail, ForgetSound
<1> QED BY <1>1, <1>2, Zenon DEF CutFails

\* Replay starts from the snapshot, with everything in the journal ahead.
LEMMA BeginOpenSound ==
  ASSUME DataOK, DataOK', FileInv, Sound, BeginOpen
  PROVE  Sound'
<1>0. /\ pc' = "replay" /\ doc' = snapshot /\ pos' = 1 /\ pending' = {}
      /\ UNCHANGED <<journal, synced, snapshot, acked, nextId>>
  BY DEF BeginOpen, disk
<1>1. PICK n \in 0..Len(journal) : Accepts(n) /\ valid' = n
  BY DEF BeginOpen
<1>2. \A i \in 1..Len(journal) : i > n => TornAt(i)
  <2> SUFFICES ASSUME NEW i \in 1..Len(journal), i > n PROVE TornAt(i)
    OBVIOUS
  <2>1. n + 1 \in 1..Len(journal) /\ TornAt(n + 1)
    BY <1>1, Numbers DEF Accepts
  <2>2. n + 1 = Len(journal)
    BY <2>1 DEF Sound, DiskInv, TornLast
  <2> QED BY <2>1, <2>2, Numbers
<1>3. DiskInv'
  BY <1>0 DEF Sound, DiskInv, TornLast, CommitShape, ClosingInOrder, PayloadsInOrder,
              PayloadsSubmitted, Ahead, Recoverable, IdsBounded, Closing, TornAt
<1>4. ReplayInv'
  <2>1. /\ \A i \in 1..Len(journal') : i > valid' => TornAt(i)'
        /\ \A i \in 1..valid' : ~TornAt(i)'
    BY <1>0, <1>1, <1>2 DEF Accepts, TornAt
  <2>2. Ahead(doc, pos)'
    BY <1>0 DEF Sound, DiskInv, Ahead
  <2>3. snapshot'.lastSeq <= doc'.lastSeq /\ \A k \in Keys : doc'.image[k] >= snapshot'.image[k]
    BY <1>0, Numbers
  <2>4. \A i \in 1..Len(journal') : ~(i < pos')
    BY <1>0, Numbers
  <2> QED BY <1>0, <2>1, <2>2, <2>3, <2>4 DEF ReplayInv
<1> QED BY <1>0, <1>3, <1>4 DEF Sound, SessionInv, InSession, FlightInv, FlushInv

\* Replay is over: what it applied is what the session starts from.
LEMMA FinishOpenSound ==
  ASSUME DataOK, DataOK', FileInv, Sound, FinishOpen
  PROVE  Sound'
<1>0. /\ pc = "replay" /\ pos > valid /\ pc' = "idle" /\ nextSeq' = doc.lastSeq + 1
      /\ UNCHANGED <<snapshot, acked, nextId>>
  BY DEF ResumeSequence, FinishOpen
<1>1. doc'.lastSeq = doc.lastSeq /\ doc'.image = doc.image
  BY DEF Recovered, FinishOpen, DataOK, DurableDocument
<1>2. PICK n \in 0..Len(journal) :
        /\ Trimmed(journal, journal', n)
        /\ \A i \in 1..Len(journal) :
             journal[i].type = "Commit" /\ i <= synced => i <= n /\ i <= synced'
  <2>1. \/ journal' = SubSeq(journal, 1, valid) /\ synced' = valid
        \/ UNCHANGED <<journal, synced>>
    BY Zenon DEF CutTornTail, FinishOpen
  <2>2. CASE UNCHANGED <<journal, synced>>
    <3>1. /\ Len(journal) \in 0..Len(journal) /\ Trimmed(journal, journal', Len(journal))
          /\ \A i \in 1..Len(journal) : i <= Len(journal)
      BY <2>2, Numbers DEF Trimmed
    <3> QED BY <2>2, <3>1
  <2>3. CASE journal' = SubSeq(journal, 1, valid) /\ synced' = valid
    BY <1>0, <2>3, CutTail
  <2> QED BY <2>1, <2>2, <2>3
<1>3. DiskInv'
  <2>1. nextId' >= nextId /\ \A k \in Keys : doc'.image[k] < nextId'
    BY <1>0, <1>1, Numbers DEF Sound, DiskInv, IdsBounded
  <2> QED BY <1>0, <1>2, <2>1, TrimDisk DEF Sound
<1>4. \A i \in 1..Len(journal) : Closing(i) => i < pos /\ journal[i].seq <= doc.lastSeq
  <2> SUFFICES ASSUME NEW i \in 1..Len(journal), Closing(i)
               PROVE  i < pos /\ journal[i].seq <= doc.lastSeq
    OBVIOUS
  <2>1. ~TornAt(i)
    BY DEF Closing, TornAt, Torn
  <2>2. ~(i > valid)
    BY <1>0, <2>1 DEF Sound, ReplayInv
  <2>3. i < pos
    BY <1>0, <2>2, Numbers
  <2> QED BY <1>0, <2>3 DEF Sound, ReplayInv
<1>5. \A i \in 1..Len(journal') : Closing(i)' => journal'[i].seq <= doc.lastSeq
  <2> SUFFICES ASSUME NEW i \in 1..Len(journal'), Closing(i)'
               PROVE  journal'[i].seq <= doc.lastSeq
    OBVIOUS
  <2>1. i \in 1..Len(journal) /\ journal'[i] = journal[i]
    <3>1. Len(journal) \in Nat /\ Len(journal') \in Nat
      BY Numbers, NumbersNext
    <3>2. journal'[i].type \notin Torn
      BY DEF Closing, Torn
    <3> QED BY <1>2, <3>1, <3>2 DEF Trimmed
  <2> QED BY <1>4, <2>1 DEF Closing
<1>6. \A m \in acked : m.target \in Keys => doc.image[m.target] >= m.id
  <2> SUFFICES ASSUME NEW m \in acked, m.target \in Keys PROVE doc.image[m.target] >= m.id
    OBVIOUS
  <2>1. CASE m.id <= snapshot.image[m.target]
    <3>1. doc.image[m.target] >= snapshot.image[m.target]
      BY <1>0 DEF Sound, ReplayInv
    <3> QED BY <2>1, <3>1, Numbers
  <2>2. CASE ~(m.id <= snapshot.image[m.target])
    <3>1. PICK i \in 1..Len(journal) :
            /\ journal[i].type = "Commit"
            /\ journal[i].seq > snapshot.lastSeq
            /\ journal[i - 1].mut = m
      BY <2>2 DEF Sound, DiskInv, Recoverable
    <3>2. i < pos
      BY <1>4, <3>1 DEF Closing
    <3> QED BY <1>0, <3>1, <3>2 DEF Sound, ReplayInv
  <2> QED BY <2>1, <2>2
<1>7. SessionInv'
  <2>1. \A i \in 1..Len(journal') : Closing(i)' => journal'[i].seq \in Nat
    <3>1. \A i \in 1..Len(journal') : journal'[i] \in JournalRecord
      BY NumbersNext
    <3> QED BY <3>1 DEF JournalRecord
  <2>2. Ahead(doc, 1)'
    <3> SUFFICES ASSUME NEW i \in 1..Len(journal'), journal'[i].type = "Commit",
                        journal'[i].seq > doc.lastSeq
                 PROVE  FALSE
      BY <1>1 DEF Ahead
    <3> QED BY <1>5, <2>1, Numbers, SMTT(30) DEF Closing
  <2>3. \A i \in 1..Len(journal') : Closing(i)' => journal'[i].seq < nextSeq'
    BY <1>0, <1>5, <2>1, Numbers, SMTT(30)
  <2>4. snapshot.lastSeq <= doc.lastSeq /\ doc.lastSeq < nextSeq'
    BY <1>0, Numbers DEF Sound, ReplayInv
  <2> QED BY <1>0, <1>1, <1>6, <2>2, <2>3, <2>4 DEF SessionInv, InSession
<1> QED BY <1>0, <1>3, <1>7 DEF Sound, FlightInv, FlushInv, ReplayInv

\* The Commit that replay meets has its Payload among the pending ones, and no
\* other pending payload has its transaction.
LEMMA PayloadPending ==
  ASSUME DataOK, FileInv, Sound, pc = "replay", pos <= valid,
         journal[pos].type = "Commit", journal[pos].seq > doc.lastSeq
  PROVE  /\ pos \in 1..Len(journal) /\ pos - 1 \in 1..Len(journal)
         /\ journal[pos - 1].type = "Payload"
         /\ Found(journal[pos]) = {[txn |-> journal[pos].txn, mut |-> journal[pos - 1].mut]}
         /\ \A k \in Keys : journal[pos - 1].mut.id > doc.image[k]
<1>1. pos \in 1..Len(journal)
  BY Numbers DEF FileInv
<1>2. /\ pos > 1 /\ journal[pos - 1].type = "Payload"
      /\ journal[pos - 1].txn = journal[pos].txn
  BY <1>1 DEF Sound, DiskInv, CommitShape
<1>3. /\ journal[pos - 1].seq > doc.lastSeq
      /\ \A k \in Keys : journal[pos - 1].mut.id > doc.image[k]
  BY <1>1, Numbers DEF Sound, ReplayInv, Ahead
<1>4. /\ [txn |-> journal[pos - 1].txn, mut |-> journal[pos - 1].mut] \in pending
      /\ \A p, q \in pending : p.txn = q.txn => p = q
  BY <1>2, <1>3 DEF Sound, ReplayInv
<1>5. Found(journal[pos]) = {[txn |-> journal[pos].txn, mut |-> journal[pos - 1].mut]}
  BY <1>2, <1>4 DEF Found
<1> QED BY <1>1, <1>2, <1>3, <1>5, Numbers

\* A Commit or Rebase is replayed: the document moves to its sequence number,
\* and everything behind it is still ahead.
LEMMA ReplayClosing ==
  ASSUME DataOK, DataOK', FileInv, Sound, pc = "replay", pos <= valid,
         Closing(pos), journal[pos].seq > doc.lastSeq,
         pos' = pos + 1, doc'.lastSeq = journal[pos].seq, pending' \subseteq pending,
         \A k \in Keys :
           \/ doc'.image[k] = doc.image[k]
           \/ /\ journal[pos].type = "Commit"
              /\ doc'.image[k] = journal[pos - 1].mut.id,
         journal[pos].type = "Commit" /\ journal[pos - 1].mut.target \in Keys =>
           doc'.image[journal[pos - 1].mut.target] = journal[pos - 1].mut.id,
         UNCHANGED <<journal, snapshot, pc, valid>>
  PROVE  ReplayInv'
<1>0. /\ pos \in 1..Len(journal) /\ Len(journal) \in Nat /\ valid \in Nat
      /\ doc.lastSeq \in Nat /\ snapshot.lastSeq \in Nat
      /\ \A k \in Keys : doc.image[k] \in Nat /\ snapshot.image[k] \in Nat /\ doc'.image[k] \in Nat
  BY Numbers, NumbersNext, SMTT(30) DEF FileInv
<1>1. \A i \in 1..Len(journal) : journal[i].seq \in Nat /\ journal[i].mut.id \in Nat
  BY Fields
<1>2. journal[pos].type = "Commit" =>
        /\ pos - 1 \in 1..Len(journal) /\ journal[pos - 1].type = "Payload"
        /\ \A k \in Keys : journal[pos - 1].mut.id > doc.image[k]
  BY PayloadPending
<1>3. \A k \in Keys : doc'.image[k] >= doc.image[k]
  BY <1>0, <1>1, <1>2
<1>4. \A i \in 1..Len(journal) : i > pos /\ ~TornAt(i) => journal[i].seq > journal[pos].seq
  BY <1>0, <1>1 DEF Sound, DiskInv, ClosingInOrder
<1>5. snapshot.lastSeq <= doc'.lastSeq /\ \A k \in Keys : doc'.image[k] >= snapshot.image[k]
  <2>1. snapshot.lastSeq <= doc.lastSeq /\ \A k \in Keys : doc.image[k] >= snapshot.image[k]
    BY DEF Sound, ReplayInv
  <2>2. snapshot.lastSeq <= journal[pos].seq
    BY <1>0, <1>1, <2>1
  <2>3. ASSUME NEW k \in Keys PROVE doc'.image[k] >= snapshot.image[k]
    <3>1. doc'.image[k] \in Nat /\ doc.image[k] \in Nat /\ snapshot.image[k] \in Nat
      BY <1>0
    <3>2. doc'.image[k] >= doc.image[k] /\ doc.image[k] >= snapshot.image[k]
      BY <1>3, <2>1
    <3> QED BY <3>1, <3>2
  <2> QED BY <2>2, <2>3
<1>6. \A i \in 1..Len(journal) : i < pos' /\ Closing(i) => journal[i].seq <= doc'.lastSeq
  <2> SUFFICES ASSUME NEW i \in 1..Len(journal), i < pos + 1, Closing(i)
               PROVE  journal[i].seq <= journal[pos].seq
    OBVIOUS
  <2>1. CASE i = pos
    BY <1>1, <2>1
  <2>2. CASE i < pos
    <3>1. journal[i].seq <= doc.lastSeq
      BY <2>2 DEF Sound, ReplayInv
    <3> QED BY <1>0, <1>1, <3>1
  <2> QED BY <1>0, <2>1, <2>2
<1>7. \A i \in 1..Len(journal) :
        /\ i < pos' /\ journal[i].type = "Commit" /\ journal[i].seq > snapshot.lastSeq
        /\ journal[i - 1].mut.target \in Keys
        => doc'.image[journal[i - 1].mut.target] >= journal[i - 1].mut.id
  <2> SUFFICES ASSUME NEW i \in 1..Len(journal), i < pos + 1, journal[i].type = "Commit",
                      journal[i].seq > snapshot.lastSeq, journal[i - 1].mut.target \in Keys
               PROVE  doc'.image[journal[i - 1].mut.target] >= journal[i - 1].mut.id
    OBVIOUS
  <2>1. CASE i = pos
    BY <1>1, <1>2, <2>1
  <2>2. CASE i < pos
    <3>1. doc.image[journal[i - 1].mut.target] >= journal[i - 1].mut.id
      BY <2>2 DEF Sound, ReplayInv
    <3>2. i - 1 \in 1..Len(journal)
      BY <1>0 DEF Sound, DiskInv, CommitShape
    <3> DEFINE m == journal[i - 1].mut
    <3>3. doc'.image[m.target] \in Nat /\ doc.image[m.target] \in Nat /\ m.id \in Nat
      BY <1>0, <1>1, <3>2
    <3>4. doc'.image[m.target] >= doc.image[m.target]
      BY <1>3
    <3> QED BY <3>1, <3>3, <3>4
  <2> QED BY <1>0, <2>1, <2>2
<1>8. \A i \in 1..Len(journal) :
        i >= pos' /\ journal[i].type = "Commit" /\ journal[i].seq > snapshot.lastSeq
          => journal[i].seq > doc'.lastSeq
  BY <1>0, <1>4 DEF TornAt, Torn
<1>9. Ahead(doc, pos)'
  <2> SUFFICES ASSUME NEW i \in 1..Len(journal), journal[i].type = "Commit", i >= pos + 1,
                      journal[i].seq > journal[pos].seq
               PROVE  /\ journal[i - 1].seq > journal[pos].seq
                      /\ \A k \in Keys : journal[i - 1].mut.id > doc'.image[k]
    BY DEF Ahead
  <2>1. i - 1 \in 1..Len(journal) /\ journal[i - 1].type = "Payload"
    BY <1>0 DEF Sound, DiskInv, CommitShape
  <2>2. i - 1 > pos
    BY <1>0, <2>1 DEF Closing
  <2>3. journal[i - 1].seq > journal[pos].seq
    BY <1>4, <2>1, <2>2 DEF TornAt, Torn
  <2>4. \A k \in Keys : journal[i - 1].mut.id > doc.image[k]
    <3>1. journal[i].seq > doc.lastSeq /\ i >= pos
      BY <1>0, <1>1
    <3> QED BY <3>1 DEF Sound, ReplayInv, Ahead
  <2>5. journal[pos].type = "Commit" => journal[i - 1].mut.id > journal[pos - 1].mut.id
    <3> SUFFICES ASSUME journal[pos].type = "Commit"
                 PROVE  journal[i - 1].mut.id > journal[pos - 1].mut.id
      OBVIOUS
    <3>1. pos - 1 \in 1..Len(journal) /\ journal[pos - 1].type = "Payload" /\ pos - 1 < i - 1
      BY <1>0, <1>2, <2>2
    <3>2. journal[pos - 1].mut.id < journal[i - 1].mut.id
      BY <2>1, <3>1 DEF Sound, DiskInv, PayloadsInOrder
    <3> QED BY <1>1, <2>1, <3>1, <3>2
  <2> QED BY <2>3, <2>4, <2>5
<1>10. \A p, q \in pending' : p.txn = q.txn => p = q
  BY DEF Sound, ReplayInv
<1>11. pos' - 1 = pos /\ journal[pos].type # "Payload"
  BY <1>0 DEF Closing
<1>12. /\ \A i \in 1..Len(journal') : i > valid' => TornAt(i)'
       /\ \A i \in 1..valid' : ~TornAt(i)'
  BY DEF Sound, ReplayInv, TornAt
<1> HIDE DEF Closing
<1> QED BY <1>5, <1>6, <1>7, <1>8, <1>9, <1>10, <1>11, <1>12 DEF ReplayInv, Closing

\* A record is replayed that leaves the document as it is.
LEMMA ReplayPassing ==
  ASSUME DataOK, DataOK', FileInv, Sound, pc = "replay", pos <= valid,
         pos' = pos + 1, doc' = doc,
         Closing(pos) => journal[pos].seq <= doc.lastSeq,
         ~(journal[pos].type = "Commit" /\ journal[pos].seq > snapshot.lastSeq),
         \A p, q \in pending' : p.txn = q.txn => p = q,
         journal[pos].type = "Payload" /\ journal[pos].seq > doc.lastSeq =>
           [txn |-> journal[pos].txn, mut |-> journal[pos].mut] \in pending',
         UNCHANGED <<journal, snapshot, pc, valid>>
  PROVE  ReplayInv'
<1>0. pos \in 1..Len(journal) /\ Len(journal) \in Nat
  BY Numbers DEF FileInv
<1>1. /\ \A i \in 1..Len(journal) : i < pos + 1 => i = pos \/ i < pos
      /\ \A i \in 1..Len(journal) : i >= pos + 1 => i >= pos
      /\ pos + 1 - 1 = pos
  BY <1>0
<1>2. \A i \in 1..Len(journal) : i < pos' /\ Closing(i) => journal[i].seq <= doc.lastSeq
  BY <1>1 DEF Sound, ReplayInv
<1>3. \A i \in 1..Len(journal) :
        /\ i < pos' /\ journal[i].type = "Commit" /\ journal[i].seq > snapshot.lastSeq
        /\ journal[i - 1].mut.target \in Keys
        => doc.image[journal[i - 1].mut.target] >= journal[i - 1].mut.id
  <2> SUFFICES ASSUME NEW i \in 1..Len(journal), i < pos + 1, journal[i].type = "Commit",
                      journal[i].seq > snapshot.lastSeq, journal[i - 1].mut.target \in Keys
               PROVE  doc.image[journal[i - 1].mut.target] >= journal[i - 1].mut.id
    OBVIOUS
  <2>1. i < pos
    BY <1>1
  <2> QED BY <2>1 DEF Sound, ReplayInv
<1>4. \A i \in 1..Len(journal) :
        i >= pos' /\ journal[i].type = "Commit" /\ journal[i].seq > snapshot.lastSeq
          => journal[i].seq > doc.lastSeq
  BY <1>1 DEF Sound, ReplayInv
<1>5. Ahead(doc, pos)'
  <2> SUFFICES ASSUME NEW i \in 1..Len(journal), journal[i].type = "Commit", i >= pos + 1,
                      journal[i].seq > doc.lastSeq
               PROVE  /\ journal[i - 1].seq > doc.lastSeq
                      /\ \A k \in Keys : journal[i - 1].mut.id > doc.image[k]
    BY DEF Ahead
  <2>1. i >= pos
    BY <1>1
  <2> QED BY <2>1 DEF Sound, ReplayInv, Ahead
<1>6. /\ \A i \in 1..Len(journal') : i > valid' => TornAt(i)'
      /\ \A i \in 1..valid' : ~TornAt(i)'
      /\ snapshot.lastSeq <= doc.lastSeq
      /\ \A k \in Keys : doc.image[k] >= snapshot.image[k]
  BY DEF Sound, ReplayInv, TornAt
<1>7. pos' > 1 /\ journal'[pos' - 1].type = "Payload" /\ journal'[pos' - 1].seq > doc'.lastSeq
        => [txn |-> journal'[pos' - 1].txn, mut |-> journal'[pos' - 1].mut] \in pending'
  <2>1. pos' - 1 = pos
    BY <1>0
  <2>2. journal' = journal /\ doc' = doc
    OBVIOUS
  <2> QED BY <2>1, <2>2
<1>8. \A i \in 1..Len(journal') : i < pos' /\ Closing(i)' => journal'[i].seq <= doc'.lastSeq
  BY <1>2 DEF Closing
<1> QED BY <1>3, <1>4, <1>5, <1>6, <1>7, <1>8 DEF ReplayInv

\* One record of the replay loop.
LEMMA ReplayRecordSound ==
  ASSUME DataOK, DataOK', FileInv, Sound, ReplayRecord
  PROVE  Sound'
<1> DEFINE r == journal[pos]
<1>0. /\ pc = "replay" /\ pos <= valid /\ pos' = pos + 1
      /\ UNCHANGED <<journal, synced, snapshot, pc, valid, acked, nextId>>
  BY DEF ReplayRecord, disk
<1>1. pos \in 1..Len(journal) /\ r.seq \in Nat /\ doc.lastSeq \in Nat
  BY <1>0, Numbers, Fields DEF FileInv
<1>2. ASSUME ReplayInv', \A k \in Keys : doc'.image[k] < nextId PROVE Sound'
  <2>1. DiskInv'
    BY <1>0, <1>2 DEF Sound, DiskInv, TornLast, CommitShape, ClosingInOrder, PayloadsInOrder,
                PayloadsSubmitted, Ahead, Recoverable, IdsBounded, Closing, TornAt
  <2> QED BY <1>0, <1>2, <2>1 DEF Sound, SessionInv, InSession, FlightInv, FlushInv
<1>3. CASE Skipped(r) /\ UNCHANGED <<doc, pending>>
  <2>1. r.type \in {"Commit", "Payload"} => r.seq <= doc.lastSeq
    <3>1. r.type = "Payload" => r.seq <= doc.lastSeq
      BY <1>1, <1>3 DEF Fresh, Skipped
    <3>2. r.type = "Commit" => r.seq <= doc.lastSeq
      <4> SUFFICES ASSUME r.type = "Commit", r.seq > doc.lastSeq PROVE FALSE
        BY <1>1
      <4>1. Found(r) # {}
        BY <1>0, PayloadPending
      <4> QED BY <1>1, <1>3, <4>1 DEF Fresh, Skipped
    <3> QED BY <3>1, <3>2
  <2>2. Closing(pos) => r.seq <= doc.lastSeq
    BY <1>1, <1>3, <2>1 DEF Fresh, Closing, Skipped
  <2>3. ~(r.type = "Commit" /\ r.seq > snapshot.lastSeq)
    <3> SUFFICES ASSUME r.type = "Commit", r.seq > snapshot.lastSeq PROVE FALSE
      OBVIOUS
    <3>1. pos >= pos
      BY <1>1
    <3>2. r.seq > doc.lastSeq
      BY <1>0, <1>1, <3>1 DEF Sound, ReplayInv
    <3> QED BY <1>1, <2>1, <3>2
  <2>4. /\ \A p, q \in pending' : p.txn = q.txn => p = q
        /\ ~(r.type = "Payload" /\ r.seq > doc.lastSeq)
    BY <1>0, <1>1, <1>3, <2>1 DEF Sound, ReplayInv
  <2>5. ReplayInv'
    BY <1>0, <1>3, <2>2, <2>3, <2>4, ReplayPassing
  <2> QED BY <1>2, <1>3, <2>5 DEF Sound, DiskInv, IdsBounded
<1>4. CASE /\ r.seq > doc.lastSeq /\ r.type = "Payload"
           /\ pending' = (pending \ Found(r)) \cup {[txn |-> r.txn, mut |-> r.mut]}
           /\ doc' = doc
  <2>1. \A p, q \in pending' : p.txn = q.txn => p = q
    <3>1. \A p, q \in pending : p.txn = q.txn => p = q
      BY <1>0 DEF Sound, ReplayInv
    <3> QED BY <1>4, <3>1 DEF Found
  <2>2. [txn |-> r.txn, mut |-> r.mut] \in pending'
    BY <1>4
  <2>3. ~Closing(pos) /\ r.type # "Commit"
    BY <1>4 DEF Closing
  <2>4. ReplayInv'
    BY <1>0, <1>4, <2>1, <2>2, <2>3, ReplayPassing
  <2> QED BY <1>2, <1>4, <2>4 DEF Sound, DiskInv, IdsBounded
<1>5. ASSUME r.seq > doc.lastSeq, r.type = "Commit", NEW p \in Found(r),
             doc' = [Apply(doc, p.mut) EXCEPT !.lastSeq = r.seq],
             pending' = pending \ Found(r)
      PROVE  Sound'
  <2>1. /\ pos - 1 \in 1..Len(journal) /\ journal[pos - 1].type = "Payload"
        /\ p.mut = journal[pos - 1].mut
    BY <1>0, <1>5, PayloadPending
  <2>2. p.mut \in Mutation /\ p.mut.id < nextId
    BY <2>1 DEF Sound, DiskInv, PayloadsSubmitted
  <2>3. /\ doc'.lastSeq = r.seq
        /\ \A k \in Keys : doc'.image[k] = IF k = p.mut.target THEN p.mut.id ELSE doc.image[k]
    <3>1. doc \in DurableDocument /\ Apply(doc, p.mut) \in DurableDocument
      BY <2>2, ApplyType DEF DataOK, MutationSlot
    <3>2. \A k \in Keys : Apply(doc, p.mut).image[k] = IF k = p.mut.target THEN p.mut.id ELSE doc.image[k]
      BY <2>2, <3>1, ApplyValue
    <3> QED BY <1>5, <3>1, <3>2 DEF DurableDocument
  <2>4. ReplayInv'
    <3>1. Closing(pos)
      BY <1>5 DEF Closing
    <3> QED BY <1>0, <1>5, <2>1, <2>3, <3>1, ReplayClosing
  <2> QED BY <1>2, <2>2, <2>3, <2>4 DEF Sound, DiskInv, IdsBounded
<1>6. CASE /\ r.seq > doc.lastSeq /\ r.type = "Rebase"
           /\ doc' = [doc EXCEPT !.lastSeq = r.seq]
           /\ pending' = pending
  <2>1. doc'.lastSeq = r.seq /\ doc'.image = doc.image
    BY <1>6 DEF DataOK, DurableDocument
  <2>2. ReplayInv'
    <3>1. Closing(pos) /\ r.type # "Commit"
      BY <1>6 DEF Closing
    <3> QED BY <1>0, <1>6, <2>1, <3>1, ReplayClosing
  <2> QED BY <1>2, <2>1, <2>2 DEF Sound, DiskInv, IdsBounded
<1>7. QED BY <1>3, <1>4, <1>5, <1>6, Zenon DEF Fresh, ReplayRecord

-----------------------------------------------------------------------------
(* The theorem *)

\* Every step of the store keeps the inductive invariant.
LEMMA IInvStep ==
  IInv /\ [Next]_vars => IInv'
<1> SUFFICES ASSUME IInv, [Next]_vars PROVE IInv'
  OBVIOUS
<1>1. DataOK' /\ FileInv' /\ FlagsOK' /\ DataOK /\ FileInv /\ FlagsOK
  BY DataStep, FlagsStep DEF IInv, TypeOK
<1>2. SUFFICES ASSUME ~buried' PROVE Sound'
  BY <1>1 DEF IInv, TypeOK
<1>3. ~buried
  BY <1>2, Zenon DEF Next, vars, BeginCommit, AppendRecord, AppendRefused, ShortWrite, SyncRecord,
         FinishCommit, SyncFails, WriteSnapshot, RebaseJournal, RebaseFails,
         FinishRebase, BeginOpen, OpenRefused, ReplayRecord, FinishOpen, CutFails,
         Close, Crash
<1>4. Sound
  BY <1>3 DEF IInv
<1>5. CASE AppendRecord
  <2>1. ~TornTail
    BY <1>2, <1>5, Zenon DEF AppendRecord
  <2> QED BY <1>1, <1>4, <1>5, <2>1, AppendRecordSound
<1>6. CASE ShortWrite
  <2>1. ~TornTail
    BY <1>2, <1>6, Zenon DEF ShortWrite
  <2> QED BY <1>1, <1>4, <1>6, <2>1, ShortWriteSound
<1>7. CASE AppendRefused \/ RebaseFails
  <2>1. /\ pc \in {"append", "rebase"} /\ pc' = "idle"
        /\ UNCHANGED <<journal, synced, snapshot, nextSeq, doc, acked, nextId>>
    BY <1>7 DEF AppendRefused, RebaseFails, disk
  <2> QED BY <1>1, <1>4, <2>1, BackToIdleSound
<1>8. CASE SyncRecord \/ FinishRebase
  <2>1. pc = "sync"
    BY <1>8 DEF SyncRecord, FinishRebase
  <2> QED BY <1>1, <1>4, <1>8, <2>1, FlushedSound
<1>9. CASE UNCHANGED vars
  BY <1>4, <1>9, SMTT(30)
    DEF vars, Sound, DiskInv, SessionInv, FlightInv, FlushInv, ReplayInv, TornLast,
        CommitShape, ClosingInOrder, PayloadsInOrder, PayloadsSubmitted, Ahead,
        Recoverable, IdsBounded, Closing, TornAt, InSession
<1>10. CASE OpenRefused
  BY <1>9, <1>10 DEF OpenRefused
<1> QED BY <1>1, <1>4, <1>5, <1>6, <1>7, <1>8, <1>9, <1>10, BeginCommitSound,
           FinishCommitSound, SyncFailsSound, WriteSnapshotSound, RebaseJournalSound,
           BeginOpenSound, ReplayRecordSound, FinishOpenSound, CutFailsSound,
           CloseSound, CrashSound DEF Next

\* The inductive invariant of the store, from which the theorems below follow.
THEOREM Invariance == Spec => []IInv
<1>1. Init => IInv
  <2>1. Init => TypeOK /\ FileInv
    <3>1. EmptyDocument \in DurableDocument
      BY DEF EmptyDocument, DurableDocument
    <3>2. Init => DataOK /\ FileInv
      BY <3>1 DEF Init, DataOK, FileInv, RecordType, MutationSlot
    <3>3. Init => FlagsOK
      BY DEF Init, FlagsOK
    <3> QED BY <3>2, <3>3 DEF TypeOK
  <2>2. Init => Sound
    <3> SUFFICES ASSUME Init PROVE Sound
      OBVIOUS
    <3>1. /\ \A i \in 1..Len(journal) : FALSE
          /\ acked = {} /\ pc = "closed" /\ nextId = 1
          /\ \A k \in Keys : snapshot.image[k] = 0 /\ doc.image[k] = 0
      BY DEF Init, EmptyDocument
    <3> QED BY <3>1
         DEF Sound, DiskInv, SessionInv, FlightInv, FlushInv, ReplayInv, TornLast,
             CommitShape, ClosingInOrder, PayloadsInOrder, PayloadsSubmitted, Ahead,
             Recoverable, IdsBounded, InSession
  <2> QED BY <2>1, <2>2 DEF IInv
<1> QED BY <1>1, IInvStep, PTL DEF Spec

\* A mutation Store::commit acknowledged is never lost: through crashes at any
\* point, checkpoints, I/O errors and any number of restarts, every session
\* sees it or a later one under its key, unless a record was appended behind
\* torn bytes.
THEOREM Durability == Spec => []AckedValueSurvives
<1>1. IInv => AckedValueSurvives
  BY DEF IInv, Sound, SessionInv, AckedValueSurvives
<1> QED BY <1>1, Invariance, PTL

-----------------------------------------------------------------------------
(***************************************************************************)
(* Second part: what replay puts into the document, proved without the     *)
(* exception that IInv makes for records appended behind torn bytes.       *)
(*                                                                         *)
(* Store::open reads the journal up to its first torn record, so the order *)
(* of sequence numbers and of mutations is needed only for the records     *)
(* before it, the head of the file.  Nothing is ever inserted into the     *)
(* head: it grows by appends to a file without torn bytes, and shrinks.    *)
(***************************************************************************)

-----------------------------------------------------------------------------
(* The inductive invariant *)

\* Record i of the journal j is in its head: no torn bytes up to it.
InHead(j, i) == \A k \in 1..i : j[k].type \notin Torn

Closes(r) == r.type \in {"Commit", "Rebase"}

\* All history entries of the document d are older than mutation v.
Older(d, v) == \A e \in 1..Len(d.history) : d.history[e] < v

\* The Commits of the head from position p on that lie beyond the document d
\* do so with their Payload, and are newer than the history of d.
Unread(j, d, p) ==
  \A i \in 1..Len(j) :
    i >= p /\ j[i].type = "Commit" /\ InHead(j, i) /\ j[i].seq > d.lastSeq =>
      j[i - 1].seq > d.lastSeq /\ Older(d, j[i - 1].mut.id)

\* The Commits and Rebases in the head have sequence numbers below v.
Below(j, v) == \A i \in 1..Len(j) : Closes(j[i]) /\ InHead(j, i) => j[i].seq < v

\* The mutation of a Commit record was committed.
CommitsWritten ==
  \A i \in 1..Len(journal) : journal[i].type = "Commit" => journal[i - 1].mut \in written

\* In the head, a record behind a Commit or Rebase has a larger sequence.
HeadInOrder ==
  \A i, k \in 1..Len(journal) :
    i < k /\ Closes(journal[i]) /\ InHead(journal, k) => journal[i].seq < journal[k].seq

\* What is written was submitted before.
WrittenSubmitted == \A m \in written : m \in Mutation /\ m.id < nextId

HeadInv ==
  CommitShape /\ PayloadsInOrder /\ PayloadsSubmitted /\ CommitsWritten /\ HeadInOrder

\* A document holds committed mutations, its history in their order.
Documented(d) ==
  /\ \A k \in Keys : d.image[k] # 0 => [id |-> d.image[k], target |-> k] \in written
  /\ \A e \in 1..Len(d.history) : [id |-> d.history[e], target |-> History] \in written
  /\ \A e, f \in 1..Len(d.history) : e < f => d.history[e] < d.history[f]

DocsInv ==
  /\ WrittenSubmitted
  /\ Documented(doc)
  /\ Documented(snapshot)
  /\ Unread(journal, snapshot, 1)

OpenInv ==
  InSession =>
    /\ snapshot.lastSeq <= doc.lastSeq
    /\ doc.lastSeq < nextSeq
    /\ Below(journal, nextSeq)
    /\ Unread(journal, doc, 1)

InCommit == pc \in {"append", "sync"} /\ step # "Rebase"

PayloadLast ==
  LET n == Len(journal) IN
  /\ n > 0
  /\ journal[n].type = "Payload" /\ journal[n].txn = txn
  /\ journal[n].mut = mut
  /\ nextSeq = journal[n].seq + 1
  /\ journal[n].seq > doc.lastSeq

CommitInv ==
  InCommit =>
    /\ mut.id < nextId
    /\ Older(snapshot, mut.id) /\ Older(doc, mut.id)
    /\ step = "Intent" \/ (step = "Payload" /\ pc = "append") =>
         \A i \in 1..Len(journal) : journal[i].type = "Payload" => journal[i].mut.id < mut.id
    /\ (step = "Payload" /\ pc = "sync") \/ (step = "Commit" /\ pc = "append") => PayloadLast
    /\ step = "Commit" /\ pc = "sync" => mut \in written

LoopInv ==
  pc = "replay" =>
    /\ \A i \in 1..valid : ~TornAt(i)
    /\ valid < Len(journal) => TornAt(valid + 1)
    /\ snapshot.lastSeq <= doc.lastSeq
    /\ \A i \in 1..Len(journal) :
         i < pos /\ Closes(journal[i]) => journal[i].seq <= doc.lastSeq
    /\ Unread(journal, doc, pos)
    /\ \A p, q \in pending : p.txn = q.txn => p = q
    /\ pos > 1 /\ journal[pos - 1].type = "Payload" /\ journal[pos - 1].seq > doc.lastSeq
         => [txn |-> journal[pos - 1].txn, mut |-> journal[pos - 1].mut] \in pending

ReadInv == HeadInv /\ DocsInv /\ OpenInv /\ CommitInv /\ LoopInv

\* Torn bytes in an open file that no append of the session left are the first
\* bytes of it; replay leaves a file uncut only when its head is all or none.
TailInv ==
  /\ TornTailCut
  /\ pc = "replay" =>
       /\ \A i \in 1..valid : ~TornAt(i)
       /\ valid < Len(journal) => TornAt(valid + 1)
       /\ cut \/ valid = Len(journal) \/ valid = 0

-----------------------------------------------------------------------------
(* Steps as seen by the file *)

\* The file keeps its first n records and no other, but for torn bytes behind
\* them: what every step except a whole append does.
Kept(n) ==
  /\ n \in 0..Len(journal)
  /\ Len(journal') = n \/ (Len(journal') = n + 1 /\ journal'[n + 1].type \in Torn)
  /\ \A i \in 1..n : journal'[i] = journal[i]

\* A file that did not change.
LEMMA UnchangedKept ==
  ASSUME DataOK, journal' = journal
  PROVE  Kept(Len(journal))
BY DEF DataOK, Kept

\* A short write.
LEMMA ShortWriteKept ==
  ASSUME DataOK, ShortWrite
  PROVE  /\ Kept(Len(journal))
         /\ Len(journal') = Len(journal) + 1
<1>1. PICK r \in TornForms(Record) : journal' = Append(journal, r)
  BY DEF ShortWrite
<1>2. r \in JournalRecord /\ r.type \in Torn
  BY RecordType_, TornFormsType
<1> QED BY <1>1, <1>2, Numbers DEF Kept

\* A flush that fails: the file loses at most its last record, and ends with
\* torn bytes when the session knows of them.
LEMMA SyncFailsKept ==
  ASSUME DataOK, FileInv, SyncFails
  PROVE  \E n \in 0..Len(journal) :
           /\ Kept(n)
           /\ synced <= n
           /\ Len(journal') <= Len(journal)
           /\ n < Len(journal) /\ Len(journal') = n + 1 => short'
<1> DEFINE n == Len(journal)
<1>1. n \in Nat /\ n > synced /\ n - 1 \in 0..n /\ n - 1 < n /\ journal[n] \in JournalRecord
  BY Numbers DEF SyncFails, FileInv
<1>2. PICK j \in {journal} \cup CutShort(n - 1, journal[n]) :
        /\ journal' = j
        /\ short' = (short \/ (j # <<>> /\ j[Len(j)].type \in Torn))
  BY DEF SyncFails
<1>3. CASE j = journal
  BY <1>1, <1>2, <1>3, UnchangedKept, Numbers
<1>4. CASE j \in CutShort(n - 1, journal[n])
  <2>1. Trimmed(journal, j, n - 1)
    BY <1>1, <1>4, Numbers, CutShortTrimmed
  <2>2. Kept(n - 1)
    BY <1>1, <1>2, <2>1 DEF Trimmed, Kept
  <2>3. Len(journal') = n => short'
    <3>1. Len(j) = n => j # <<>> /\ j[Len(j)].type \in Torn
      BY <1>1, <2>1 DEF Trimmed
    <3> QED BY <1>2, <3>1, Zenon
  <2>4. Len(journal') <= n
    BY <1>1, <1>2, <2>1 DEF Trimmed
  <2> QED BY <1>1, <2>2, <2>3, <2>4, Numbers
<1> QED BY <1>2, <1>3, <1>4

\* A crash: the file keeps a prefix, and perhaps a part of the next record.
LEMMA CrashKept ==
  ASSUME DataOK, FileInv, Crash
  PROVE  synced' = Len(journal') /\ \E n \in 0..Len(journal) : Kept(n) /\ synced <= n
<1>0. Len(journal) \in Nat /\ synced \in Nat
  BY Numbers
<1>1. PICK n \in synced..Len(journal) :
        \E j \in IF n = Len(journal) THEN {journal} ELSE CutShort(n, journal[n + 1]) :
          journal' = j /\ synced' = Len(j)
  BY DEF Crash
<1>2. CASE n = Len(journal)
  <2>1. journal' = journal
    BY <1>1, <1>2
  <2> QED BY <1>0, <1>1, <2>1, UnchangedKept
<1>3. CASE n # Len(journal)
  <2>1. n \in 0..Len(journal) /\ n < Len(journal) /\ journal[n + 1] \in JournalRecord
    BY <1>0, <1>3, Numbers
  <2>2. journal' \in CutShort(n, journal[n + 1])
    BY <1>1, <1>3
  <2>3. Trimmed(journal, journal', n)
    BY <2>1, <2>2, Numbers, CutShortTrimmed
  <2> QED BY <1>0, <1>1, <2>1, <2>3 DEF Trimmed, Kept
<1> QED BY <1>2, <1>3

\* Cutting the torn tail leaves the head.
LEMMA CutKept ==
  ASSUME DataOK, valid <= Len(journal), journal' = SubSeq(journal, 1, valid)
  PROVE  Kept(valid) /\ Len(journal') = valid
BY Numbers DEF Kept

\* An emptied file.
LEMMA EmptiedKept ==
  ASSUME DataOK, journal' = <<>>
  PROVE  Kept(0)
BY Numbers DEF Kept

\* A record of the kept file that is not torn was there before.
LEMMA KeptRecord ==
  ASSUME DataOK, DataOK', NEW n \in 0..Len(journal), Kept(n),
         NEW i \in 1..Len(journal'), journal'[i].type \notin Torn
  PROVE  i <= n /\ i \in 1..Len(journal) /\ journal'[i] = journal[i]
<1>1. Len(journal) \in Nat /\ Len(journal') \in Nat
  BY Numbers, NumbersNext
<1>2. i <= n
  BY <1>1 DEF Kept
<1> QED BY <1>1, <1>2 DEF Kept

-----------------------------------------------------------------------------
(* Torn tails *)

\* Every step of the store keeps TailInv.
LEMMA TailStep ==
  DataOK /\ DataOK' /\ FileInv /\ TailInv /\ [Next]_vars => TailInv'
<1> SUFFICES ASSUME DataOK, DataOK', FileInv, TailInv, [Next]_vars PROVE TailInv'
  OBVIOUS
<1>0. Len(journal) \in Nat /\ Len(journal') \in Nat /\ Len(journal) \in 0..Len(journal)
      /\ valid \in Nat
  BY Numbers, NumbersNext
<1>1. ASSUME InSession, InSession', journal' = journal, short' = short PROVE TailInv'
  BY <1>1 DEF TailInv, TornTailCut, TornAt, InSession
<1>2. ASSUME short' = TRUE, InSession' PROVE TailInv'
  BY <1>2 DEF TailInv, TornTailCut, InSession
<1>3. ASSUME pc' = "closed" PROVE TailInv'
  BY <1>3 DEF TailInv, TornTailCut, InSession
<1>4. ASSUME NEW t \in Targets, BeginCommit(t) PROVE TailInv'
  BY <1>1, <1>4 DEF BeginCommit, disk, InSession
<1>5. CASE AppendRecord
  <2>1. Record \in JournalRecord /\ Record.type \notin Torn
    BY RecordType_ DEF DataOK, Record, RecordType, Torn
  <2>2. journal' = Append(journal, Record) /\ short' = short /\ pc' = "sync" /\ pc = "append"
    BY <1>5 DEF AppendRecord
  <2>3. /\ Len(journal') = Len(journal) + 1
        /\ journal'[Len(journal) + 1] = Record
        /\ \A i \in 1..Len(journal) : journal'[i] = journal[i]
    BY <2>1, <2>2, Numbers
  <2>4. TornTailCut'
    <3> SUFFICES ASSUME ~short, NEW i \in 1..Len(journal'), TornAt(i)' PROVE TornAt(1)'
      BY <2>2 DEF TornTailCut
    <3>1. i \in 1..Len(journal) /\ journal'[i] = journal[i] /\ journal'[1] = journal[1]
      BY <1>0, <2>1, <2>3 DEF TornAt
    <3> QED BY <2>2, <3>1 DEF TailInv, TornTailCut, TornAt, InSession
  <2> QED BY <2>2, <2>4 DEF TailInv
<1>6. CASE AppendRefused
  BY <1>1, <1>6 DEF AppendRefused, disk, InSession
<1>7. CASE ShortWrite
  BY <1>2, <1>7 DEF ShortWrite, InSession
<1>8. CASE SyncRecord
  BY <1>1, <1>8 DEF SyncRecord, InSession
<1>9. CASE FinishCommit
  BY <1>1, <1>9 DEF FinishCommit, InSession
<1>10. CASE SyncFails
  <2>1. pc = "sync" /\ pc' = "idle" /\ (short => short')
    BY <1>10 DEF SyncFails
  <2>2. PICK n \in 0..Len(journal) :
          /\ Kept(n)
          /\ synced <= n
          /\ Len(journal') <= Len(journal)
          /\ n < Len(journal) /\ Len(journal') = n + 1 => short'
    BY <1>10, SyncFailsKept
  <2> SUFFICES ASSUME ~short', NEW i \in 1..Len(journal'), TornAt(i)' PROVE TornAt(1)'
    BY <2>1 DEF TailInv, TornTailCut
  <2>3. ~short
    BY <2>1
  <2>4. CASE Len(journal') = n
    <3>1. i \in 1..Len(journal) /\ journal'[i] = journal[i] /\ journal'[1] = journal[1]
      BY <1>0, <2>2, <2>4 DEF Kept
    <3> QED BY <2>1, <2>3, <3>1 DEF TailInv, TornTailCut, TornAt, InSession
  <2>5. Len(journal') = n
    BY <1>0, <2>2 DEF Kept
  <2> QED BY <2>4, <2>5
<1>11. CASE WriteSnapshot
  BY <1>1, <1>11 DEF WriteSnapshot, InSession
<1>12. CASE RebaseJournal
  BY <1>12 DEF RebaseJournal, TailInv, TornTailCut
<1>13. CASE RebaseFails
  BY <1>1, <1>13 DEF RebaseFails, disk, InSession
<1>14. CASE FinishRebase
  BY <1>1, <1>14 DEF FinishRebase, InSession
<1>15. CASE BeginOpen
  <2>1. PICK n \in 0..Len(journal) :
          /\ Accepts(n) /\ valid' = n
          /\ \E s \in ReplayStatus(n) \ {"Corrupt"} : cut' = (s = "TruncatedTail")
    BY <1>15 DEF BeginOpen
  <2>2. journal' = journal /\ pc' = "replay"
    BY <1>15 DEF BeginOpen, disk
  <2>3. cut' \/ n = Len(journal) \/ n = 0
    <3> SUFFICES ASSUME n # Len(journal), n # 0 PROVE cut'
      OBVIOUS
    <3>1. n > 0
      BY <1>0
    <3>2. ReplayStatus(n) \subseteq {"TruncatedTail", "Corrupt"}
      BY <3>1 DEF ReplayStatus
    <3> QED BY <2>1, <3>2
  <2>4. /\ \A i \in 1..valid' : ~TornAt(i)'
        /\ valid' < Len(journal') => TornAt(valid + 1)'
    BY <2>1, <2>2 DEF Accepts, TornAt
  <2>5. TornTailCut'
    BY <2>2 DEF TornTailCut, InSession
  <2> QED BY <2>1, <2>2, <2>3, <2>4, <2>5 DEF TailInv
<1>16. CASE OpenRefused \/ UNCHANGED vars
  BY <1>16 DEF OpenRefused, vars, TailInv, TornTailCut, TornAt, InSession
<1>17. CASE ReplayRecord
  BY <1>17 DEF ReplayRecord, disk, TailInv, TornTailCut, TornAt, InSession
<1>18. CASE FinishOpen
  <2>1. pc = "replay" /\ pc' = "idle" /\ CutTornTail /\ valid <= Len(journal)
    BY <1>18 DEF FinishOpen, FileInv
  <2>2. /\ \A i \in 1..valid : ~TornAt(i)
        /\ valid < Len(journal) => TornAt(valid + 1)
        /\ cut \/ valid = Len(journal) \/ valid = 0
    BY <2>1 DEF TailInv
  <2> SUFFICES ASSUME NEW i \in 1..Len(journal'), TornAt(i)' PROVE TornAt(1)'
    BY <2>1 DEF TailInv, TornTailCut
  <2>3. CASE journal' = SubSeq(journal, 1, valid)
    <3>1. Kept(valid) /\ Len(journal') = valid
      BY <2>1, <2>3, CutKept
    <3> QED BY <1>0, <2>2, <3>1 DEF Kept, TornAt
  <2>4. CASE ~cut /\ journal' = journal
    <3>1. valid = 0 \/ valid = Len(journal)
      BY <2>2, <2>4
    <3>2. TornAt(i) /\ i \in 1..Len(journal)
      BY <2>4 DEF TornAt
    <3> QED BY <1>0, <2>2, <2>4, <3>1, <3>2 DEF TornAt
  <2> QED BY <2>1, <2>3, <2>4 DEF CutTornTail
<1>19. CASE CutFails
  BY <1>3, <1>19 DEF CutFails, Forget
<1>20. CASE Close
  BY <1>3, <1>20 DEF Close, Forget
<1>21. CASE Crash
  BY <1>3, <1>21 DEF Crash, Forget
<1> QED BY <1>4, <1>5, <1>6, <1>7, <1>8, <1>9, <1>10, <1>11, <1>12, <1>13, <1>14,
           <1>15, <1>16, <1>17, <1>18, <1>19, <1>20, <1>21 DEF Next

\* Store::open leaves no torn bytes behind a whole record: in a session whose
\* own appends did not fail half way, torn bytes are the first of the file or
\* there are none, whatever crashed or failed before.
THEOREM TornTailsAreCut == Spec => []TornTailCut
<1>1. Init => TailInv
  BY DEF Init, TailInv, TornTailCut, InSession
<1>2. IInv /\ IInv' => DataOK /\ DataOK' /\ FileInv
  BY DEF IInv, TypeOK
<1>3. TailInv => TornTailCut
  BY DEF TailInv
<1> QED BY <1>1, <1>2, <1>3, TailStep, Invariance, PTL DEF Spec

-----------------------------------------------------------------------------
(* The head of the file *)

\* What is in the head of the kept file was in the head before.
LEMMA KeptInHead ==
  ASSUME DataOK, DataOK', NEW n \in 0..Len(journal), Kept(n),
         NEW i \in 1..Len(journal'), InHead(journal', i)
  PROVE  i <= n /\ i \in 1..Len(journal) /\ journal'[i] = journal[i] /\ InHead(journal, i)
<1>1. Len(journal) \in Nat /\ Len(journal') \in Nat
  BY Numbers, NumbersNext
<1>2. journal'[i].type \notin Torn
  BY <1>1 DEF InHead
<1>3. i <= n /\ i \in 1..Len(journal) /\ journal'[i] = journal[i]
  BY <1>2, KeptRecord
<1>4. InHead(journal, i)
  BY <1>1, <1>3 DEF InHead, Kept
<1> QED BY <1>3, <1>4

\* Losing records from the end keeps the order of the rest.
LEMMA KeptHead ==
  ASSUME DataOK, DataOK', HeadInv, NEW n \in 0..Len(journal), Kept(n),
         written \subseteq written', nextId <= nextId'
  PROVE  HeadInv'
<1>0. /\ Len(journal) \in Nat /\ Len(journal') \in Nat
      /\ nextId \in Nat /\ nextId' \in Nat
  BY Numbers, NumbersNext
<1>1. \A i \in 1..Len(journal') : journal'[i].type \in {"Commit", "Payload", "Rebase"} =>
        i <= n /\ i \in 1..Len(journal) /\ journal'[i] = journal[i]
  BY KeptRecord DEF Torn
<1>2. ASSUME NEW i \in 1..Len(journal'), journal'[i].type = "Commit"
      PROVE  /\ i > 1 /\ i \in 1..Len(journal) /\ journal[i].type = "Commit"
             /\ journal'[i] = journal[i] /\ journal'[i - 1] = journal[i - 1]
  <2>1. i <= n /\ i \in 1..Len(journal) /\ journal'[i] = journal[i]
    BY <1>1, <1>2
  <2>2. i > 1
    BY <1>2, <2>1 DEF HeadInv, CommitShape
  <2> QED BY <1>0, <1>2, <2>1, <2>2 DEF Kept
<1>3. CommitShape' /\ CommitsWritten'
  <2>1. CommitShape'
    BY <1>2 DEF HeadInv, CommitShape
  <2>2. CommitsWritten'
    BY <1>2 DEF HeadInv, CommitsWritten
  <2> QED BY <2>1, <2>2
<1>4. PayloadsInOrder'
  BY <1>1 DEF HeadInv, PayloadsInOrder
<1>5. PayloadsSubmitted'
  <2> SUFFICES ASSUME NEW i \in 1..Len(journal'), journal'[i].type = "Payload"
               PROVE  journal'[i].mut \in Mutation /\ journal'[i].mut.id < nextId'
    BY DEF PayloadsSubmitted
  <2>1. i \in 1..Len(journal) /\ journal'[i] = journal[i]
    BY <1>1
  <2>2. journal[i].mut \in Mutation /\ journal[i].mut.id < nextId
    BY <2>1 DEF HeadInv, PayloadsSubmitted
  <2> QED BY <1>0, <2>1, <2>2, Fields
<1>6. HeadInOrder'
  <2> SUFFICES ASSUME NEW i \in 1..Len(journal'), NEW k \in 1..Len(journal'),
                      i < k, Closes(journal'[i]), InHead(journal', k)
               PROVE  journal'[i].seq < journal'[k].seq
    BY DEF HeadInOrder
  <2>1. i \in 1..Len(journal) /\ journal'[i] = journal[i]
    BY <1>1 DEF Closes
  <2>2. k \in 1..Len(journal) /\ journal'[k] = journal[k] /\ InHead(journal, k)
    BY KeptInHead
  <2> QED BY <2>1, <2>2 DEF HeadInv, HeadInOrder
<1> QED BY <1>3, <1>4, <1>5, <1>6 DEF HeadInv

\* The Commits ahead of a document are fewer when records are lost.
LEMMA KeptUnread ==
  ASSUME DataOK, DataOK', CommitShape, NEW n \in 0..Len(journal), Kept(n),
         NEW d \in DurableDocument, NEW p \in Nat, Unread(journal, d, p)
  PROVE  Unread(journal', d, p)
<1> SUFFICES ASSUME NEW i \in 1..Len(journal'), i >= p, journal'[i].type = "Commit",
                    InHead(journal', i), journal'[i].seq > d.lastSeq
             PROVE  journal'[i - 1].seq > d.lastSeq /\ Older(d, journal'[i - 1].mut.id)
  BY DEF Unread
<1>1. i <= n /\ i \in 1..Len(journal) /\ journal'[i] = journal[i] /\ InHead(journal, i)
  BY KeptInHead
<1>2. i > 1
  BY <1>1 DEF CommitShape
<1>3. journal'[i - 1] = journal[i - 1]
  BY <1>1, <1>2, Numbers DEF Kept
<1> QED BY <1>1, <1>3 DEF Unread

\* So are the sequence numbers in use.
LEMMA KeptBelow ==
  ASSUME DataOK, DataOK', NEW n \in 0..Len(journal), Kept(n), NEW v \in Nat, Below(journal, v)
  PROVE  Below(journal', v)
<1> SUFFICES ASSUME NEW i \in 1..Len(journal'), Closes(journal'[i]), InHead(journal', i)
             PROVE  journal'[i].seq < v
  BY DEF Below
<1>1. i \in 1..Len(journal) /\ journal'[i] = journal[i] /\ InHead(journal, i)
  BY KeptInHead
<1> QED BY <1>1 DEF Below

-----------------------------------------------------------------------------
(* Operations that add nothing *)

\* The documents and the file when records are lost and nothing is gained.
LEMMA KeptDocs ==
  ASSUME DataOK, DataOK', HeadInv, DocsInv, NEW n \in 0..Len(journal), Kept(n),
         snapshot' = snapshot, doc' = doc \/ Documented(doc)',
         written' = written, nextId <= nextId'
  PROVE  HeadInv' /\ DocsInv'
<1>1. HeadInv'
  BY KeptHead
<1>2. Unread(journal, snapshot, 1)'
  <2>1. snapshot \in DurableDocument
    BY DEF DataOK
  <2>2. Unread(journal', snapshot, 1)
    BY <2>1, KeptUnread DEF HeadInv, DocsInv
  <2> QED BY <2>2
<1>3. WrittenSubmitted'
  <2> SUFFICES ASSUME NEW m \in written PROVE m \in Mutation /\ m.id < nextId'
    BY DEF WrittenSubmitted
  <2>1. m \in Mutation /\ m.id < nextId
    BY DEF DocsInv, WrittenSubmitted
  <2>2. m.id \in Nat /\ nextId \in Nat /\ nextId' \in Nat
    BY <2>1, Numbers, NumbersNext DEF Mutation
  <2> QED BY <2>1, <2>2
<1>4. Documented(snapshot)' /\ Documented(doc)'
  BY DEF DocsInv, Documented
<1> QED BY <1>1, <1>2, <1>3, <1>4 DEF DocsInv

\* An operation gives up, or a checkpoint ends: the session goes on.
LEMMA BackToIdleRead ==
  ASSUME DataOK, DataOK', ReadInv, InSession, pc' = "idle",
         NEW n \in 0..Len(journal), Kept(n),
         UNCHANGED <<snapshot, nextSeq, doc, written, nextId>>
  PROVE  ReadInv'
<1>1. HeadInv' /\ DocsInv'
  BY KeptDocs, Numbers DEF ReadInv
<1>2. OpenInv'
  <2>1. doc \in DurableDocument /\ nextSeq \in Nat /\ 1 \in Nat
    BY DEF DataOK
  <2>2. Unread(journal', doc, 1) /\ Below(journal', nextSeq)
    BY <2>1, KeptUnread, KeptBelow DEF ReadInv, HeadInv, OpenInv
  <2>3. snapshot.lastSeq <= doc.lastSeq /\ doc.lastSeq < nextSeq
    BY DEF ReadInv, OpenInv
  <2>4. Unread(journal, doc, 1)' /\ Below(journal, nextSeq)'
    BY <2>2
  <2> QED BY <2>3, <2>4 DEF OpenInv
<1> QED BY <1>1, <1>2 DEF ReadInv, CommitInv, InCommit, LoopInv

\* The store is closed or its process dies.
LEMMA ForgetRead ==
  ASSUME DataOK, DataOK', ReadInv, Forget, NEW n \in 0..Len(journal), Kept(n),
         UNCHANGED <<snapshot, written, nextId>>
  PROVE  ReadInv'
<1>1. Documented(doc)'
  BY DEF Forget, Documented, EmptyDocument
<1>2. HeadInv' /\ DocsInv'
  BY <1>1, KeptDocs, Numbers DEF ReadInv
<1>3. pc' = "closed"
  BY DEF Forget
<1> QED BY <1>2, <1>3 DEF ReadInv, OpenInv, InSession, CommitInv, InCommit, LoopInv

-----------------------------------------------------------------------------
(* The documents *)

\* Everything in a document is older than the next mutation.
LEMMA DocumentedOlder ==
  ASSUME WrittenSubmitted, NEW d, Documented(d)
  PROVE  Older(d, nextId)
<1> SUFFICES ASSUME NEW e \in 1..Len(d.history) PROVE d.history[e] < nextId
  BY DEF Older
<1>1. [id |-> d.history[e], target |-> History] \in written
  BY DEF Documented
<1> QED BY <1>1 DEF WrittenSubmitted

\* Only the image and the history count.
LEMMA DocumentedFields ==
  ASSUME NEW d, NEW c, Documented(d), c.image = d.image, c.history = d.history
  PROVE  Documented(c)
BY DEF Documented

\* Store::apply of a committed mutation that is newer than the document.
LEMMA ApplyDocumented ==
  ASSUME NEW d \in DurableDocument, NEW m \in Mutation, m \in written,
         Documented(d), Older(d, m.id)
  PROVE  Documented(Apply(d, m))
<1>0. m = [id |-> m.id, target |-> m.target] /\ m.id \in Nat /\ m.target \in Targets
  BY DEF Mutation
<1>1. CASE m.target \in Keys
  <2>1. /\ Apply(d, m).history = d.history
        /\ \A k \in Keys : Apply(d, m).image[k] = IF k = m.target THEN m.id ELSE d.image[k]
    BY <1>0, <1>1 DEF Apply, DurableDocument
  <2> QED BY <1>0, <2>1 DEF Documented
<1>2. CASE m.target \notin Keys
  <2> DEFINE h == Append(d.history, m.id)
  <2>1. m.target = History /\ Apply(d, m).history = h /\ Apply(d, m).image = d.image
    BY <1>0, <1>2 DEF Apply, DurableDocument, Targets
  <2>2. /\ d.history \in Seq(Nat) /\ Len(d.history) \in Nat
        /\ Len(h) = Len(d.history) + 1
        /\ h[Len(d.history) + 1] = m.id
        /\ \A e \in 1..Len(d.history) : h[e] = d.history[e]
    BY <1>0 DEF DurableDocument
  <2> HIDE DEF h
  <2>3. \A e \in 1..Len(h) : e = Len(d.history) + 1 \/ e \in 1..Len(d.history)
    BY <2>2
  <2>4. \A e \in 1..Len(h) : [id |-> h[e], target |-> History] \in written
    BY <1>0, <2>1, <2>2, <2>3 DEF Documented
  <2>5. \A e, f \in 1..Len(h) : e < f => h[e] < h[f]
    <3> SUFFICES ASSUME NEW e \in 1..Len(h), NEW f \in 1..Len(h), e < f PROVE h[e] < h[f]
      OBVIOUS
    <3>1. e \in 1..Len(d.history)
      BY <2>2, <2>3
    <3> QED BY <2>2, <2>3, <3>1 DEF Documented, Older
  <2> QED BY <2>1, <2>4, <2>5 DEF Documented
<1> QED BY <1>1, <1>2

\* Store::prune_document keeps a run of the entries.
LEMMA PruneEntries ==
  ASSUME NEW h \in Seq(Nat)
  PROVE  \E s \in Nat :
           /\ Len(Prune(h)) + s = Len(h)
           /\ \A e \in 1..Len(Prune(h)) : e + s \in 1..Len(h) /\ Prune(h)[e] = h[e + s]
<1>0. Len(h) \in Nat /\ MaxHistory \in Nat
  BY ConstantsAssumption
<1>1. CASE MaxHistory = 0 \/ Len(h) <= MaxHistory
  <2>1. Prune(h) = h
    BY <1>1 DEF Prune
  <2>2. 0 \in Nat /\ Len(h) + 0 = Len(h) /\ \A e \in 1..Len(h) : e + 0 = e
    BY <1>0
  <2> QED BY <2>1, <2>2
<1>2. CASE ~(MaxHistory = 0 \/ Len(h) <= MaxHistory)
  <2> DEFINE s == Len(h) - MaxHistory
  <2>1. Prune(h) = SubSeq(h, s + 1, Len(h))
    BY <1>2 DEF Prune
  <2>2. s \in Nat /\ s + 1 \in 1..Len(h)
    BY <1>0, <1>2
  <2>3. Len(SubSeq(h, s + 1, Len(h))) = Len(h) - s
    BY <1>0, <2>2
  <2>4. \A e \in 1..(Len(h) - s) : SubSeq(h, s + 1, Len(h))[e] = h[e + s]
    BY <1>0, <2>2
  <2> HIDE DEF s
  <2>5. Len(Prune(h)) + s = Len(h) /\ Len(Prune(h)) = Len(h) - s
    BY <1>0, <2>1, <2>2, <2>3
  <2>6. \A e \in 1..Len(Prune(h)) : e + s \in 1..Len(h) /\ Prune(h)[e] = h[e + s]
    BY <1>0, <2>1, <2>2, <2>4, <2>5
  <2> QED BY <2>2, <2>5, <2>6
<1> QED BY <1>1, <1>2

\* A pruned document is still one of committed mutations in order.
LEMMA PruneDocumented ==
  ASSUME NEW d \in DurableDocument, NEW c, Documented(d), c.image = d.image,
         c.history = Prune(d.history)
  PROVE  Documented(c)
<1>1. d.history \in Seq(Nat)
  BY DEF DurableDocument
<1>2. PICK s \in Nat :
        \A e \in 1..Len(Prune(d.history)) :
          e + s \in 1..Len(d.history) /\ Prune(d.history)[e] = d.history[e + s]
  BY <1>1, PruneEntries
<1>3. \A e \in 1..Len(c.history) : e + s \in 1..Len(d.history) /\ c.history[e] = d.history[e + s]
  BY <1>2
<1>4. \A e \in 1..Len(c.history) : [id |-> c.history[e], target |-> History] \in written
  BY <1>3 DEF Documented
<1>5. \A e, f \in 1..Len(c.history) : e < f => c.history[e] < c.history[f]
  <2> SUFFICES ASSUME NEW e \in 1..Len(c.history), NEW f \in 1..Len(c.history), e < f
               PROVE  c.history[e] < c.history[f]
    OBVIOUS
  <2>1. e + s < f + s
    OBVIOUS
  <2> QED BY <1>3, <2>1 DEF Documented
<1> QED BY <1>4, <1>5 DEF Documented

-----------------------------------------------------------------------------
(* Commits and checkpoints *)

\* Store::commit begins.
LEMMA BeginCommitRead ==
  ASSUME DataOK, DataOK', ReadInv, NEW t \in Targets, BeginCommit(t)
  PROVE  ReadInv'
<1>0. /\ pc = "idle" /\ pc' = "append" /\ step' = "Intent"
      /\ mut' = [id |-> nextId, target |-> t] /\ nextId' = nextId + 1
      /\ UNCHANGED <<journal, snapshot, nextSeq, doc, written>>
  BY DEF BeginCommit, disk
<1>1. nextId \in Nat /\ nextId <= nextId' /\ nextId < nextId' /\ Len(journal) \in 0..Len(journal)
  BY <1>0, Numbers
<1>2. HeadInv' /\ DocsInv'
  BY <1>0, <1>1, UnchangedKept, KeptDocs DEF ReadInv
<1>3. OpenInv'
  BY <1>0 DEF ReadInv, OpenInv, InSession
<1>4. CommitInv'
  <2>1. mut'.id = nextId
    BY <1>0
  <2>2. Older(snapshot, nextId) /\ Older(doc, nextId)
    BY DocumentedOlder DEF ReadInv, DocsInv
  <2>3. \A i \in 1..Len(journal) : journal[i].type = "Payload" => journal[i].mut.id < nextId
    BY DEF ReadInv, HeadInv, PayloadsSubmitted
  <2> QED BY <1>0, <1>1, <2>1, <2>2, <2>3 DEF CommitInv
<1> QED BY <1>0, <1>2, <1>3, <1>4 DEF ReadInv, LoopInv

\* One of the first two appends is flushed.
LEMMA SyncRecordRead ==
  ASSUME DataOK, DataOK', ReadInv, SyncRecord
  PROVE  ReadInv'
<1>0. /\ pc = "sync" /\ pc' = "append" /\ step \in {"Intent", "Payload"}
      /\ step' = IF step = "Intent" THEN "Payload" ELSE "Commit"
      /\ UNCHANGED <<journal, snapshot, nextSeq, doc, mut, txn, nextId, written>>
  BY DEF SyncRecord
<1>1. nextId <= nextId' /\ Len(journal) \in 0..Len(journal)
  BY <1>0, Numbers
<1>2. HeadInv' /\ DocsInv'
  BY <1>0, <1>1, UnchangedKept, KeptDocs DEF ReadInv
<1>3. OpenInv'
  BY <1>0 DEF ReadInv, OpenInv, InSession
<1>4. CommitInv'
  <2>1. CASE step = "Intent"
    BY <1>0, <2>1 DEF ReadInv, CommitInv, InCommit
  <2>2. CASE step = "Payload"
    <3>1. PayloadLast
      BY <1>0, <2>2 DEF ReadInv, CommitInv, InCommit
    <3>2. PayloadLast'
      BY <1>0, <3>1 DEF PayloadLast
    <3> QED BY <1>0, <2>2, <3>2 DEF ReadInv, CommitInv, InCommit
  <2> QED BY <1>0, <2>1, <2>2
<1> QED BY <1>0, <1>2, <1>3, <1>4 DEF ReadInv, LoopInv

\* Store::commit applies the mutation, prunes and returns.
LEMMA FinishCommitRead ==
  ASSUME DataOK, DataOK', FileInv, ReadInv, FinishCommit
  PROVE  ReadInv'
<1>0. /\ pc = "sync" /\ step = "Commit" /\ pc' = "idle"
      /\ UNCHANGED <<journal, snapshot, nextSeq, nextId, written>>
  BY DEF FinishCommit
<1>1. mut \in Mutation /\ mut \in written /\ Older(doc, mut.id)
  BY <1>0 DEF FileInv, ReadInv, CommitInv, InCommit
<1>2. doc \in DurableDocument /\ Apply(doc, mut) \in DurableDocument
  BY <1>1, ApplyType DEF DataOK
<1>3. /\ doc'.lastSeq = nextSeq - 1
      /\ doc'.image = Apply(doc, mut).image
      /\ doc'.history = Prune(Apply(doc, mut).history)
  <2>1. doc' = [Apply(doc, mut) EXCEPT !.lastSeq = nextSeq - 1,
                                       !.history = Prune(Apply(doc, mut).history)]
    BY DEF FinishCommit
  <2> QED BY <1>2, <2>1 DEF DurableDocument
<1>4. Documented(doc)'
  <2>1. Documented(Apply(doc, mut))
    BY <1>1, <1>2, ApplyDocumented DEF ReadInv, DocsInv
  <2>2. Documented(doc')
    BY <1>2, <1>3, <2>1, PruneDocumented
  <2> QED BY <1>0, <2>2 DEF Documented
<1>5. HeadInv' /\ DocsInv'
  <2>1. nextId <= nextId' /\ Len(journal) \in 0..Len(journal)
    BY <1>0, Numbers
  <2> QED BY <1>0, <1>4, <2>1, UnchangedKept, KeptDocs DEF ReadInv
<1>6. OpenInv'
  <2>1. snapshot.lastSeq <= doc.lastSeq /\ doc.lastSeq < nextSeq /\ Below(journal, nextSeq)
    BY <1>0 DEF ReadInv, OpenInv, InSession
  <2>2. snapshot.lastSeq <= nextSeq - 1 /\ nextSeq - 1 < nextSeq
    BY <2>1, Numbers
  <2>3. Unread(journal, doc, 1)'
    <3> SUFFICES ASSUME NEW i \in 1..Len(journal), journal[i].type = "Commit",
                        InHead(journal, i), journal[i].seq > nextSeq - 1
                 PROVE  FALSE
      BY <1>0, <1>3 DEF Unread
    <3>1. journal[i].seq < nextSeq
      BY <2>1 DEF Below, Closes
    <3> QED BY <3>1, Fields, Numbers
  <2> QED BY <1>0, <1>3, <2>1, <2>2, <2>3 DEF OpenInv
<1> QED BY <1>0, <1>5, <1>6 DEF ReadInv, CommitInv, InCommit, LoopInv

\* Store::checkpoint writes the snapshot.
LEMMA WriteSnapshotRead ==
  ASSUME DataOK, DataOK', ReadInv, WriteSnapshot
  PROVE  ReadInv'
<1>0. /\ pc = "idle" /\ pc' = "rebase" /\ snapshot' = doc
      /\ UNCHANGED <<journal, nextSeq, doc, nextId, written>>
  BY DEF WriteSnapshot
<1>1. HeadInv'
  BY <1>0 DEF ReadInv, HeadInv, CommitShape, PayloadsInOrder, PayloadsSubmitted,
              CommitsWritten, HeadInOrder
<1>2. Unread(journal, doc, 1) /\ doc.lastSeq < nextSeq /\ Below(journal, nextSeq)
  BY <1>0 DEF ReadInv, OpenInv, InSession
<1>3. DocsInv'
  BY <1>0, <1>2 DEF ReadInv, DocsInv, Documented, WrittenSubmitted
<1>4. OpenInv'
  BY <1>0, <1>2, NumbersNext DEF OpenInv
<1> QED BY <1>0, <1>1, <1>3, <1>4 DEF ReadInv, CommitInv, InCommit, LoopInv

\* Journal::rebase empties the file.
LEMMA RebaseJournalRead ==
  ASSUME DataOK, DataOK', ReadInv, RebaseJournal
  PROVE  ReadInv'
<1>0. /\ pc = "rebase" /\ pc' = "append" /\ step' = "Rebase" /\ journal' = <<>>
      /\ UNCHANGED <<snapshot, nextSeq, doc, nextId, written>>
  BY DEF RebaseJournal
<1>1. HeadInv' /\ DocsInv'
  <2>1. nextId <= nextId' /\ 0 \in 0..Len(journal)
    BY <1>0, Numbers
  <2> QED BY <1>0, <2>1, EmptiedKept, KeptDocs DEF ReadInv
<1>2. OpenInv'
  <2>1. snapshot.lastSeq <= doc.lastSeq /\ doc.lastSeq < nextSeq
    BY <1>0 DEF ReadInv, OpenInv, InSession
  <2> QED BY <1>0, <2>1 DEF OpenInv, Below, Unread
<1> QED BY <1>0, <1>1, <1>2 DEF ReadInv, CommitInv, InCommit, LoopInv

-----------------------------------------------------------------------------
(* Opening *)

\* Store::open starts from the snapshot.
LEMMA BeginOpenRead ==
  ASSUME DataOK, DataOK', ReadInv, BeginOpen
  PROVE  ReadInv'
<1>0. /\ pc' = "replay" /\ doc' = snapshot /\ pos' = 1 /\ pending' = {}
      /\ UNCHANGED <<journal, snapshot, nextId, written>>
  BY DEF BeginOpen, disk
<1>1. Len(journal) \in Nat /\ snapshot.lastSeq \in Nat
  BY Numbers
<1>2. HeadInv' /\ DocsInv'
  BY <1>0 DEF ReadInv, HeadInv, CommitShape, PayloadsInOrder, PayloadsSubmitted,
              CommitsWritten, HeadInOrder, DocsInv, Documented, WrittenSubmitted
<1>3. Accepts(valid')
  BY DEF BeginOpen
<1>4. LoopInv'
  <2>1. /\ \A i \in 1..valid' : ~TornAt(i)'
        /\ valid' < Len(journal') => TornAt(valid + 1)'
    BY <1>0, <1>3 DEF Accepts, TornAt
  <2>2. /\ snapshot'.lastSeq <= doc'.lastSeq
        /\ \A i \in 1..Len(journal') : ~(i < pos')
        /\ ~(pos' > 1)
    BY <1>0, <1>1
  <2>3. Unread(journal, doc, pos)'
    BY <1>0 DEF ReadInv, DocsInv
  <2> QED BY <1>0, <2>1, <2>2, <2>3 DEF LoopInv
<1> QED BY <1>0, <1>2, <1>4 DEF ReadInv, OpenInv, InSession, CommitInv, InCommit

\* The head of the file is what replay accepted.
LEMMA HeadValid ==
  ASSUME DataOK, FileInv, LoopInv, pc = "replay", NEW i \in 1..Len(journal)
  PROVE  InHead(journal, i) <=> i <= valid
<1>0. Len(journal) \in Nat /\ valid \in Nat /\ valid <= Len(journal)
  BY Numbers DEF FileInv
<1>1. /\ \A k \in 1..valid : ~TornAt(k)
      /\ valid < Len(journal) => TornAt(valid + 1)
  BY DEF LoopInv
<1>2. ASSUME i <= valid PROVE InHead(journal, i)
  BY <1>0, <1>1, <1>2 DEF InHead, TornAt
<1>3. ASSUME ~(i <= valid) PROVE ~InHead(journal, i)
  <2>1. valid + 1 \in 1..i /\ valid < Len(journal)
    BY <1>0, <1>3
  <2> QED BY <1>1, <2>1 DEF InHead, TornAt
<1> QED BY <1>2, <1>3

\* Store::open behind its loop.
LEMMA FinishOpenRead ==
  ASSUME DataOK, DataOK', FileInv, ReadInv, FinishOpen
  PROVE  ReadInv'
<1>0. /\ pc = "replay" /\ pos > valid /\ pc' = "idle" /\ nextSeq' = doc.lastSeq + 1
      /\ doc' = Recovered /\ CutTornTail
      /\ UNCHANGED <<snapshot, nextId, written>>
  BY DEF FinishOpen, ResumeSequence
<1>1. /\ Len(journal) \in Nat /\ valid \in Nat /\ pos \in Nat /\ valid <= Len(journal)
      /\ doc.lastSeq \in Nat /\ nextId <= nextId'
  BY <1>0, Numbers DEF FileInv
<1>2. /\ doc'.lastSeq = doc.lastSeq /\ doc'.image = doc.image /\ doc'.history = doc.history
      /\ doc' \in DurableDocument
  BY <1>0 DEF Recovered, DataOK, DurableDocument
<1>3. PICK n \in 0..Len(journal) : Kept(n)
  <2>1. CASE journal' = SubSeq(journal, 1, valid)
    BY <1>1, <2>1, CutKept DEF Kept
  <2>2. CASE journal' = journal
    BY <1>1, <2>2, UnchangedKept DEF Kept
  <2> QED BY <1>0, <2>1, <2>2 DEF CutTornTail
<1>4. Documented(doc)'
  <2>1. Documented(doc')
    BY <1>2, DocumentedFields DEF ReadInv, DocsInv
  <2> QED BY <1>0, <2>1 DEF Documented
<1>5. HeadInv' /\ DocsInv'
  BY <1>0, <1>1, <1>3, <1>4, KeptDocs DEF ReadInv
<1>6. OpenInv'
  <2>1. \A i \in 1..Len(journal) : InHead(journal, i) => i < pos
    BY <1>0, <1>1, HeadValid DEF ReadInv
  <2>2. \A i \in 1..Len(journal) :
          InHead(journal, i) /\ Closes(journal[i]) => journal[i].seq <= doc.lastSeq
    BY <1>0, <2>1 DEF ReadInv, LoopInv
  <2>3. Below(journal, doc.lastSeq + 1)
    <3> SUFFICES ASSUME NEW i \in 1..Len(journal), Closes(journal[i]), InHead(journal, i)
                 PROVE  journal[i].seq < doc.lastSeq + 1
      BY DEF Below
    <3>1. journal[i].seq <= doc.lastSeq /\ journal[i].seq \in Nat
      BY <2>2, Fields
    <3> QED BY <1>1, <3>1
  <2>4. Unread(journal, doc', 1)
    <3> SUFFICES ASSUME NEW i \in 1..Len(journal), journal[i].type = "Commit",
                        InHead(journal, i), journal[i].seq > doc.lastSeq
                 PROVE  FALSE
      BY <1>2 DEF Unread
    <3>1. journal[i].seq <= doc.lastSeq /\ journal[i].seq \in Nat
      BY <2>2, Fields DEF Closes
    <3> QED BY <1>1, <3>1
  <2>5. doc.lastSeq + 1 \in Nat /\ 1 \in Nat
    BY <1>1
  <2>6. Below(journal', doc.lastSeq + 1) /\ Unread(journal', doc', 1)
    BY <1>2, <1>3, <2>3, <2>4, <2>5, KeptBelow, KeptUnread DEF ReadInv, HeadInv
  <2>7. snapshot.lastSeq <= doc.lastSeq /\ doc.lastSeq < doc.lastSeq + 1
    BY <1>0, <1>1 DEF ReadInv, LoopInv
  <2>8. Below(journal, nextSeq)' /\ Unread(journal, doc, 1)'
    BY <1>0, <2>6
  <2>9. snapshot'.lastSeq <= doc'.lastSeq /\ doc'.lastSeq < nextSeq'
    BY <1>0, <1>2, <2>7
  <2> QED BY <2>8, <2>9 DEF OpenInv
<1> QED BY <1>0, <1>5, <1>6 DEF ReadInv, CommitInv, InCommit, LoopInv

\* The Commit that replay meets finds the Payload before it among the pending
\* ones, and no other.
LEMMA PendingIsCommitted ==
  ASSUME DataOK, FileInv, HeadInv, LoopInv, pc = "replay", pos <= valid,
         journal[pos].type = "Commit", journal[pos].seq > doc.lastSeq
  PROVE  /\ pos \in 1..Len(journal) /\ pos - 1 \in 1..Len(journal)
         /\ journal[pos - 1].type = "Payload"
         /\ Found(journal[pos]) = {[txn |-> journal[pos].txn, mut |-> journal[pos - 1].mut]}
         /\ journal[pos - 1].mut \in Mutation /\ journal[pos - 1].mut \in written
         /\ Older(doc, journal[pos - 1].mut.id)
<1>1. pos \in 1..Len(journal)
  BY Numbers DEF FileInv
<1>2. /\ pos > 1 /\ journal[pos - 1].type = "Payload"
      /\ journal[pos - 1].txn = journal[pos].txn
      /\ journal[pos - 1].mut \in written
  BY <1>1 DEF HeadInv, CommitShape, CommitsWritten
<1>3. InHead(journal, pos) /\ pos >= pos
  BY <1>1, HeadValid
<1>4. journal[pos - 1].seq > doc.lastSeq /\ Older(doc, journal[pos - 1].mut.id)
  BY <1>1, <1>3 DEF LoopInv, Unread
<1>5. /\ [txn |-> journal[pos - 1].txn, mut |-> journal[pos - 1].mut] \in pending
      /\ \A p, q \in pending : p.txn = q.txn => p = q
  BY <1>2, <1>4 DEF LoopInv
<1>6. Found(journal[pos]) = {[txn |-> journal[pos].txn, mut |-> journal[pos - 1].mut]}
  BY <1>2, <1>5 DEF Found
<1>7. pos - 1 \in 1..Len(journal)
  BY <1>1, <1>2, Numbers
<1>8. journal[pos - 1].mut \in Mutation
  BY <1>2, <1>7 DEF HeadInv, PayloadsSubmitted
<1> QED BY <1>1, <1>2, <1>4, <1>6, <1>7, <1>8

\* A record is read that leaves the document as it is.
LEMMA LoopPassing ==
  ASSUME DataOK, FileInv, LoopInv, pc = "replay", pos <= valid,
         pos' = pos + 1, doc' = doc,
         Closes(journal[pos]) => journal[pos].seq <= doc.lastSeq,
         \A p, q \in pending' : p.txn = q.txn => p = q,
         journal[pos].type = "Payload" /\ journal[pos].seq > doc.lastSeq =>
           [txn |-> journal[pos].txn, mut |-> journal[pos].mut] \in pending',
         UNCHANGED <<journal, snapshot, pc, valid>>
  PROVE  LoopInv'
<1>0. pos \in 1..Len(journal) /\ Len(journal) \in Nat
  BY Numbers DEF FileInv
<1>1. /\ \A i \in 1..Len(journal) : i < pos + 1 => i = pos \/ i < pos
      /\ \A i \in 1..Len(journal) : i >= pos + 1 => i >= pos
      /\ pos + 1 - 1 = pos
  BY <1>0
<1>2. \A i \in 1..Len(journal') : i < pos' /\ Closes(journal'[i]) => journal'[i].seq <= doc'.lastSeq
  BY <1>1 DEF LoopInv
<1>3. Unread(journal, doc, pos + 1)
  BY <1>1 DEF LoopInv, Unread
<1>4. Unread(journal, doc, pos)'
  BY <1>3
<1>5. pos' > 1 /\ journal'[pos' - 1].type = "Payload" /\ journal'[pos' - 1].seq > doc'.lastSeq
        => [txn |-> journal'[pos' - 1].txn, mut |-> journal'[pos' - 1].mut] \in pending'
  <2>1. pos' - 1 = pos
    BY <1>0
  <2>2. journal' = journal /\ doc' = doc
    OBVIOUS
  <2> QED BY <2>1, <2>2
<1>6. /\ \A i \in 1..valid' : ~TornAt(i)'
      /\ valid' < Len(journal') => TornAt(valid + 1)'
      /\ snapshot'.lastSeq <= doc'.lastSeq
  BY DEF LoopInv, TornAt
<1> QED BY <1>2, <1>4, <1>5, <1>6 DEF LoopInv

\* A Commit or a Rebase is read and moves the document on. Its history takes
\* at most the mutation of the Commit.
LEMMA LoopClosing ==
  ASSUME DataOK, DataOK', FileInv, HeadInv, LoopInv, pc = "replay", pos <= valid,
         Closes(journal[pos]), journal[pos].seq > doc.lastSeq,
         pos' = pos + 1, doc'.lastSeq = journal[pos].seq, pending' \subseteq pending,
         \A e \in 1..Len(doc'.history) :
           \/ \E f \in 1..Len(doc.history) : doc'.history[e] = doc.history[f]
           \/ journal[pos].type = "Commit" /\ doc'.history[e] = journal[pos - 1].mut.id,
         UNCHANGED <<journal, snapshot, pc, valid>>
  PROVE  LoopInv'
<1>0. /\ pos \in 1..Len(journal) /\ Len(journal) \in Nat /\ valid \in Nat
      /\ doc.lastSeq \in Nat /\ snapshot.lastSeq \in Nat
  BY Numbers DEF FileInv
<1>1. \A i \in 1..Len(journal) : journal[i].seq \in Nat /\ journal[i].mut.id \in Nat
  BY Fields
<1>2. /\ \A i \in 1..Len(journal) : i < pos + 1 => i = pos \/ i < pos
      /\ \A i \in 1..Len(journal) : i >= pos + 1 => i > pos /\ i >= pos
      /\ pos + 1 - 1 = pos
  BY <1>0
<1>3. snapshot'.lastSeq <= doc'.lastSeq
  <2>1. snapshot.lastSeq <= doc.lastSeq
    BY DEF LoopInv
  <2> QED BY <1>0, <1>1, <2>1
<1>4. \A i \in 1..Len(journal') : i < pos' /\ Closes(journal'[i]) => journal'[i].seq <= doc'.lastSeq
  <2> SUFFICES ASSUME NEW i \in 1..Len(journal), i < pos + 1, Closes(journal[i])
               PROVE  journal[i].seq <= journal[pos].seq
    OBVIOUS
  <2>1. CASE i = pos
    BY <1>1, <2>1
  <2>2. CASE i < pos
    <3>1. journal[i].seq <= doc.lastSeq
      BY <2>2 DEF LoopInv
    <3> QED BY <1>0, <1>1, <3>1
  <2> QED BY <1>2, <2>1, <2>2
<1>5. Unread(journal, doc', pos + 1)
  <2> SUFFICES ASSUME NEW i \in 1..Len(journal), i >= pos + 1, journal[i].type = "Commit",
                      InHead(journal, i), journal[i].seq > journal[pos].seq
               PROVE  journal[i - 1].seq > journal[pos].seq /\ Older(doc', journal[i - 1].mut.id)
    BY DEF Unread
  <2>1. i - 1 \in 1..Len(journal) /\ journal[i - 1].type = "Payload"
    BY <1>0 DEF HeadInv, CommitShape
  <2>2. i - 1 > pos
    BY <1>0, <2>1 DEF Closes
  <2>3. InHead(journal, i - 1)
    BY <1>0, <2>1 DEF InHead
  <2>4. journal[i - 1].seq > journal[pos].seq
    <3>1. journal[pos].seq < journal[i - 1].seq
      BY <1>0, <2>1, <2>2, <2>3 DEF HeadInv, HeadInOrder
    <3> QED BY <1>0, <1>1, <2>1, <3>1
  <2>5. Older(doc, journal[i - 1].mut.id)
    <3>1. journal[i].seq > doc.lastSeq /\ i >= pos
      BY <1>0, <1>1, <1>2
    <3> QED BY <3>1 DEF LoopInv, Unread
  <2>6. journal[pos].type = "Commit" => journal[pos - 1].mut.id < journal[i - 1].mut.id
    <3> SUFFICES ASSUME journal[pos].type = "Commit"
                 PROVE  journal[pos - 1].mut.id < journal[i - 1].mut.id
      OBVIOUS
    <3>1. pos - 1 \in 1..Len(journal) /\ journal[pos - 1].type = "Payload" /\ pos - 1 < i - 1
      BY <1>0, <2>2 DEF HeadInv, CommitShape
    <3> QED BY <2>1, <3>1 DEF HeadInv, PayloadsInOrder
  <2>7. Older(doc', journal[i - 1].mut.id)
    BY <2>5, <2>6 DEF Older
  <2> QED BY <2>4, <2>7
<1>6. Unread(journal, doc, pos)'
  BY <1>5
<1>7. \A p, q \in pending' : p.txn = q.txn => p = q
  BY DEF LoopInv
<1>8. pos' - 1 = pos /\ journal'[pos].type # "Payload"
  BY <1>0 DEF Closes
<1>9. /\ \A i \in 1..valid' : ~TornAt(i)'
      /\ valid' < Len(journal') => TornAt(valid + 1)'
  BY DEF LoopInv, TornAt
<1> QED BY <1>3, <1>4, <1>6, <1>7, <1>8, <1>9 DEF LoopInv

\* One record of the replay loop.
LEMMA ReplayRecordRead ==
  ASSUME DataOK, DataOK', FileInv, ReadInv, ReplayRecord
  PROVE  ReadInv'
<1> DEFINE r == journal[pos]
<1>0. /\ pc = "replay" /\ pos <= valid /\ pos' = pos + 1
      /\ UNCHANGED <<journal, snapshot, pc, valid, nextId, written>>
  BY DEF ReplayRecord, disk
<1>1. pos \in 1..Len(journal) /\ r.seq \in Nat /\ doc.lastSeq \in Nat /\ nextId <= nextId'
  BY <1>0, Numbers, Fields DEF FileInv
<1>2. HeadInv /\ DocsInv /\ LoopInv /\ Documented(doc)
  BY DEF ReadInv, DocsInv
<1>3. ASSUME LoopInv', Documented(doc') PROVE ReadInv'
  <2>1. Documented(doc)'
    BY <1>0, <1>3 DEF Documented
  <2>2. Len(journal) \in 0..Len(journal)
    BY Numbers
  <2>3. HeadInv' /\ DocsInv'
    BY <1>0, <1>1, <1>2, <2>1, <2>2, UnchangedKept, KeptDocs
  <2> QED BY <1>0, <1>3, <2>3 DEF ReadInv, OpenInv, InSession, CommitInv, InCommit
<1>4. CASE Skipped(r) /\ UNCHANGED <<doc, pending>>
  <2>1. r.type = "Payload" => r.seq <= doc.lastSeq
    BY <1>1, <1>4 DEF Fresh, Skipped
  <2>2. Closes(r) => r.seq <= doc.lastSeq
    <3> SUFFICES ASSUME Closes(r), r.seq > doc.lastSeq PROVE FALSE
      BY <1>1
    <3>1. r.type = "Commit" /\ Found(r) = {}
      BY <1>1, <1>4 DEF Fresh, Skipped, Closes
    <3> QED BY <1>0, <1>2, <3>1, PendingIsCommitted
  <2>3. \A p, q \in pending' : p.txn = q.txn => p = q
    BY <1>0, <1>2, <1>4 DEF LoopInv
  <2>4. ~(r.type = "Payload" /\ r.seq > doc.lastSeq)
    BY <1>1, <2>1
  <2>5. LoopInv'
    BY <1>0, <1>2, <1>4, <2>2, <2>3, <2>4, LoopPassing
  <2> QED BY <1>2, <1>3, <1>4, <2>5
<1>5. CASE /\ r.seq > doc.lastSeq /\ r.type = "Payload"
           /\ pending' = (pending \ Found(r)) \cup {[txn |-> r.txn, mut |-> r.mut]}
           /\ doc' = doc
  <2>1. \A p, q \in pending' : p.txn = q.txn => p = q
    <3>1. \A p, q \in pending : p.txn = q.txn => p = q
      BY <1>0, <1>2 DEF LoopInv
    <3> QED BY <1>5, <3>1 DEF Found
  <2>2. [txn |-> r.txn, mut |-> r.mut] \in pending' /\ ~Closes(r)
    BY <1>5 DEF Closes
  <2>3. LoopInv'
    BY <1>0, <1>2, <1>5, <2>1, <2>2, LoopPassing
  <2> QED BY <1>2, <1>3, <1>5, <2>3
<1>6. ASSUME r.seq > doc.lastSeq, r.type = "Commit", NEW p \in Found(r),
             doc' = [Apply(doc, p.mut) EXCEPT !.lastSeq = r.seq],
             pending' = pending \ Found(r)
      PROVE  ReadInv'
  <2>1. /\ p.mut = journal[pos - 1].mut /\ p.mut \in Mutation /\ p.mut \in written
        /\ Older(doc, p.mut.id)
    BY <1>0, <1>2, <1>6, PendingIsCommitted
  <2>2. doc \in DurableDocument /\ Apply(doc, p.mut) \in DurableDocument
    BY <2>1, ApplyType DEF DataOK, MutationSlot
  <2>3. /\ doc'.lastSeq = r.seq
        /\ doc'.image = Apply(doc, p.mut).image
        /\ doc'.history = Apply(doc, p.mut).history
    BY <1>6, <2>2 DEF DurableDocument
  <2>4. Documented(doc')
    <3>1. Documented(Apply(doc, p.mut))
      BY <1>2, <2>1, <2>2, ApplyDocumented
    <3> QED BY <2>3, <3>1, DocumentedFields
  <2>5. \A e \in 1..Len(doc'.history) :
          \/ \E f \in 1..Len(doc.history) : doc'.history[e] = doc.history[f]
          \/ doc'.history[e] = p.mut.id
    <3>1. doc.history \in Seq(Nat) /\ p.mut.id \in Nat
      BY <2>1, <2>2 DEF DurableDocument, Mutation
    <3>2. doc'.history = doc.history \/ doc'.history = Append(doc.history, p.mut.id)
      BY <2>2, <2>3 DEF Apply, DurableDocument
    <3>3. CASE doc'.history = Append(doc.history, p.mut.id)
      <4>1. /\ Len(doc.history) \in Nat
            /\ Len(doc'.history) = Len(doc.history) + 1
            /\ doc'.history[Len(doc.history) + 1] = p.mut.id
            /\ \A e \in 1..Len(doc.history) : doc'.history[e] = doc.history[e]
        BY <3>1, <3>3
      <4> QED BY <4>1
    <3> QED BY <3>2, <3>3
  <2>6. Closes(r)
    BY <1>6 DEF Closes
  <2>7. LoopInv'
    BY <1>0, <1>2, <1>6, <2>1, <2>3, <2>5, <2>6, LoopClosing
  <2> QED BY <1>3, <2>4, <2>7
<1>7. CASE /\ r.seq > doc.lastSeq /\ r.type = "Rebase"
           /\ doc' = [doc EXCEPT !.lastSeq = r.seq]
           /\ pending' = pending
  <2>1. doc'.lastSeq = r.seq /\ doc'.image = doc.image /\ doc'.history = doc.history
    BY <1>7 DEF DataOK, DurableDocument
  <2>2. Closes(r)
    BY <1>7 DEF Closes
  <2>3. LoopInv'
    BY <1>0, <1>2, <1>7, <2>1, <2>2, LoopClosing
  <2>4. Documented(doc')
    BY <1>2, <2>1, DocumentedFields
  <2> QED BY <1>3, <2>3, <2>4
<1> QED BY <1>4, <1>5, <1>6, <1>7, Zenon DEF Fresh, ReplayRecord

-----------------------------------------------------------------------------
(* Whole appends *)

\* Journal::append of a whole record, to a file with or without torn bytes.
LEMMA AppendRecordRead ==
  ASSUME DataOK, DataOK', FileInv, ReadInv, AppendRecord
  PROVE  ReadInv'
<1> DEFINE n == Len(journal)
<1>1. /\ pc = "append" /\ pc' = "sync" /\ nextSeq' = nextSeq + 1
      /\ journal' = Append(journal, Record)
      /\ written' = IF step = "Commit" THEN written \cup {mut} ELSE written
      /\ UNCHANGED <<snapshot, doc, step, mut, txn, nextId>>
  BY DEF AppendRecord, commitVars
<1>2. /\ Record \in JournalRecord /\ Record.type = step /\ Record.seq = nextSeq
      /\ Record.txn = txn /\ (step = "Payload" => Record.mut = mut)
  BY RecordType_ DEF Record
<1>3. /\ n \in Nat /\ Len(journal') = n + 1
      /\ journal'[n + 1] = Record
      /\ \A i \in 1..n : journal'[i] = journal[i]
  BY <1>1, <1>2, Numbers
<1>4. /\ \A i \in 1..n : journal[i].seq \in Nat /\ journal[i].mut.id \in Nat
      /\ nextSeq \in Nat /\ nextId \in Nat /\ mut.id \in Nat
      /\ snapshot.lastSeq \in Nat /\ doc.lastSeq \in Nat
  BY Numbers, Fields, SlotId DEF DataOK
<1>5. /\ snapshot.lastSeq <= doc.lastSeq /\ doc.lastSeq < nextSeq
      /\ Below(journal, nextSeq) /\ Unread(journal, doc, 1)
  BY <1>1 DEF ReadInv, OpenInv, InSession
<1>6. step # "Rebase" =>
        /\ mut \in Mutation /\ mut.id < nextId
        /\ Older(snapshot, mut.id) /\ Older(doc, mut.id)
  BY <1>1 DEF FileInv, ReadInv, CommitInv, InCommit
<1>7. step \in {"Intent", "Payload"} =>
        \A i \in 1..n : journal[i].type = "Payload" => journal[i].mut.id < mut.id
  BY <1>1 DEF ReadInv, CommitInv, InCommit
<1>8. step = "Commit" =>
        /\ n > 0 /\ journal[n].type = "Payload" /\ journal[n].txn = txn
        /\ journal[n].mut = mut
        /\ nextSeq = journal[n].seq + 1
        /\ journal[n].seq > doc.lastSeq
  BY <1>1 DEF ReadInv, CommitInv, InCommit, PayloadLast
<1> HIDE DEF n
<1>9. \A i \in 1..Len(journal') : i = n + 1 \/ i \in 1..n
  BY <1>3
<1>10. ASSUME NEW i \in 1..n, InHead(journal', i) PROVE InHead(journal, i)
  BY <1>3, <1>10 DEF InHead
<1>11. ASSUME InHead(journal', n + 1), NEW i \in 1..n PROVE InHead(journal, i)
  BY <1>3, <1>11 DEF InHead
<1>12. HeadInv /\ DocsInv
  BY DEF ReadInv
<1>13. ASSUME NEW i \in 1..n, journal[i].type = "Commit"
       PROVE  i > 1 /\ i - 1 \in 1..n /\ journal'[i - 1] = journal[i - 1]
  <2>1. i > 1
    BY <1>12, <1>13 DEF HeadInv, CommitShape, n
  <2> QED BY <1>3, <2>1
<1>14. CommitShape'
  <2> SUFFICES ASSUME NEW i \in 1..Len(journal'), journal'[i].type = "Commit"
               PROVE  /\ i > 1 /\ journal'[i - 1].type = "Payload"
                      /\ journal'[i - 1].txn = journal'[i].txn
                      /\ journal'[i].seq = journal'[i - 1].seq + 1
    BY DEF CommitShape
  <2>1. CASE i = n + 1
    <3>1. step = "Commit" /\ n \in 1..n
      BY <1>2, <1>3, <1>8, <2>1
    <3>2. i > 1 /\ i - 1 = n
      BY <1>3, <2>1, <3>1
    <3> QED BY <1>2, <1>3, <1>8, <2>1, <3>1, <3>2
  <2>2. CASE i \in 1..n
    <3>1. journal'[i] = journal[i]
      BY <1>3, <2>2
    <3> QED BY <1>12, <1>13, <2>2, <3>1 DEF HeadInv, CommitShape, n
  <2> QED BY <1>9, <2>1, <2>2
<1>15. CommitsWritten'
  <2> SUFFICES ASSUME NEW i \in 1..Len(journal'), journal'[i].type = "Commit"
               PROVE  journal'[i - 1].mut \in written'
    BY DEF CommitsWritten
  <2>1. CASE i = n + 1
    <3>1. step = "Commit" /\ n \in 1..n /\ i - 1 = n
      BY <1>2, <1>3, <1>8, <2>1
    <3> QED BY <1>1, <1>3, <1>8, <3>1
  <2>2. CASE i \in 1..n
    <3>1. journal'[i] = journal[i]
      BY <1>3, <2>2
    <3>2. journal[i - 1].mut \in written
      BY <1>12, <2>2, <3>1 DEF HeadInv, CommitsWritten, n
    <3> QED BY <1>1, <1>13, <2>2, <3>1, <3>2
  <2> QED BY <1>9, <2>1, <2>2
<1>16. PayloadsInOrder'
  <2> SUFFICES ASSUME NEW i \in 1..Len(journal'), NEW k \in 1..Len(journal'), i < k,
                      journal'[i].type = "Payload", journal'[k].type = "Payload"
               PROVE  journal'[i].mut.id < journal'[k].mut.id
    BY DEF PayloadsInOrder
  <2>1. i \in 1..n /\ journal'[i] = journal[i]
    BY <1>3, <1>9
  <2>2. CASE k = n + 1
    BY <1>2, <1>3, <1>7, <2>1, <2>2
  <2>3. CASE k \in 1..n
    BY <1>3, <1>12, <2>1, <2>3 DEF HeadInv, PayloadsInOrder, n
  <2> QED BY <1>9, <2>2, <2>3
<1>17. PayloadsSubmitted'
  <2> SUFFICES ASSUME NEW i \in 1..Len(journal'), journal'[i].type = "Payload"
               PROVE  journal'[i].mut \in Mutation /\ journal'[i].mut.id < nextId
    BY <1>1 DEF PayloadsSubmitted
  <2>1. CASE i = n + 1
    BY <1>2, <1>3, <1>6, <2>1
  <2>2. CASE i \in 1..n
    BY <1>3, <1>12, <2>2 DEF HeadInv, PayloadsSubmitted, n
  <2> QED BY <1>9, <2>1, <2>2
<1>18. HeadInOrder'
  <2> SUFFICES ASSUME NEW i \in 1..Len(journal'), NEW k \in 1..Len(journal'),
                      i < k, Closes(journal'[i]), InHead(journal', k)
               PROVE  journal'[i].seq < journal'[k].seq
    BY DEF HeadInOrder
  <2>1. i \in 1..n /\ journal'[i] = journal[i]
    BY <1>3, <1>9
  <2>2. CASE k = n + 1
    <3>1. InHead(journal, i)
      BY <1>11, <2>1, <2>2
    <3>2. journal[i].seq < nextSeq
      BY <1>5, <2>1, <3>1 DEF Below, n
    <3> QED BY <1>2, <1>3, <2>1, <2>2, <3>2
  <2>3. CASE k \in 1..n
    <3>1. InHead(journal, k) /\ journal'[k] = journal[k]
      BY <1>3, <1>10, <2>3
    <3> QED BY <1>12, <2>1, <2>3, <3>1 DEF HeadInv, HeadInOrder, n
  <2> QED BY <1>9, <2>2, <2>3
<1>19. HeadInv'
  BY <1>14, <1>15, <1>16, <1>17, <1>18 DEF HeadInv
<1>20. ASSUME NEW d \in DurableDocument, d.lastSeq <= doc.lastSeq, Unread(journal, d, 1),
              step = "Commit" => Older(d, mut.id)
       PROVE  Unread(journal', d, 1)
  <2> SUFFICES ASSUME NEW i \in 1..Len(journal'), journal'[i].type = "Commit",
                      InHead(journal', i), journal'[i].seq > d.lastSeq
               PROVE  journal'[i - 1].seq > d.lastSeq /\ Older(d, journal'[i - 1].mut.id)
    BY DEF Unread
  <2>1. CASE i = n + 1
    <3>1. step = "Commit" /\ n \in 1..n /\ i - 1 = n
      BY <1>2, <1>3, <1>8, <2>1
    <3>2. journal'[i - 1] = journal[n]
      BY <1>3, <3>1
    <3>3. journal[n].seq > d.lastSeq
      <4>1. d.lastSeq \in Nat
        BY DEF DurableDocument
      <4> QED BY <1>4, <1>8, <1>20, <3>1, <4>1
    <3> QED BY <1>8, <1>20, <3>1, <3>2, <3>3
  <2>2. CASE i \in 1..n
    <3>1. journal'[i] = journal[i] /\ InHead(journal, i)
      BY <1>3, <1>10, <2>2
    <3>2. i >= 1
      BY <2>2
    <3> QED BY <1>13, <1>20, <2>2, <3>1, <3>2 DEF Unread, n
  <2> QED BY <1>9, <2>1, <2>2
<1>21. DocsInv'
  <2>1. written \subseteq written'
    BY <1>1
  <2>2. Documented(doc)' /\ Documented(snapshot)'
    <3>1. Documented(doc)'
      BY <1>1, <1>12, <2>1 DEF DocsInv, Documented
    <3>2. Documented(snapshot)'
      BY <1>1, <1>12, <2>1 DEF DocsInv, Documented
    <3> QED BY <3>1, <3>2
  <2>3. WrittenSubmitted'
    BY <1>1, <1>6, <1>12 DEF DocsInv, WrittenSubmitted
  <2>4. Unread(journal', snapshot, 1)
    <3>1. snapshot \in DurableDocument
      BY DEF DataOK
    <3> QED BY <1>5, <1>6, <1>12, <1>20, <3>1 DEF DocsInv
  <2>5. Unread(journal, snapshot, 1)'
    BY <1>1, <2>4
  <2> QED BY <2>2, <2>3, <2>5 DEF DocsInv
<1>22. OpenInv'
  <2>1. Unread(journal', doc, 1)
    <3>1. doc \in DurableDocument /\ doc.lastSeq <= doc.lastSeq
      BY <1>4, SMTT(30) DEF DataOK
    <3> QED BY <1>5, <1>6, <1>20, <3>1
  <2>2. Below(journal', nextSeq + 1)
    <3> SUFFICES ASSUME NEW i \in 1..Len(journal'), Closes(journal'[i]), InHead(journal', i)
                 PROVE  journal'[i].seq < nextSeq + 1
      BY DEF Below
    <3>1. CASE i = n + 1
      BY <1>2, <1>3, <1>4, <3>1
    <3>2. CASE i \in 1..n
      <4>1. journal'[i] = journal[i] /\ InHead(journal, i)
        BY <1>3, <1>10, <3>2
      <4>2. journal[i].seq < nextSeq
        BY <1>5, <3>2, <4>1 DEF Below, n
      <4> QED BY <1>4, <3>2, <4>1, <4>2
    <3> QED BY <1>9, <3>1, <3>2
  <2>3. Unread(journal, doc, 1)' /\ Below(journal, nextSeq)'
    BY <1>1, <2>1, <2>2
  <2>4. snapshot'.lastSeq <= doc'.lastSeq /\ doc'.lastSeq < nextSeq'
    BY <1>1, <1>4, <1>5
  <2> QED BY <2>3, <2>4 DEF OpenInv
<1>23. CommitInv'
  <2> SUFFICES ASSUME step # "Rebase" PROVE CommitInv'
    BY <1>1 DEF CommitInv, InCommit
  <2>1. /\ mut'.id < nextId'
        /\ Older(snapshot, mut.id)' /\ Older(doc, mut.id)'
    BY <1>1, <1>6
  <2>2. CASE step = "Intent"
    <3>1. \A i \in 1..Len(journal') : journal'[i].type = "Payload" => journal'[i].mut.id < mut'.id
      BY <1>1, <1>2, <1>3, <1>7, <1>9, <2>2
    <3> QED BY <1>1, <2>1, <2>2, <3>1 DEF CommitInv
  <2>3. CASE step = "Payload"
    <3>1. PayloadLast'
      BY <1>1, <1>2, <1>3, <1>5, <2>3 DEF PayloadLast
    <3> QED BY <1>1, <2>1, <2>3, <3>1 DEF CommitInv
  <2>4. CASE step = "Commit"
    BY <1>1, <2>1, <2>4 DEF CommitInv
  <2> QED BY <2>2, <2>3, <2>4 DEF DataOK, RecordType
<1> QED BY <1>1, <1>19, <1>21, <1>22, <1>23 DEF ReadInv, LoopInv

-----------------------------------------------------------------------------
(* The theorems *)

\* Every step of the store keeps ReadInv.
LEMMA ReadStep ==
  DataOK /\ DataOK' /\ FileInv /\ ReadInv /\ [Next]_vars => ReadInv'
<1> SUFFICES ASSUME DataOK, DataOK', FileInv, ReadInv, [Next]_vars PROVE ReadInv'
  OBVIOUS
<1>0. Len(journal) \in 0..Len(journal)
  BY Numbers
<1>1. CASE AppendRefused \/ RebaseFails \/ FinishRebase
  <2>1. /\ InSession /\ pc' = "idle" /\ journal' = journal
        /\ UNCHANGED <<snapshot, nextSeq, doc, written, nextId>>
    BY <1>1 DEF AppendRefused, RebaseFails, FinishRebase, disk, InSession
  <2> QED BY <1>0, <2>1, UnchangedKept, BackToIdleRead
<1>2. CASE ShortWrite
  <2>1. InSession /\ pc' = "idle" /\ UNCHANGED <<snapshot, nextSeq, doc, written, nextId>>
    BY <1>2 DEF ShortWrite, InSession
  <2> QED BY <1>0, <1>2, <2>1, ShortWriteKept, BackToIdleRead
<1>3. CASE SyncFails
  <2>1. InSession /\ pc' = "idle" /\ UNCHANGED <<snapshot, nextSeq, doc, written, nextId>>
    BY <1>3 DEF SyncFails, InSession
  <2> QED BY <1>3, <2>1, SyncFailsKept, BackToIdleRead
<1>4. CASE Crash
  <2>1. Forget /\ UNCHANGED <<snapshot, written, nextId>>
    BY <1>4 DEF Crash
  <2> QED BY <1>4, <2>1, CrashKept, ForgetRead
<1>5. CASE Close
  <2>1. Forget /\ journal' = journal /\ UNCHANGED <<snapshot, written, nextId>>
    BY <1>5 DEF Close, disk
  <2> QED BY <1>0, <2>1, UnchangedKept, ForgetRead
<1>6. CASE CutFails
  <2>1. /\ Forget /\ UNCHANGED <<snapshot, written, nextId>> /\ valid <= Len(journal)
        /\ journal' = journal \/ journal' = SubSeq(journal, 1, valid)
    BY <1>6 DEF CutFails, FileInv
  <2>2. PICK n \in 0..Len(journal) : Kept(n)
    BY <1>0, <2>1, UnchangedKept, CutKept DEF Kept
  <2> QED BY <2>1, <2>2, ForgetRead
<1>7. CASE OpenRefused \/ UNCHANGED vars
  <2>1. UNCHANGED vars
    BY <1>7 DEF OpenRefused
  <2>2. HeadInv' /\ DocsInv'
    BY <2>1 DEF vars, ReadInv, HeadInv, CommitShape, PayloadsInOrder, PayloadsSubmitted,
                CommitsWritten, HeadInOrder, DocsInv, Documented, WrittenSubmitted
  <2>3. OpenInv' /\ CommitInv' /\ LoopInv'
    BY <2>1 DEF vars, ReadInv, OpenInv, CommitInv, LoopInv, InSession, InCommit,
                PayloadLast, TornAt
  <2> QED BY <2>2, <2>3 DEF ReadInv
<1> QED BY <1>1, <1>2, <1>3, <1>4, <1>5, <1>6, <1>7, BeginCommitRead, AppendRecordRead,
           SyncRecordRead, FinishCommitRead, WriteSnapshotRead, RebaseJournalRead,
           BeginOpenRead, ReplayRecordRead, FinishOpenRead DEF Next

\* The invariant of the head of the journal, with no exception for a journal
\* whose torn bytes were built upon.
LEMMA ReadInvariance == Spec => []ReadInv
<1>1. Init => ReadInv
  <2> SUFFICES ASSUME Init PROVE ReadInv
    OBVIOUS
  <2>1. /\ \A i \in 1..Len(journal) : FALSE
        /\ pc = "closed" /\ written = {}
        /\ snapshot = EmptyDocument /\ doc = EmptyDocument
    BY DEF Init
  <2>2. Documented(EmptyDocument)
    BY DEF Documented, EmptyDocument
  <2>3. HeadInv
    BY <2>1 DEF HeadInv, CommitShape, PayloadsInOrder, PayloadsSubmitted,
                CommitsWritten, HeadInOrder
  <2>4. DocsInv
    BY <2>1, <2>2 DEF DocsInv, WrittenSubmitted, Unread
  <2> QED BY <2>1, <2>3, <2>4 DEF ReadInv, OpenInv, InSession, CommitInv, InCommit, LoopInv
<1>2. IInv /\ IInv' => DataOK /\ DataOK' /\ FileInv
  BY DEF IInv, TypeOK
<1> QED BY <1>1, <1>2, ReadStep, Invariance, PTL DEF Spec

\* Replay never applies an unfinished attempt, and neither does a session: all
\* the document and the snapshot ever hold had its Commit record appended,
\* through crashes, failed flushes and even a journal corrupted by appends
\* behind torn bytes.
THEOREM OnlyCommittedIsApplied == Spec => []OnlyCommittedApplied
<1>1. ReadInv => OnlyCommittedApplied
  BY DEF ReadInv, DocsInv, Documented, OnlyCommittedApplied
<1> QED BY <1>1, ReadInvariance, PTL

\* No history entry is ever applied twice or out of order, whatever snapshot
\* and journal replay meets: the sequence numbers that tell the two apart
\* restart at every open and still never mislead it.
THEOREM HistoryStaysInOrder == Spec => []HistoryInOrder
<1>1. ReadInv => HistoryInOrder
  BY DEF ReadInv, DocsInv, Documented, HistoryInOrder
<1> QED BY <1>1, ReadInvariance, PTL

-----------------------------------------------------------------------------
(***************************************************************************)
(* Third part: the store keeps what DocumentStore promises.  Every step of *)
(* the journal, its replay and the snapshots is a step of that             *)
(* specification or changes nothing that it can see.  DocumentStore speaks *)
(* of the keys; that entries of the bounded history list survive, too, is  *)
(* proved at the end.                                                      *)
(***************************************************************************)

-----------------------------------------------------------------------------
(* The refinement of DocumentStore *)

\* The document as the user of the store sees it.
Image == IF InSession THEN doc.image ELSE EmptyDocument.image

\* A step that keeps all that the user sees is a stuttering step of the promise.
LEMMA Stutters ==
  ASSUME UNCHANGED <<InSession, Image, InFlight, written, acked, buried>>
  PROVE  UNCHANGED Promise!vars
BY DEF Promise!vars, Image

\* Mutations are numbered from 1, so none of them is mistaken for no mutation.
Numbered == nextId > 0 /\ (InCommit => mut.id > 0)

LEMMA NumberedStep ==
  DataOK /\ Numbered /\ [Next]_vars => Numbered'
<1> SUFFICES ASSUME DataOK, Numbered, [Next]_vars PROVE Numbered'
  OBVIOUS
<1>1. ASSUME NEW t \in Targets, BeginCommit(t) PROVE Numbered'
  <2>1. mut' = [id |-> nextId, target |-> t] /\ nextId' = nextId + 1
    BY <1>1 DEF BeginCommit
  <2> QED BY <2>1, Numbers DEF Numbered
<1>2. ASSUME nextId' = nextId, ~InCommit' \/ (InCommit /\ mut' = mut) PROVE Numbered'
  BY <1>2 DEF Numbered
<1>3. CASE AppendRecord \/ SyncRecord
  BY <1>2, <1>3 DEF AppendRecord, SyncRecord, commitVars, InCommit
<1>4. CASE AppendRefused \/ ShortWrite \/ FinishCommit \/ SyncFails \/ WriteSnapshot
  BY <1>2, <1>4 DEF AppendRefused, ShortWrite, FinishCommit, SyncFails, WriteSnapshot, InCommit
<1>5. CASE RebaseJournal \/ RebaseFails \/ FinishRebase \/ BeginOpen \/ FinishOpen
  BY <1>2, <1>5 DEF RebaseJournal, RebaseFails, FinishRebase, BeginOpen, FinishOpen, InCommit
<1>6. CASE ReplayRecord \/ CutFails \/ Close \/ Crash
  BY <1>2, <1>6 DEF ReplayRecord, CutFails, Close, Crash, Forget, commitVars, InCommit
<1>7. CASE OpenRefused \/ UNCHANGED vars
  BY <1>7 DEF OpenRefused, vars, Numbered, InCommit
<1> QED BY <1>1, <1>3, <1>4, <1>5, <1>6, <1>7 DEF Next

\* What is in flight: the mutation of a commit, and nothing outside one.
LEMMA FlightBusy ==
  ASSUME DataOK, FileInv, Numbered
  PROVE  /\ InCommit => InFlight = mut /\ mut \in Mutation /\ mut # NoMutation
         /\ ~InCommit => InFlight = NoMutation
<1>1. /\ InCommit => InFlight = mut
      /\ ~InCommit => InFlight = NoMutation
  BY DEF InCommit, InFlight
<1>2. InCommit => mut \in Mutation /\ mut.id > 0
  BY DEF InCommit, FileInv, Numbered
<1>3. NoMutation.id = 0
  BY DEF NoMutation
<1> QED BY <1>1, <1>2, <1>3

\* The same after a step.
LEMMA FlightBusyNext ==
  ASSUME DataOK', FileInv', Numbered'
  PROVE  /\ InCommit' => InFlight' = mut' /\ mut' \in Mutation /\ mut' # NoMutation
         /\ ~InCommit' => InFlight' = NoMutation
<1>1. /\ InCommit' => InFlight' = mut'
      /\ ~InCommit' => InFlight' = NoMutation
  BY DEF InCommit, InFlight
<1>2. InCommit' => mut' \in Mutation /\ mut'.id > 0
  BY DEF InCommit, FileInv, Numbered
<1>3. NoMutation.id = 0
  BY DEF NoMutation
<1> QED BY <1>1, <1>2, <1>3

\* A step that stays inside or outside a session and a commit, and keeps the
\* image, is a stuttering step.
LEMMA QuietStep ==
  ASSUME InSession' = InSession, InSession => doc'.image = doc.image,
         InFlight' = InFlight, UNCHANGED <<written, acked, buried>>
  PROVE  UNCHANGED Promise!vars
<1>1. Image' = Image
  BY DEF Image
<1> QED BY <1>1, Stutters

\* BeginCommit is Begin: its number is new.
LEMMA BeginIsBegin ==
  ASSUME DataOK, FileInv, Numbered, DataOK', FileInv', Numbered', ReadInv,
         \A m \in acked : m.id < nextId, NEW t \in Targets, BeginCommit(t)
  PROVE  Promise!Begin
<1>0. /\ pc = "idle" /\ pc' = "append" /\ step' = "Intent"
      /\ mut' = [id |-> nextId, target |-> t]
      /\ UNCHANGED <<doc, written, acked, buried>>
  BY DEF BeginCommit
<1>1. InSession /\ InSession' /\ ~InCommit /\ InCommit'
  BY <1>0 DEF InSession, InCommit
<1>2. InFlight = NoMutation /\ InFlight' = mut' /\ InFlight' # NoMutation
  BY <1>1, FlightBusy, FlightBusyNext
<1>3. \A m \in written \cup acked : m.id < InFlight'.id
  BY <1>0, <1>2 DEF ReadInv, DocsInv, WrittenSubmitted
<1> QED BY <1>0, <1>1, <1>2, <1>3 DEF Promise!Begin

\* The whole append of a Commit record is Reach, that of another is nothing.
LEMMA AppendIsReach ==
  ASSUME DataOK, FileInv, Numbered, AppendRecord, ~buried, ~buried', FlagsOK, FlagsOK'
  PROVE  Promise!Reach \/ UNCHANGED Promise!vars
<1>0. /\ pc = "append" /\ pc' = "sync"
      /\ written' = IF step = "Commit" THEN written \cup {mut} ELSE written
      /\ UNCHANGED <<doc, step, mut, acked>>
  BY DEF AppendRecord, commitVars
<1>1. InSession' = InSession /\ InFlight' = InFlight
  BY <1>0 DEF InSession, InFlight
<1>2. buried' = buried
  BY DEF FlagsOK
<1>3. CASE step = "Commit"
  <2>1. InFlight = mut /\ InFlight # NoMutation
    BY <1>0, <1>3, FlightBusy DEF InCommit
  <2> QED BY <1>0, <1>1, <1>2, <1>3, <2>1 DEF Promise!Reach
<1>4. CASE step # "Commit"
  BY <1>0, <1>1, <1>2, <1>4, QuietStep
<1> QED BY <1>3, <1>4

\* FinishCommit is Commit.
LEMMA FinishIsCommit ==
  ASSUME DataOK, FileInv, Numbered, DataOK', ReadInv, FinishCommit
  PROVE  Promise!Commit
<1>0. /\ pc = "sync" /\ step = "Commit" /\ pc' = "idle"
      /\ acked' = acked \cup {mut}
      /\ UNCHANGED <<written, buried, step>>
  BY DEF FinishCommit, commitVars
<1>1. InSession /\ InSession' /\ InCommit /\ ~InCommit'
  BY <1>0 DEF InSession, InCommit
<1>2. InFlight = mut /\ mut \in Mutation /\ mut \in written
  BY <1>0, <1>1, FlightBusy DEF ReadInv, CommitInv
<1>3. InFlight' = NoMutation
  BY <1>0 DEF InFlight
<1>4. doc'.image = [k \in Keys |-> IF mut.target = k THEN mut.id ELSE doc.image[k]]
  <2>1. doc \in DurableDocument /\ Apply(doc, mut) \in DurableDocument
    BY ApplyType DEF DataOK
  <2>2. \A k \in Keys : Apply(doc, mut).image[k] = IF k = mut.target THEN mut.id ELSE doc.image[k]
    BY <1>2, <2>1, ApplyValue
  <2>3. doc' = [Apply(doc, mut) EXCEPT !.lastSeq = nextSeq - 1,
                                       !.history = Prune(Apply(doc, mut).history)]
    BY DEF FinishCommit
  <2>4. doc'.image = Apply(doc, mut).image /\ doc'.image \in [Keys -> Nat]
    BY <2>1, <2>3 DEF DurableDocument
  <2> QED BY <2>2, <2>4
<1>5. Image = doc.image /\ Image' = doc'.image
  BY <1>1 DEF Image
<1> QED BY <1>0, <1>1, <1>2, <1>3, <1>4 DEF Promise!Commit

\* An operation that gives up is Fail, or nothing when it was a checkpoint.
LEMMA GivesUpIsFail ==
  ASSUME DataOK, FileInv, Numbered, InSession, pc' = "idle",
         UNCHANGED <<doc, written, acked, buried>>
  PROVE  Promise!Fail \/ UNCHANGED Promise!vars
<1>1. InSession' /\ InFlight' = NoMutation
  BY DEF InSession, InFlight
<1>2. CASE InCommit
  BY <1>1, <1>2, FlightBusy DEF Promise!Fail
<1>3. CASE ~InCommit
  BY <1>1, <1>3, FlightBusy, QuietStep
<1> QED BY <1>2, <1>3

\* The end of a session is Stop, and outside a session nothing.
LEMMA ForgetIsStop ==
  ASSUME DataOK, FileInv, Numbered, Forget, UNCHANGED <<written, acked, buried>>
  PROVE  Promise!Stop \/ UNCHANGED Promise!vars
<1>1. ~InSession' /\ InFlight' = NoMutation
  BY DEF Forget, InSession, InFlight
<1>2. CASE InSession
  BY <1>1, <1>2 DEF Promise!Stop, Promise!Blank, EmptyDocument
<1>3. CASE ~InSession
  <2>1. InFlight = NoMutation
    BY <1>3 DEF InSession, InFlight
  <2>2. InSession' = InSession
    BY <1>1, <1>3 DEF InSession
  <2> QED BY <1>1, <1>3, <2>1, <2>2, QuietStep
<1> QED BY <1>2, <1>3

\* Store::open is Open: replay brought back what was acknowledged, and nothing
\* that was not on its way to the disk.
LEMMA FinishIsOpen ==
  ASSUME DataOK, DataOK', FileInv, Numbered, ReadInv, FinishOpen,
         \A m \in acked' : m.target \in Keys => doc'.image[m.target] >= m.id
  PROVE  Promise!Open
<1>0. /\ pc = "replay" /\ pc' = "idle" /\ doc' = Recovered
      /\ UNCHANGED <<written, acked, buried>>
  BY DEF FinishOpen
<1>1. ~InSession /\ InSession'
  BY <1>0 DEF InSession
<1>2. InFlight = NoMutation /\ InFlight' = NoMutation
  BY <1>0 DEF InFlight
<1>3. doc'.image = doc.image /\ doc.image \in [Keys -> Nat]
  BY <1>0 DEF Recovered, DataOK, DurableDocument
<1>4. ASSUME NEW k \in Keys, doc.image[k] # 0
      PROVE  \E m \in written : m.id = doc.image[k] /\ m.target = k
  <2>1. [id |-> doc.image[k], target |-> k] \in written
    BY <1>4 DEF ReadInv, DocsInv, Documented
  <2> QED BY <2>1
<1>5. doc.image \in [Keys -> {0} \cup {m.id : m \in written}]
  BY <1>3, <1>4
<1>6. ASSUME NEW k \in Keys, NEW m \in acked, m.target = k PROVE m.id <= doc.image[k]
  <2>1. doc.image[k] >= m.id
    BY <1>0, <1>3, <1>6
  <2>2. m.id \in Nat /\ doc.image[k] \in Nat
    BY Numbers
  <2> QED BY <2>1, <2>2
<1>7. (IF InSession THEN doc.image ELSE EmptyDocument.image)' = doc.image
  BY <1>1, <1>3
<1> QED BY <1>0, <1>1, <1>2, <1>4, <1>5, <1>6, <1>7 DEF Promise!Open

\* Every step of the store is a step of the promise or a stuttering step.
LEMMA PromiseStep ==
  /\ IInv /\ IInv' /\ ReadInv /\ Numbered /\ Numbered' /\ [Next]_vars
  => [Promise!Next]_(Promise!vars)
<1> SUFFICES ASSUME IInv, IInv', ReadInv, Numbered, Numbered', [Next]_vars
             PROVE  Promise!Next \/ UNCHANGED Promise!vars
  OBVIOUS
<1>1. /\ DataOK /\ FileInv /\ FlagsOK /\ DataOK' /\ FileInv' /\ FlagsOK'
  BY DEF IInv, TypeOK
<1>2. CASE buried'
  BY <1>2 DEF Promise!Next, Promise!Damaged
<1>3. SUFFICES ASSUME ~buried' PROVE Promise!Next \/ UNCHANGED Promise!vars
  BY <1>2
<1>4. ~buried
  BY <1>3, Zenon DEF Next, vars, BeginCommit, AppendRecord, AppendRefused, ShortWrite, SyncRecord,
         FinishCommit, SyncFails, WriteSnapshot, RebaseJournal, RebaseFails,
         FinishRebase, BeginOpen, OpenRefused, ReplayRecord, FinishOpen, CutFails,
         Close, Crash
<1>5. Sound /\ Sound'
  BY <1>3, <1>4 DEF IInv
<1>6. buried' = buried
  BY <1>1, <1>3, <1>4 DEF FlagsOK
<1>7. ASSUME NEW t \in Targets, BeginCommit(t) PROVE Promise!Begin
  <2>1. \A m \in acked : m.id < nextId
    BY <1>5 DEF Sound, DiskInv, IdsBounded
  <2> QED BY <1>1, <1>7, <2>1, BeginIsBegin
<1>8. CASE AppendRecord
  BY <1>1, <1>3, <1>4, <1>8, AppendIsReach DEF Promise!Next
<1>9. CASE FinishCommit
  BY <1>1, <1>9, FinishIsCommit DEF Promise!Next
<1>10. CASE AppendRefused \/ ShortWrite \/ SyncFails \/ RebaseFails \/ FinishRebase
  <2>1. InSession /\ pc' = "idle" /\ UNCHANGED <<doc, written, acked, buried>>
    BY <1>6, <1>10
       DEF AppendRefused, ShortWrite, SyncFails, RebaseFails, FinishRebase, InSession
  <2> QED BY <1>1, <2>1, GivesUpIsFail DEF Promise!Next
<1>11. CASE CutFails \/ Close \/ Crash
  <2>1. Forget /\ UNCHANGED <<written, acked, buried>>
    BY <1>11 DEF CutFails, Close, Crash
  <2> QED BY <1>1, <2>1, ForgetIsStop DEF Promise!Next
<1>12. CASE FinishOpen
  <2>1. InSession'
    BY <1>12 DEF FinishOpen, InSession
  <2>2. \A m \in acked' : m.target \in Keys => doc'.image[m.target] >= m.id
    BY <1>5, <2>1 DEF Sound, SessionInv
  <2> QED BY <1>1, <1>12, <2>2, FinishIsOpen DEF Promise!Next
<1>13. CASE SyncRecord \/ WriteSnapshot \/ RebaseJournal
  <2>1. /\ InSession' = InSession /\ InFlight' = InFlight
        /\ UNCHANGED <<doc, written, acked, buried>>
    BY <1>13 DEF SyncRecord, WriteSnapshot, RebaseJournal, commitVars, InSession, InFlight
  <2> QED BY <2>1, QuietStep
<1>14. CASE BeginOpen \/ ReplayRecord
  <2>1. /\ InSession' = InSession /\ InFlight' = InFlight /\ ~InSession
        /\ UNCHANGED <<written, acked, buried>>
    BY <1>14 DEF BeginOpen, ReplayRecord, commitVars, InSession, InFlight
  <2> QED BY <2>1, QuietStep
<1>15. CASE OpenRefused \/ UNCHANGED vars
  <2>1. UNCHANGED vars
    BY <1>15 DEF OpenRefused
  <2> QED BY <2>1, QuietStep DEF vars, InSession, InFlight
<1> QED BY <1>7, <1>8, <1>9, <1>10, <1>11, <1>12, <1>13, <1>14, <1>15
    DEF Next, Promise!Next

\* The store implements DocumentStore: under every interleaving of commits,
\* checkpoints, I/O errors, crashes and restarts its user sees commits take
\* effect one at a time or not at all, a failed one never in the session, and
\* a reopened store with everything acknowledged and nothing that had not
\* reached the disk, until records are appended behind torn bytes.
THEOREM StoreKeepsPromise == Spec => StorePromise
<1>1. Init => Promise!Init
  BY DEF Init, Promise!Init, Promise!Blank, InSession, InFlight, EmptyDocument
<1>2. Init => Numbered
  BY DEF Init, Numbered, InCommit
<1>3. IInv => DataOK
  BY DEF IInv, TypeOK
<1>4. Spec => []Numbered
  BY <1>2, <1>3, NumberedStep, Invariance, PTL DEF Spec
<1> QED BY <1>1, <1>4, PromiseStep, Invariance, ReadInvariance, PTL
    DEF Spec, StorePromise, Promise!Spec

-----------------------------------------------------------------------------
(* The history list *)

\* Entry v left the list h behind MaxHistory later ones.
AgedOut(h, v) ==
  MaxHistory > 0 /\ Len(h) >= MaxHistory /\ \A e \in 1..Len(h) : v < h[e]

\* h accounts for entry v.
Accounts(h, v) == (\E e \in 1..Len(h) : h[e] = v) \/ AgedOut(h, v)

\* Every acknowledged entry is accounted for by the snapshot, or under a
\* flushed Commit that replay will not skip.
EntriesRecoverable ==
  \A m \in acked : m.target = History =>
    \/ Accounts(snapshot.history, m.id)
    \/ \E i \in 1..Len(journal) :
         /\ i <= synced
         /\ journal[i].type = "Commit"
         /\ journal[i].seq > snapshot.lastSeq
         /\ journal[i - 1].mut = m

\* An open store accounts for all of them; replay for those of the snapshot
\* and of the Commits it has read.
EntriesInv ==
  /\ EntriesRecoverable
  /\ InSession => \A m \in acked : m.target = History => Accounts(doc.history, m.id)
  /\ pc = "replay" =>
       /\ \A m \in acked : Accounts(snapshot.history, m.id) => Accounts(doc.history, m.id)
       /\ \A i \in 1..Len(journal) :
            /\ i < pos /\ journal[i].type = "Commit" /\ journal[i].seq > snapshot.lastSeq
            /\ journal[i - 1].mut.target = History
            => Accounts(doc.history, journal[i - 1].mut.id)

\* A later entry pushed back leaves the others accounted for, and is itself.
LEMMA AccountsAppend ==
  ASSUME NEW h \in Seq(Nat), NEW w \in Nat, \A e \in 1..Len(h) : h[e] < w
  PROVE  /\ Append(h, w) \in Seq(Nat)
         /\ Accounts(Append(h, w), w)
         /\ \A v \in Nat : Accounts(h, v) => Accounts(Append(h, w), v)
<1> DEFINE g == Append(h, w)
<1>0. /\ g \in Seq(Nat) /\ Len(h) \in Nat /\ MaxHistory \in Nat
      /\ Len(g) = Len(h) + 1 /\ g[Len(h) + 1] = w
      /\ \A e \in 1..Len(h) : g[e] = h[e] /\ h[e] \in Nat
  BY ConstantsAssumption
<1> HIDE DEF g
<1>1. \A e \in 1..Len(g) : e = Len(h) + 1 \/ e \in 1..Len(h)
  BY <1>0
<1>2. Accounts(g, w)
  BY <1>0 DEF Accounts
<1>3. ASSUME NEW v \in Nat, Accounts(h, v) PROVE Accounts(g, v)
  <2>1. CASE \E e \in 1..Len(h) : h[e] = v
    BY <1>0, <2>1 DEF Accounts
  <2>2. CASE AgedOut(h, v)
    <3>1. 1 \in 1..Len(h) /\ Len(g) >= MaxHistory
      BY <1>0, <2>2 DEF AgedOut
    <3>2. v < h[1] /\ h[1] < w
      BY <2>2, <3>1 DEF AgedOut
    <3>3. v < w
      BY <1>0, <3>1, <3>2
    <3>4. \A e \in 1..Len(g) : v < g[e]
      BY <1>0, <1>1, <2>2, <3>3 DEF AgedOut
    <3> QED BY <2>2, <3>1, <3>4 DEF AgedOut, Accounts
  <2> QED BY <1>3, <2>1, <2>2 DEF Accounts
<1> QED BY <1>0, <1>2, <1>3 DEF g

\* Store::prune_document: an entry that goes is behind MaxHistory later ones.
LEMMA AccountsPrune ==
  ASSUME NEW h \in Seq(Nat), \A e, f \in 1..Len(h) : e < f => h[e] < h[f],
         NEW v \in Nat, Accounts(h, v)
  PROVE  Accounts(Prune(h), v)
<1>0. Len(h) \in Nat /\ MaxHistory \in Nat
  BY ConstantsAssumption
<1>1. CASE MaxHistory = 0 \/ Len(h) <= MaxHistory
  BY <1>1 DEF Prune
<1>2. CASE ~(MaxHistory = 0 \/ Len(h) <= MaxHistory)
  <2> DEFINE g == Prune(h)
             s == Len(h) - MaxHistory
  <2>1. g = SubSeq(h, s + 1, Len(h))
    BY <1>2 DEF Prune
  <2>2. s \in Nat /\ s + 1 \in 1..Len(h) /\ MaxHistory > 0 /\ Len(h) - s = MaxHistory
    BY <1>0, <1>2
  <2>3. /\ Len(g) = MaxHistory
        /\ \A e \in 1..MaxHistory : g[e] = h[e + s]
    BY <1>0, <2>1, <2>2
  <2>4. \A e \in 1..MaxHistory : e + s \in 1..Len(h)
    BY <1>0, <2>2
  <2> HIDE DEF g
  <2>5. CASE AgedOut(h, v)
    <3>1. \A e \in 1..Len(g) : v < g[e]
      BY <2>3, <2>4, <2>5 DEF AgedOut
    <3> QED BY <1>0, <2>2, <2>3, <3>1 DEF AgedOut, Accounts, g
  <2>6. ASSUME NEW e \in 1..Len(h), h[e] = v PROVE Accounts(g, v)
    <3>1. CASE e > s
      <4>1. e - s \in 1..MaxHistory /\ (e - s) + s = e
        BY <1>0, <2>2, <3>1
      <4>2. g[e - s] = v
        BY <2>3, <2>6, <4>1
      <4> QED BY <2>3, <4>1, <4>2 DEF Accounts
    <3>2. CASE ~(e > s)
      <4>1. \A f \in 1..MaxHistory : e < f + s
        BY <1>0, <2>2, <3>2
      <4>2. \A f \in 1..Len(g) : v < g[f]
        BY <2>3, <2>4, <2>6, <4>1
      <4> QED BY <1>0, <2>2, <2>3, <4>2 DEF AgedOut, Accounts
    <3> QED BY <3>1, <3>2
  <2> QED BY <2>5, <2>6 DEF Accounts, g
<1> QED BY <1>1, <1>2

\* Entries under a flushed Commit stay there when no flushed record is lost.
LEMMA EntriesKept ==
  ASSUME DataOK, DataOK', HeadInv, EntriesRecoverable,
         NEW n \in 0..Len(journal), \A i \in 1..n : journal'[i] = journal[i], n <= Len(journal'),
         \A i \in 1..Len(journal) :
           journal[i].type = "Commit" /\ i <= synced => i <= n /\ i <= synced',
         UNCHANGED <<snapshot, acked>>
  PROVE  EntriesRecoverable'
<1> SUFFICES ASSUME NEW m \in acked, m.target = History, ~Accounts(snapshot.history, m.id)
             PROVE  \E i \in 1..Len(journal') :
                      /\ i <= synced'
                      /\ journal'[i].type = "Commit"
                      /\ journal'[i].seq > snapshot.lastSeq
                      /\ journal'[i - 1].mut = m
  BY DEF EntriesRecoverable
<1>1. PICK i \in 1..Len(journal) :
        /\ i <= synced
        /\ journal[i].type = "Commit"
        /\ journal[i].seq > snapshot.lastSeq
        /\ journal[i - 1].mut = m
  BY DEF EntriesRecoverable
<1>2. i <= n /\ i <= synced' /\ i > 1
  BY <1>1 DEF HeadInv, CommitShape
<1>3. i \in 1..Len(journal') /\ journal'[i] = journal[i] /\ journal'[i - 1] = journal[i - 1]
  BY <1>2, Numbers, NumbersNext, SMTT(30)
<1> QED BY <1>1, <1>2, <1>3

\* The flush of a Commit acknowledges its mutation.
LEMMA FinishCommitEntries ==
  ASSUME DataOK, DataOK', FileInv, Sound, ReadInv, EntriesInv, FinishCommit
  PROVE  EntriesInv'
<1> DEFINE n == Len(journal)
           h == Apply(doc, mut).history
<1>0. /\ pc = "sync" /\ step = "Commit" /\ pc' = "idle" /\ synced' = n
      /\ acked' = acked \cup {mut}
      /\ UNCHANGED <<journal, snapshot>>
  BY DEF Flush, FinishCommit
<1>1. mut \in Mutation /\ mut.id \in Nat /\ Older(doc, mut.id) /\ mut \in written
  BY <1>0, SlotId DEF FileInv, DataOK, ReadInv, CommitInv, InCommit
<1>2. doc \in DurableDocument /\ Apply(doc, mut) \in DurableDocument
  BY ApplyType DEF DataOK
<1>3. doc'.history = Prune(h)
  <2>1. doc' = [Apply(doc, mut) EXCEPT !.lastSeq = nextSeq - 1,
                                       !.history = Prune(Apply(doc, mut).history)]
    BY DEF FinishCommit
  <2> QED BY <1>2, <2>1 DEF DurableDocument
<1>4. /\ n > 1 /\ journal[n].type = "Commit" /\ journal[n].seq = nextSeq - 1
      /\ journal[n].seq > doc.lastSeq /\ journal[n - 1].mut = mut
      /\ snapshot.lastSeq <= doc.lastSeq
  BY <1>0 DEF Sound, FlightInv, SessionInv, InSession
<1>5. EntriesRecoverable'
  <2> SUFFICES ASSUME NEW m \in acked \cup {mut}, m.target = History,
                      ~Accounts(snapshot.history, m.id)
               PROVE  \E i \in 1..n :
                        /\ i <= n
                        /\ journal[i].type = "Commit"
                        /\ journal[i].seq > snapshot.lastSeq
                        /\ journal[i - 1].mut = m
    BY <1>0 DEF EntriesRecoverable
  <2>1. CASE m \in acked
    BY <2>1, Numbers DEF EntriesInv, EntriesRecoverable
  <2>2. CASE m = mut
    <3>1. n \in 1..n /\ n <= n
      BY <1>4, Numbers
    <3>2. journal[n].seq > snapshot.lastSeq
      BY <1>4, <3>1, Numbers, Fields
    <3> QED BY <1>4, <2>2, <3>1, <3>2
  <2> QED BY <2>1, <2>2
<1>6. /\ h \in Seq(Nat)
      /\ h = doc.history \/ h = Append(doc.history, mut.id)
      /\ mut.target = History => h = Append(doc.history, mut.id)
  <2>1. h \in Seq(Nat)
    BY <1>2 DEF DurableDocument
  <2>2. CASE mut.target \in Keys
    <3>1. h = doc.history /\ mut.target # History
      BY <1>2, <2>2, ConstantsAssumption DEF Apply, DurableDocument
    <3> QED BY <2>1, <3>1
  <2>3. CASE mut.target \notin Keys
    BY <1>2, <2>1, <2>3 DEF Apply, DurableDocument
  <2> QED BY <2>2, <2>3
<1>7. doc.history \in Seq(Nat) /\ \A e \in 1..Len(doc.history) : doc.history[e] < mut.id
  BY <1>1, <1>2 DEF Older, DurableDocument
<1>8. \A e, f \in 1..Len(h) : e < f => h[e] < h[f]
  <2>1. Documented(Apply(doc, mut))
    BY <1>1, <1>2, ApplyDocumented DEF ReadInv, DocsInv
  <2> QED BY <2>1 DEF Documented
<1> HIDE DEF h
<1>9. ASSUME NEW m \in acked', m.target = History PROVE Accounts(doc'.history, m.id)
  <2>1. m.id \in Nat
    BY NumbersNext
  <2>2. Accounts(h, m.id)
    <3>1. CASE m = mut
      BY <1>1, <1>6, <1>7, <1>9, <3>1, AccountsAppend
    <3>2. CASE m \in acked
      <4>1. Accounts(doc.history, m.id)
        BY <1>0, <1>9, <3>2 DEF EntriesInv, InSession
      <4> QED BY <1>1, <1>6, <1>7, <2>1, <4>1, AccountsAppend, ZenonT(30)
    <3> QED BY <1>0, <3>1, <3>2
  <2> QED BY <1>3, <1>6, <1>8, <2>1, <2>2, AccountsPrune
<1> QED BY <1>0, <1>5, <1>9 DEF EntriesInv

\* One record of the replay loop.
LEMMA ReplayRecordEntries ==
  ASSUME DataOK, DataOK', FileInv, Sound, ReadInv, EntriesInv, ReplayRecord
  PROVE  EntriesInv'
<1> DEFINE r == journal[pos]
<1>0. /\ pc = "replay" /\ pos <= valid /\ pos' = pos + 1
      /\ UNCHANGED <<journal, synced, snapshot, pc, acked>>
  BY DEF ReplayRecord, disk
<1>1. /\ pos \in 1..Len(journal) /\ r.seq \in Nat /\ doc.lastSeq \in Nat
      /\ Len(journal) \in Nat /\ pos >= pos
  BY <1>0, Numbers, Fields DEF FileInv
<1>2. EntriesRecoverable'
  BY <1>0 DEF EntriesInv, EntriesRecoverable
<1>3. HeadInv /\ LoopInv
  BY DEF ReadInv
<1> DEFINE Keeps == \A v \in Nat : Accounts(doc.history, v) => Accounts(doc'.history, v)
           Reads == /\ r.type = "Commit" /\ r.seq > snapshot.lastSeq
                    /\ journal[pos - 1].mut.target = History
                    => Accounts(doc'.history, journal[pos - 1].mut.id)
<1>4. SUFFICES Keeps /\ Reads
  <2>1. ASSUME NEW m \in acked', Accounts(snapshot.history, m.id)
        PROVE  Accounts(doc'.history, m.id)
    <3>1. m \in acked /\ m.id \in Nat
      BY <1>0, NumbersNext
    <3>2. Accounts(doc.history, m.id)
      BY <1>0, <2>1, <3>1 DEF EntriesInv
    <3> QED BY <1>4, <3>1, <3>2
  <2>2. ASSUME NEW i \in 1..Len(journal), i < pos + 1, journal[i].type = "Commit",
               journal[i].seq > snapshot.lastSeq, journal[i - 1].mut.target = History
        PROVE  Accounts(doc'.history, journal[i - 1].mut.id)
    <3>1. CASE i = pos
      BY <1>4, <2>2, <3>1
    <3>2. CASE i < pos
      <4>1. Accounts(doc.history, journal[i - 1].mut.id)
        BY <1>0, <2>2, <3>2 DEF EntriesInv
      <4>2. i > 1
        BY <1>3, <2>2 DEF HeadInv, CommitShape
      <4>3. i - 1 \in 1..Len(journal)
        BY <1>1, <4>2
      <4>4. journal[i - 1].mut.id \in Nat
        BY <4>3, Fields
      <4> QED BY <1>4, <4>1, <4>4
    <3> QED BY <1>1, <2>2, <3>1, <3>2
  <2>3. ~InSession'
    BY <1>0 DEF InSession
  <2> QED BY <1>0, <1>2, <2>1, <2>2, <2>3 DEF EntriesInv
<1>5. CASE Skipped(r) /\ UNCHANGED <<doc, pending>>
  <2>1. ASSUME r.type = "Commit", r.seq > snapshot.lastSeq PROVE FALSE
    <3>1. r.seq > doc.lastSeq
      BY <1>0, <1>1, <2>1 DEF Sound, ReplayInv
    <3>2. Found(r) = {}
      BY <1>1, <1>5, <2>1, <3>1 DEF Fresh, Skipped
    <3> QED BY <1>0, <1>3, <2>1, <3>1, <3>2, PendingIsCommitted
  <2> QED BY <1>5, <2>1
<1>6. CASE r.type = "Payload" /\ doc' = doc
  BY <1>6
<1>7. ASSUME r.seq > doc.lastSeq, r.type = "Commit", NEW p \in Found(r),
             doc' = [Apply(doc, p.mut) EXCEPT !.lastSeq = r.seq]
      PROVE  Keeps /\ Reads
  <2>1. /\ p.mut = journal[pos - 1].mut /\ p.mut \in Mutation /\ Older(doc, p.mut.id)
    BY <1>0, <1>3, <1>7, PendingIsCommitted
  <2>2. doc \in DurableDocument /\ Apply(doc, p.mut) \in DurableDocument
    BY <2>1, ApplyType DEF DataOK, MutationSlot
  <2>3. doc'.history = Apply(doc, p.mut).history
    BY <1>7, <2>2 DEF DurableDocument
  <2>4. /\ doc.history \in Seq(Nat) /\ p.mut.id \in Nat
        /\ \A e \in 1..Len(doc.history) : doc.history[e] < p.mut.id
    BY <2>1, <2>2 DEF DurableDocument, Mutation, Older
  <2>5. CASE p.mut.target \in Keys
    <3>1. doc'.history = doc.history /\ p.mut.target # History
      BY <2>2, <2>3, <2>5, ConstantsAssumption DEF Apply, DurableDocument
    <3> QED BY <2>1, <3>1
  <2>6. CASE p.mut.target \notin Keys
    <3>1. doc'.history = Append(doc.history, p.mut.id)
      BY <2>2, <2>3, <2>6 DEF Apply, DurableDocument
    <3>2. /\ Accounts(doc'.history, p.mut.id)
          /\ \A v \in Nat : Accounts(doc.history, v) => Accounts(doc'.history, v)
      BY <2>4, <3>1, AccountsAppend, SMTT(30)
    <3> QED BY <2>1, <3>2
  <2> QED BY <2>5, <2>6
<1>8. CASE r.type = "Rebase" /\ doc' = [doc EXCEPT !.lastSeq = r.seq]
  <2>1. doc'.history = doc.history
    BY <1>8 DEF DataOK, DurableDocument
  <2> QED BY <1>8, <2>1
<1> HIDE DEF Keeps, Reads
<1> QED BY <1>5, <1>6, <1>7, <1>8, Zenon DEF Fresh, ReplayRecord

\* Store::open behind its loop: all flushed Commits have been read.
LEMMA FinishOpenEntries ==
  ASSUME DataOK, DataOK', FileInv, Sound, ReadInv, EntriesInv, FinishOpen
  PROVE  EntriesInv'
<1>0. /\ pc = "replay" /\ pos > valid /\ pc' = "idle" /\ doc' = Recovered /\ CutTornTail
      /\ UNCHANGED <<snapshot, acked>>
  BY DEF FinishOpen
<1>1. /\ Len(journal) \in Nat /\ valid \in Nat /\ pos \in Nat /\ valid <= Len(journal)
      /\ synced \in Nat /\ synced <= Len(journal) /\ Len(journal) \in 0..Len(journal)
      /\ valid \in 0..Len(journal)
  BY <1>0, Numbers DEF FileInv
<1>2. doc'.history = doc.history
  BY <1>0 DEF Recovered, DataOK, DurableDocument
<1>3. \A i \in 1..Len(journal) : journal[i].type = "Commit" => i <= valid
  BY <1>0, <1>1 DEF Sound, ReplayInv, TornAt, Torn
<1>4. EntriesRecoverable'
  <2>1. CASE journal' = SubSeq(journal, 1, valid) /\ synced' = valid
    <3>1. Kept(valid) /\ Len(journal') = valid
      BY <1>1, <2>1, CutKept
    <3>2. (\A i \in 1..valid : journal'[i] = journal[i]) /\ valid <= Len(journal')
      BY <1>1, <3>1 DEF Kept
    <3> QED BY <1>0, <1>1, <1>3, <2>1, <3>2, EntriesKept DEF ReadInv, EntriesInv
  <2>2. CASE UNCHANGED <<journal, synced>>
    BY <1>0, <2>2 DEF EntriesInv, EntriesRecoverable
  <2> QED BY <1>0, <2>1, <2>2 DEF CutTornTail
<1>5. ASSUME NEW m \in acked, m.target = History PROVE Accounts(doc.history, m.id)
  <2>1. CASE Accounts(snapshot.history, m.id)
    BY <1>0, <2>1 DEF EntriesInv
  <2>2. ASSUME NEW i \in 1..Len(journal), journal[i].type = "Commit",
               journal[i].seq > snapshot.lastSeq, journal[i - 1].mut = m
        PROVE  Accounts(doc.history, m.id)
    <3>1. i < pos
      BY <1>0, <1>1, <1>3, <2>2
    <3> QED BY <1>0, <1>5, <2>2, <3>1 DEF EntriesInv
  <2> QED BY <1>5, <2>1, <2>2 DEF EntriesInv, EntriesRecoverable
<1>6. \A m \in acked' : m.target = History => Accounts(doc'.history, m.id)
  BY <1>0, <1>2, <1>5
<1> QED BY <1>0, <1>4, <1>6 DEF EntriesInv

\* Every step of the store keeps all acknowledged entries accounted for.
LEMMA EntriesStep ==
  ASSUME IInv, IInv', ReadInv, ~buried, EntriesInv, [Next]_vars
  PROVE  EntriesInv'
<1>0. DataOK /\ DataOK' /\ FileInv /\ FileInv' /\ Sound /\ HeadInv
  BY DEF IInv, TypeOK, ReadInv
<1>1. Len(journal) \in Nat /\ Len(journal') \in Nat /\ synced \in Nat /\ synced <= Len(journal)
      /\ Len(journal) \in 0..Len(journal)
  BY <1>0, Numbers, NumbersNext DEF FileInv
<1>2. ASSUME NEW n \in 0..Len(journal), Kept(n), synced <= n, synced' >= synced, synced' \in Nat,
             UNCHANGED <<snapshot, acked>>
      PROVE  EntriesRecoverable'
  <2>1. (\A i \in 1..n : journal'[i] = journal[i]) /\ n <= Len(journal')
    BY <1>1, <1>2 DEF Kept
  <2>2. \A i \in 1..Len(journal) : i <= synced => i <= n /\ i <= synced'
    BY <1>1, <1>2
  <2> QED BY <1>0, <1>2, <2>1, <2>2, EntriesKept DEF EntriesInv
<1>3. ASSUME EntriesRecoverable', InSession, InSession', UNCHANGED <<doc, acked>> PROVE EntriesInv'
  BY <1>3 DEF EntriesInv, InSession
<1>4. ASSUME EntriesRecoverable', pc' = "closed" PROVE EntriesInv'
  BY <1>4 DEF EntriesInv, InSession
<1>5. ASSUME NEW t \in Targets, BeginCommit(t) PROVE EntriesInv'
  BY <1>5 DEF BeginCommit, disk, EntriesInv, EntriesRecoverable, InSession
<1>6. CASE AppendRefused \/ RebaseFails
  BY <1>6 DEF AppendRefused, RebaseFails, disk, EntriesInv, EntriesRecoverable, InSession
<1>7. CASE SyncRecord \/ FinishRebase
  <2>1. /\ InSession /\ InSession' /\ journal' = journal /\ synced' = Len(journal)
        /\ UNCHANGED <<doc, acked, snapshot>>
    BY <1>7 DEF SyncRecord, FinishRebase, Flush, InSession
  <2>2. EntriesRecoverable'
    BY <1>0, <1>1, <1>2, <2>1, UnchangedKept
  <2> QED BY <1>3, <2>1, <2>2
<1>8. CASE AppendRecord
  <2>1. /\ InSession /\ InSession' /\ journal' = Append(journal, Record) /\ synced' = synced
        /\ UNCHANGED <<doc, acked, snapshot>>
    BY <1>8 DEF AppendRecord, InSession
  <2>2. Record \in JournalRecord
    BY <1>0, RecordType_
  <2>3. (\A i \in 1..Len(journal) : journal'[i] = journal[i]) /\ Len(journal) <= Len(journal')
    BY <1>0, <2>1, <2>2, Numbers
  <2>4. EntriesRecoverable'
    BY <1>0, <1>1, <2>1, <2>3, EntriesKept DEF EntriesInv
  <2> QED BY <1>3, <2>1, <2>4
<1>9. CASE ShortWrite
  <2>1. InSession /\ InSession' /\ synced' = synced /\ UNCHANGED <<doc, acked, snapshot>>
    BY <1>9 DEF ShortWrite, InSession
  <2>2. EntriesRecoverable'
    BY <1>0, <1>1, <1>2, <1>9, <2>1, ShortWriteKept
  <2> QED BY <1>3, <2>1, <2>2
<1>10. CASE SyncFails
  <2>1. InSession /\ InSession' /\ synced' = synced /\ UNCHANGED <<doc, acked, snapshot>>
    BY <1>10 DEF SyncFails, InSession
  <2>2. EntriesRecoverable'
    BY <1>0, <1>1, <1>2, <1>10, <2>1, SyncFailsKept
  <2> QED BY <1>3, <2>1, <2>2
<1>11. CASE WriteSnapshot
  <2>1. /\ InSession /\ InSession' /\ snapshot' = doc /\ UNCHANGED <<doc, acked>>
    BY <1>11 DEF WriteSnapshot, InSession
  <2>2. EntriesRecoverable'
    BY <2>1 DEF EntriesInv, EntriesRecoverable
  <2> QED BY <1>3, <2>1, <2>2
<1>12. CASE RebaseJournal
  <2>1. /\ InSession /\ InSession' /\ snapshot' = snapshot /\ pc = "rebase"
        /\ UNCHANGED <<doc, acked>>
    BY <1>12 DEF RebaseJournal, InSession
  <2>2. snapshot = doc
    BY <1>0, <2>1 DEF Sound, SessionInv
  <2>3. EntriesRecoverable'
    BY <2>1, <2>2 DEF EntriesInv, EntriesRecoverable
  <2> QED BY <1>3, <2>1, <2>3
<1>13. CASE BeginOpen
  <2>1. /\ pc' = "replay" /\ doc' = snapshot /\ pos' = 1
        /\ UNCHANGED <<journal, synced, snapshot, acked>>
    BY <1>13 DEF BeginOpen, disk
  <2>2. EntriesRecoverable'
    BY <2>1 DEF EntriesInv, EntriesRecoverable
  <2>3. \A i \in 1..Len(journal') : ~(i < pos')
    BY <1>1, <2>1
  <2> QED BY <2>1, <2>2, <2>3 DEF EntriesInv, InSession
<1>14. CASE OpenRefused \/ UNCHANGED vars
  BY <1>14 DEF OpenRefused, vars, EntriesInv, EntriesRecoverable, InSession
<1>15. CASE Close
  <2>1. pc' = "closed" /\ UNCHANGED <<journal, synced, snapshot, acked>>
    BY <1>15 DEF Close, Forget, disk
  <2>2. EntriesRecoverable'
    BY <2>1 DEF EntriesInv, EntriesRecoverable
  <2> QED BY <1>4, <2>1, <2>2
<1>16. CASE Crash
  <2>1. pc' = "closed" /\ UNCHANGED <<snapshot, acked>>
    BY <1>16 DEF Crash, Forget
  <2>2. synced' = Len(journal')
    BY <1>0, <1>16, CrashKept
  <2>3. PICK n \in 0..Len(journal) : Kept(n) /\ synced <= n
    BY <1>0, <1>16, CrashKept
  <2>4. synced' >= synced /\ synced' \in Nat
    BY <1>1, <2>2, <2>3 DEF Kept
  <2>5. EntriesRecoverable'
    BY <1>2, <2>1, <2>3, <2>4
  <2> QED BY <1>4, <2>1, <2>5
<1>17. CASE CutFails
  <2>1. /\ pc = "replay" /\ pc' = "closed" /\ UNCHANGED <<snapshot, acked>>
        /\ \/ UNCHANGED <<journal, synced>>
           \/ journal' = SubSeq(journal, 1, valid) /\ synced' = valid
    BY <1>17 DEF CutFails, Forget
  <2>2. CASE UNCHANGED <<journal, synced>>
    BY <1>4, <2>1, <2>2 DEF EntriesInv, EntriesRecoverable
  <2>3. CASE journal' = SubSeq(journal, 1, valid) /\ synced' = valid
    <3>1. valid \in 0..Len(journal) /\ valid <= Len(journal)
      BY <1>0, <1>1, <2>1, Numbers DEF FileInv
    <3>2. Kept(valid) /\ Len(journal') = valid
      BY <1>0, <2>3, <3>1, CutKept
    <3>3. (\A i \in 1..valid : journal'[i] = journal[i]) /\ valid <= Len(journal')
      BY <3>1, <3>2 DEF Kept
    <3>4. \A i \in 1..Len(journal) : journal[i].type = "Commit" => i <= valid
      BY <1>0, <1>1, <2>1, <3>1 DEF Sound, ReplayInv, TornAt, Torn
    <3>5. EntriesRecoverable'
      BY <1>0, <2>1, <2>3, <3>1, <3>3, <3>4, EntriesKept DEF EntriesInv
    <3> QED BY <1>4, <2>1, <3>5
  <2> QED BY <2>1, <2>2, <2>3
<1> QED BY <1>0, <1>5, <1>6, <1>7, <1>8, <1>9, <1>10, <1>11, <1>12, <1>13, <1>14, <1>15,
           <1>16, <1>17, FinishCommitEntries, ReplayRecordEntries, FinishOpenEntries DEF Next

\* An acknowledged history entry survives every crash, restart, checkpoint and
\* I/O error, or has left the list behind max_history_entries later ones.
THEOREM EntriesSurvive == Spec => []AckedEntrySurvives
<1> DEFINE Kin == ~buried => EntriesInv
<1>1. Init => Kin
  BY DEF Init, EntriesInv, EntriesRecoverable, InSession
<1>2. IInv /\ IInv' /\ ReadInv /\ Kin /\ [Next]_vars => Kin'
  <2> SUFFICES ASSUME IInv, IInv', ReadInv, Kin, [Next]_vars, ~buried' PROVE EntriesInv'
    OBVIOUS
  <2>1. ~buried
    BY Zenon DEF Next, vars, BeginCommit, AppendRecord, AppendRefused, ShortWrite, SyncRecord,
         FinishCommit, SyncFails, WriteSnapshot, RebaseJournal, RebaseFails,
         FinishRebase, BeginOpen, OpenRefused, ReplayRecord, FinishOpen, CutFails,
         Close, Crash
  <2> QED BY <2>1, EntriesStep
<1>3. IInv /\ Kin => AckedEntrySurvives
  <2> SUFFICES ASSUME IInv, EntriesInv, InSession, NEW m \in acked, m.target = History,
                      AgedOut(doc.history, m.id)
               PROVE  Cardinality({i \in 1..Len(doc.history) : doc.history[i] > m.id}) >= MaxHistory
    BY DEF AckedEntrySurvives, EntriesInv, Accounts, AgedOut
  <2>1. /\ m.id \in Nat /\ MaxHistory \in Nat
        /\ doc.history \in Seq(Nat) /\ Len(doc.history) \in Nat
    BY Numbers, ConstantsAssumption, SMTT(30) DEF IInv, TypeOK, DataOK, DurableDocument
  <2>2. \A i \in 1..Len(doc.history) : doc.history[i] > m.id
    BY <2>1 DEF AgedOut
  <2>3. {i \in 1..Len(doc.history) : doc.history[i] > m.id} = 1..Len(doc.history)
    BY <2>2
  <2>4. Cardinality(1..Len(doc.history)) = Len(doc.history)
    BY <2>1, FS_Interval
  <2> QED BY <2>1, <2>3, <2>4 DEF AgedOut
<1> HIDE DEF Kin
<1> QED BY <1>1, <1>2, <1>3, Invariance, ReadInvariance, PTL DEF Spec
=============================================================================
