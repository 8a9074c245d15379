-------------------------- MODULE RetentionProofs --------------------------
(***************************************************************************)
(* Proofs about newsletter retention, for any number of batches, rows,     *)
(* commands and files: nothing is deleted that is not in a published       *)
(* escrow, no row loses its parent, and only expired batches go. The last  *)
(* part is about the escrow file line by line (EscrowStream), for files of *)
(* any length and any limits.                                              *)
(***************************************************************************)
EXTENDS Retention, EscrowStream, FiniteSetTheorems, SequenceTheorems, TLAPS

(***************************************************************************)
(* The inductive invariant. What a dry run has streamed and what a file    *)
(* holds are sequences of escrow records; an apply run that got past its   *)
(* admission works from a file that is still published, with one record    *)
(* for each binding.                                                       *)
(***************************************************************************)
StreamInv == records \in [DryRuns -> Seq(EscrowRecord)]

FilesInv ==
    /\ files = [f \in Paths |-> files[f]]
    /\ \A f \in EscrowFiles : files[f].records \in Seq(EscrowRecord)

ControlInv ==
    /\ DOMAIN pc = Commands
    /\ DOMAIN line = Commands
    /\ DOMAIN input = Applies
    /\ completed \in [Applies -> Nat]
    /\ removed \in [Applies -> Seq(Batches)]
    /\ \A p \in Applies :
          /\ pc[p] = "idle" => removed[p] = <<>>
          /\ pc[p] # "idle" => line[p] \in ApplyLines

InputInv ==
    \A p \in Applies : pc[p] \in {"lock", "apply"} =>
       \E f \in EscrowFiles : /\ input[p].escrow = files[f]
                              /\ Len(input[p].bindings) = Len(files[f].records)

IndInv ==
    /\ TablesTypeOK
    /\ StreamInv
    /\ FilesInv
    /\ ControlInv
    /\ InputInv
    /\ ForeignKeysHold
    /\ DeletedIsEscrowed
    /\ OnlyExpiredDeleted

----------------------------------------------------------------------------
(***************************************************************************)
(* The tables.                                                             *)
(***************************************************************************)
USE DEF TablesTypeOK

\* The proxy's writers keep the types and the foreign keys and delete nothing.
LEMMA WritersKeepTables ==
    ASSUME TablesTypeOK, ForeignKeysHold, Writers
    PROVE  TablesTypeOK' /\ ForeignKeysHold' /\ deleted' = deleted /\ messages \subseteq messages'
<1>1. ASSUME NEW m \in Messages, CreateNewsletterEntry(m)
      PROVE  TablesTypeOK' /\ ForeignKeysHold' /\ deleted' = deleted /\ messages \subseteq messages'
  BY <1>1 DEF CreateNewsletterEntry, ForeignKeysHold, Rows
<1>2. ASSUME NEW n \in Notifications, SaveNewsletterNotification(n)
      PROVE  TablesTypeOK' /\ ForeignKeysHold' /\ deleted' = deleted /\ messages \subseteq messages'
  BY <1>2 DEF SaveNewsletterNotification, ForeignKeysHold, Rows
<1>3. ASSUME NEW n \in Notifications, SaveNewsletterNotificationOrphan(n)
      PROVE  TablesTypeOK' /\ ForeignKeysHold' /\ deleted' = deleted /\ messages \subseteq messages'
  BY <1>3 DEF SaveNewsletterNotificationOrphan, ForeignKeysHold, Rows
<1>4. ASSUME NEW n \in Notifications, ReconcileNewsletterNotificationOrphan(n)
      PROVE  TablesTypeOK' /\ ForeignKeysHold' /\ deleted' = deleted /\ messages \subseteq messages'
  BY <1>4 DEF ReconcileNewsletterNotificationOrphan, ForeignKeysHold, Rows
<1> QED
  BY <1>1, <1>2, <1>3, <1>4 DEF Writers

\* The deletes of one transaction keep the types and the foreign keys, and
\* every row they remove is one of the snapshot compared with the escrow.
LEMMA DeleteKeepsTables ==
    ASSUME NEW b \in Batches, TablesTypeOK, ForeignKeysHold, DeleteBatch(b)
    PROVE  TablesTypeOK' /\ ForeignKeysHold' /\ deleted' \subseteq deleted \cup RowsIn(Snapshot(b))
<1>1. /\ MessagesIn(b) \subseteq Messages
      /\ ErrorsIn(b) \subseteq Errors
      /\ NotificationsOn(MessagesIn(b)) \subseteq NotificationsIn(b)
      /\ NotificationsIn(b) \subseteq Notifications
  BY DEF MessagesIn, ErrorsIn, NotificationsOn, NotificationsIn
<1>2. TablesTypeOK'
  BY <1>1 DEF DeleteBatch, Rows
<1>3. ForeignKeysHold'
  BY DEF DeleteBatch, ForeignKeysHold, MessagesIn, ErrorsIn, NotificationsOn
<1>4. RowsIn(Snapshot(b)) = {b} \cup MessagesIn(b) \cup ErrorsIn(b) \cup NotificationsIn(b)
  BY DEF RowsIn, Snapshot
<1> QED
  BY <1>1, <1>2, <1>3, <1>4 DEF DeleteBatch

----------------------------------------------------------------------------
(***************************************************************************)
(* Frame lemmas, one for each kind of step.                                *)
(***************************************************************************)

\* A published file stays as it is.
FilesKept ==
    /\ DOMAIN files' = Paths
    /\ \A f \in Paths : files[f] # None => files'[f] = files[f]

\* What is escrowed stays escrowed.
LEMMA PublishedStays ==
    ASSUME FilesKept
    PROVE  /\ \A f \in EscrowFiles : f \in EscrowFiles' /\ files'[f] = files[f]
           /\ Escrowed \subseteq Escrowed'
<1>1. \A f \in EscrowFiles : f \in EscrowFiles' /\ files'[f] = files[f]
  BY DEF FilesKept, EscrowFiles, IsFile
<1>2. Escrowed \subseteq Escrowed'
  BY <1>1 DEF Escrowed, RowsIn
<1> QED
  BY <1>1, <1>2

\* Where a command may go without touching anything the invariant is about.
MayGo(p, label) ==
    /\ label # "idle"
    /\ p \in Applies =>
          /\ pc[p] # "idle"
          /\ label \in {"lock", "apply"} => pc[p] \in {"lock", "apply"}

\* Such a move keeps the control part of the invariant, and the escrow of an
\* apply run stays published.
LEMMA ControlKept ==
    ASSUME NEW p \in Commands, NEW label, ControlInv, InputInv, FilesKept,
           MayGo(p, label), GoTo(p, label),
           UNCHANGED <<line, input, completed, removed>>
    PROVE  ControlInv' /\ InputInv'
<1>1. \A q \in Applies : q \in Commands
  BY DEF Commands
<1>2. /\ DOMAIN pc' = Commands
      /\ \A q \in Commands : pc'[q] = IF q = p THEN label ELSE pc[q]
  BY DEF ControlInv, GoTo
<1>3. ControlInv'
  BY <1>1, <1>2 DEF ControlInv, MayGo
<1>4. InputInv'
  BY <1>1, <1>2, PublishedStays DEF InputInv, MayGo
<1> QED
  BY <1>3, <1>4

\* What was expired for a command line stays so.
LEMMA OnlyExpiredKept ==
    ASSUME OnlyExpiredDeleted, UNCHANGED <<line, removed>>
    PROVE  OnlyExpiredDeleted'
  BY DEF OnlyExpiredDeleted, Policy

\* A step that only moves a command keeps the invariant.
LEMMA QuietStep ==
    ASSUME NEW p \in Commands, NEW label, IndInv, MayGo(p, label), GoTo(p, label),
           UNCHANGED <<tables, line, records, files, applying>>
    PROVE  IndInv'
<1>1. UNCHANGED <<batches, messages, errors, notifications, orphans, deleted,
                  input, completed, removed>>
  BY DEF tables, applying
<1>2. FilesKept
  BY DEF IndInv, FilesInv, FilesKept
<1>3. TablesTypeOK' /\ ForeignKeysHold' /\ StreamInv'
  BY <1>1 DEF IndInv, ForeignKeysHold, StreamInv
<1>4. FilesInv'
  BY DEF IndInv, FilesInv, EscrowFiles, IsFile
<1>5. ControlInv' /\ InputInv'
  BY <1>1, <1>2, ControlKept DEF IndInv
<1>6. DeletedIsEscrowed'
  BY <1>1, <1>2, PublishedStays DEF IndInv, DeletedIsEscrowed
<1>7. OnlyExpiredDeleted'
  BY <1>1, OnlyExpiredKept DEF IndInv
<1> QED
  BY <1>3, <1>4, <1>5, <1>6, <1>7 DEF IndInv

\* A throw is such a move.
LEMMA FailMoves ==
    ASSUME NEW p \in Commands, pc[p] # "idle", Fail(p)
    PROVE  \E label : MayGo(p, label) /\ GoTo(p, label)
  BY DEF Fail, MayGo

\* A success is such a move.
LEMMA SucceedMoves ==
    ASSUME NEW p \in Commands, pc[p] # "idle", Succeed(p)
    PROVE  \E label : MayGo(p, label) /\ GoTo(p, label)
  BY DEF Succeed, MayGo

\* A dry run may move to any of its labels.
LEMMA DryRunMoves ==
    ASSUME NEW p \in DryRuns, NEW label, label # "idle"
    PROVE  p \in Commands /\ MayGo(p, label)
  BY RetentionConstants DEF Commands, MayGo

\* A step of the escrow stream keeps the invariant.
LEMMA StreamStep ==
    ASSUME NEW p \in DryRuns, NEW label, IndInv, label # "idle", GoTo(p, label),
           StreamInv', UNCHANGED <<tables, line, files, applying>>
    PROVE  IndInv'
<1>1. UNCHANGED <<batches, messages, errors, notifications, orphans, deleted,
                  input, completed, removed>>
  BY DEF tables, applying
<1>2. FilesKept
  BY DEF IndInv, FilesInv, FilesKept
<1>3. TablesTypeOK' /\ ForeignKeysHold'
  BY <1>1 DEF IndInv, ForeignKeysHold
<1>4. FilesInv'
  BY DEF IndInv, FilesInv, EscrowFiles, IsFile
<1>5. ControlInv' /\ InputInv'
  BY <1>1, <1>2, ControlKept, DryRunMoves DEF IndInv
<1>6. DeletedIsEscrowed'
  BY <1>1, <1>2, PublishedStays DEF IndInv, DeletedIsEscrowed
<1>7. OnlyExpiredDeleted'
  BY <1>1, OnlyExpiredKept DEF IndInv
<1> QED
  BY <1>3, <1>4, <1>5, <1>6, <1>7 DEF IndInv

\* Publishing a file keeps the invariant if it replaces nothing and, being an
\* escrow, holds escrow records.
LEMMA PublishStep ==
    ASSUME NEW p \in DryRuns, NEW label, NEW f \in Paths, NEW content, IndInv,
           label # "idle", GoTo(p, label),
           files[f] \in {None, content}, files' = [files EXCEPT ![f] = content],
           content.kind = "escrow" => content.records \in Seq(EscrowRecord),
           UNCHANGED <<tables, line, records, applying>>
    PROVE  IndInv'
<1>1. UNCHANGED <<batches, messages, errors, notifications, orphans, deleted,
                  input, completed, removed>>
  BY DEF tables, applying
<1>2. FilesKept
  BY DEF IndInv, FilesInv, FilesKept
<1>3. TablesTypeOK' /\ ForeignKeysHold' /\ StreamInv'
  BY <1>1 DEF IndInv, ForeignKeysHold, StreamInv
<1>4. FilesInv'
  BY DEF IndInv, FilesInv, EscrowFiles, IsFile
<1>5. ControlInv' /\ InputInv'
  BY <1>1, <1>2, ControlKept, DryRunMoves DEF IndInv
<1>6. DeletedIsEscrowed'
  BY <1>1, <1>2, PublishedStays DEF IndInv, DeletedIsEscrowed
<1>7. OnlyExpiredDeleted'
  BY <1>1, OnlyExpiredKept DEF IndInv
<1> QED
  BY <1>3, <1>4, <1>5, <1>6, <1>7 DEF IndInv

----------------------------------------------------------------------------
(***************************************************************************)
(* The actions.                                                            *)
(***************************************************************************)

\* Starting, locking, releasing, throwing and dying keep the invariant.
LEMMA CommandKeepsInv ==
    ASSUME NEW p \in Commands, IndInv,
           Begin(p) \/ TryAcquire(p) \/ Release(p) \/ Throw(p) \/ Crash(p)
    PROVE  IndInv'
<1>1. CASE Begin(p)
  <2>1. UNCHANGED <<batches, messages, errors, notifications, orphans, deleted,
                    records, files, input, completed, removed>>
    BY <1>1 DEF Begin, tables, dryRun, applying
  <2>2. FilesKept
    BY <2>1 DEF IndInv, FilesInv, FilesKept
  <2>3. /\ DOMAIN line' = Commands
        /\ \A q \in Commands : q # p => line'[q] = line[q]
        /\ DOMAIN pc' = Commands
        /\ \A q \in Commands : q # p => pc'[q] = pc[q]
        /\ pc[p] = "idle"
        /\ pc'[p] = IF p \in DryRuns THEN "lock" ELSE "read"
        /\ p \in Applies => line'[p] \in ApplyLines
    BY <1>1, RetentionConstants DEF Begin, GoTo, IndInv, ControlInv
  <2>4. ControlInv'
    BY <2>1, <2>3, RetentionConstants DEF IndInv, ControlInv, Commands
  <2>5. OnlyExpiredDeleted'
    BY <2>1, <2>3 DEF IndInv, ControlInv, OnlyExpiredDeleted, Policy, Commands
  <2>6. DeletedIsEscrowed'
    BY <2>1, <2>2, PublishedStays DEF IndInv, DeletedIsEscrowed
  <2>7. InputInv'
    BY <2>1, <2>2, <2>3, PublishedStays, RetentionConstants DEF IndInv, InputInv, Commands
  <2>8. TablesTypeOK' /\ ForeignKeysHold' /\ StreamInv' /\ FilesInv'
    BY <2>1 DEF IndInv, ForeignKeysHold, StreamInv, FilesInv, EscrowFiles, IsFile
  <2> QED
    BY <2>4, <2>5, <2>6, <2>7, <2>8 DEF IndInv
<1>2. CASE TryAcquire(p)
  <2>1. UNCHANGED <<tables, line, records, files, applying>>
    BY <1>2 DEF TryAcquire, dryRun
  <2>2. \E label : MayGo(p, label) /\ GoTo(p, label)
    <3>1. CASE holder = None
      BY <1>2, <3>1 DEF TryAcquire, MayGo, IndInv, ControlInv
    <3>2. CASE holder # None
      BY <1>2, <3>2, FailMoves DEF TryAcquire
    <3> QED BY <3>1, <3>2
  <2> QED
    BY <2>1, <2>2, QuietStep
<1>3. CASE Release(p)
  <2>1. UNCHANGED <<tables, line, records, files, applying>>
    BY <1>3 DEF Release, dryRun
  <2>2. MayGo(p, "done") /\ GoTo(p, "done")
    BY <1>3 DEF Release, MayGo
  <2> QED
    BY <2>1, <2>2, QuietStep
<1>4. CASE Throw(p)
  <2>1. UNCHANGED <<tables, line, records, files, applying>>
    BY <1>4 DEF Throw, dryRun
  <2> QED
    BY <1>4, <2>1, QuietStep, FailMoves DEF Throw
<1>5. CASE Crash(p)
  <2>1. UNCHANGED <<tables, line, records, files, applying>>
    BY <1>5 DEF Crash, dryRun
  <2>2. MayGo(p, "crashed") /\ GoTo(p, "crashed")
    BY <1>5 DEF Crash, MayGo
  <2> QED
    BY <2>1, <2>2, QuietStep
<1> QED
  BY <1>1, <1>2, <1>3, <1>4, <1>5

\* Losing the lock's connection changes nothing the invariant speaks of: no
\* part of it rests on mutual exclusion.
LEMMA LoseLockKeepsInv ==
    ASSUME NEW p \in Commands, IndInv, LoseLock(p)
    PROVE  IndInv'
<1>1. UNCHANGED <<batches, messages, errors, notifications, orphans, deleted, pc,
                  line, records, files, input, completed, removed>>
  BY DEF LoseLock, tables, dryRun, applying
<1>2. FilesKept
  BY <1>1 DEF IndInv, FilesInv, FilesKept
<1>3. TablesTypeOK' /\ ForeignKeysHold' /\ StreamInv' /\ FilesInv' /\ ControlInv'
  BY <1>1 DEF IndInv, ForeignKeysHold, StreamInv, FilesInv, EscrowFiles, IsFile, ControlInv
<1>4. InputInv' /\ DeletedIsEscrowed' /\ OnlyExpiredDeleted'
  BY <1>1, <1>2, PublishedStays, OnlyExpiredKept DEF IndInv, InputInv, DeletedIsEscrowed
<1> QED
  BY <1>3, <1>4 DEF IndInv

\* The next candidate or the next stage.
LEMMA AdvanceMoves ==
    ASSUME NEW p \in DryRuns, NEW again, NEW then, again # "idle", then # "idle",
           Advance(p, again, then)
    PROVE  \E label : label # "idle" /\ GoTo(p, label)
  BY DEF Advance

\* The selection queries and the plan only move the dry run.
LEMMA SelectionKeepsInv ==
    ASSUME NEW p \in DryRuns, IndInv,
           LoadBatches(p) \/ LoadMessages(p) \/ CountBatchLinkedOrphans(p)
             \/ BuildSelectionPlan(p)
    PROVE  IndInv'
<1>1. p \in Commands
  BY DEF Commands
<1>2. UNCHANGED <<tables, line, records, files, applying>>
  BY DEF LoadBatches, LoadMessages, CountBatchLinkedOrphans, BuildSelectionPlan
<1>3. \E label : label # "idle" /\ GoTo(p, label)
  <2>1. CASE LoadBatches(p)
    BY <1>1, <2>1, FailMoves DEF LoadBatches, MayGo
  <2>2. CASE LoadMessages(p)
    BY <1>1, <2>2, FailMoves, AdvanceMoves DEF LoadMessages, MayGo
  <2>3. CASE CountBatchLinkedOrphans(p)
    BY <2>3, AdvanceMoves DEF CountBatchLinkedOrphans
  <2>4. CASE BuildSelectionPlan(p)
    BY <1>1, <2>4, FailMoves DEF BuildSelectionPlan, MayGo
  <2> QED
    BY <2>1, <2>2, <2>3, <2>4
<1> QED
  BY <1>1, <1>2, <1>3, DryRunMoves, QuietStep

\* Replacing one streamed record leaves a sequence of records.
LEMMA RecordUpdated ==
    ASSUME NEW rs \in Seq(EscrowRecord), NEW i, NEW rec,
           i \in DOMAIN rs => rec \in EscrowRecord
    PROVE  [rs EXCEPT ![i] = rec] \in Seq(EscrowRecord)
<1>1. CASE i \in 1..Len(rs)
  <2>1. rec \in EscrowRecord
    BY <1>1
  <2> QED
    BY <1>1, <2>1, ExceptSeq
<1>2. CASE i \notin 1..Len(rs)
  <2>1. rs \in [1..Len(rs) -> EscrowRecord]
    OBVIOUS
  <2>2. [rs EXCEPT ![i] = rec] = rs
    BY <1>2, <2>1
  <2> QED
    BY <2>2
<1> QED
  BY <1>1, <1>2

\* The queries of the escrow stream keep the invariant.
LEMMA StreamKeepsInv ==
    ASSUME NEW p \in DryRuns, IndInv,
           LoadBatchRow(p) \/ LoadMessageRows(p) \/ LoadErrorRows(p)
             \/ LoadNotificationRows(p) \/ ValidateOrphanCount(p)
    PROVE  IndInv'
<1>0. p \in Commands
  BY DEF Commands
<1>1. UNCHANGED <<tables, line, files, applying>>
  BY DEF LoadBatchRow, LoadMessageRows, LoadErrorRows, LoadNotificationRows,
         ValidateOrphanCount
<1>2. \E label : label # "idle" /\ GoTo(p, label)
  <2>1. CASE LoadBatchRow(p)
    BY <1>0, <2>1, FailMoves DEF LoadBatchRow, MayGo
  <2>2. CASE LoadMessageRows(p)
    BY <1>0, <2>2, FailMoves DEF LoadMessageRows, MayGo
  <2>3. CASE LoadErrorRows(p)
    BY <1>0, <2>3, FailMoves, AdvanceMoves DEF LoadErrorRows, MayGo
  <2>4. CASE LoadNotificationRows(p)
    BY <1>0, <2>4, FailMoves DEF LoadNotificationRows, MayGo
  <2>5. CASE ValidateOrphanCount(p)
    BY <1>0, <2>5, FailMoves, AdvanceMoves DEF ValidateOrphanCount, MayGo
  <2> QED
    BY <2>1, <2>2, <2>3, <2>4, <2>5
<1>3. StreamInv'
  <2> DEFINE rs == records[p]
             i == at[p]
             b == candidates[p][i].id
  <2>1. /\ rs \in Seq(EscrowRecord)
        /\ DOMAIN rs = 1..Len(rs)
        /\ \A j \in DOMAIN rs : rs[j] \in EscrowRecord
    BY DEF IndInv, StreamInv
  <2>2. /\ MessagesIn(b) \subseteq Messages
        /\ ErrorsIn(b) \subseteq Errors
        /\ NotificationsIn(b) \subseteq Notifications
    BY DEF IndInv, MessagesIn, ErrorsIn, NotificationsIn
  <2>3. ASSUME NEW new \in Seq(EscrowRecord), records' = [records EXCEPT ![p] = new]
        PROVE  StreamInv'
    BY <2>3 DEF IndInv, StreamInv
  <2>4. CASE UNCHANGED records
    BY <2>4 DEF IndInv, StreamInv
  <2>5. CASE LoadBatchRow(p) /\ ~UNCHANGED records
    <3>1. /\ b \in Batches
          /\ records' = [records EXCEPT ![p] = Append(rs,
                [id |-> b, messages |-> {}, errors |-> {}, notifications |-> {}])]
      BY <2>5 DEF LoadBatchRow, IndInv
    <3>2. [id |-> b, messages |-> {}, errors |-> {}, notifications |-> {}]
            \in EscrowRecord
      BY <3>1 DEF EscrowRecord
    <3>3. Append(rs, [id |-> b, messages |-> {}, errors |-> {}, notifications |-> {}])
            \in Seq(EscrowRecord)
      BY <2>1, <3>2
    <3> QED
      BY <2>3, <3>1, <3>3
  <2>6. CASE LoadMessageRows(p) /\ ~UNCHANGED records
    <3> DEFINE rec == [rs[i] EXCEPT !.messages = MessagesIn(b)]
    <3>1. records' = [records EXCEPT ![p] = [rs EXCEPT ![i] = rec]]
      BY <2>6 DEF LoadMessageRows
    <3>2. i \in DOMAIN rs => rec \in EscrowRecord
      BY <2>1, <2>2 DEF EscrowRecord
    <3> QED
      BY <2>1, <2>3, <3>1, <3>2, RecordUpdated
  <2>7. CASE LoadErrorRows(p) /\ ~UNCHANGED records
    <3> DEFINE rec == [rs[i] EXCEPT !.errors = ErrorsIn(b)]
    <3>1. records' = [records EXCEPT ![p] = [rs EXCEPT ![i] = rec]]
      BY <2>7 DEF LoadErrorRows
    <3>2. i \in DOMAIN rs => rec \in EscrowRecord
      BY <2>1, <2>2 DEF EscrowRecord
    <3> QED
      BY <2>1, <2>3, <3>1, <3>2, RecordUpdated
  <2>8. CASE LoadNotificationRows(p) /\ ~UNCHANGED records
    <3> DEFINE rec == [rs[i] EXCEPT !.notifications = NotificationsIn(b)]
    <3>1. records' = [records EXCEPT ![p] = [rs EXCEPT ![i] = rec]]
      BY <2>8 DEF LoadNotificationRows
    <3>2. i \in DOMAIN rs => rec \in EscrowRecord
      BY <2>1, <2>2 DEF EscrowRecord
    <3> QED
      BY <2>1, <2>3, <3>1, <3>2, RecordUpdated
  <2>9. CASE ValidateOrphanCount(p)
    BY <2>4, <2>9 DEF ValidateOrphanCount
  <2> QED
    BY <2>4, <2>5, <2>6, <2>7, <2>8, <2>9
<1> QED
  BY <1>1, <1>2, <1>3, StreamStep

\* Publishing the files keeps the invariant: the escrow holds what was
\* streamed, and no published file is replaced.
LEMMA PublicationKeepsInv ==
    ASSUME NEW p \in DryRuns, IndInv,
           WriteEscrowFile(p) \/ WriteArtifact(p) \/ WriteManifest(p)
    PROVE  IndInv'
<1>0. p \in Commands
  BY DEF Commands
<1>1. UNCHANGED <<tables, line, records, applying>>
  BY DEF WriteEscrowFile, WriteArtifact, WriteManifest, dryRun
<1>2. ASSUME Fail(p) \/ Succeed(p), UNCHANGED files
      PROVE  IndInv'
  <2>1. pc[p] # "idle"
    BY DEF WriteEscrowFile, WriteArtifact, WriteManifest
  <2> QED
    BY <1>0, <1>1, <1>2, <2>1, FailMoves, SucceedMoves, QuietStep
<1>3. CASE WriteEscrowFile(p)
  <2> DEFINE f == line[p].escrowOut
             content == Escrow(Policy(p), candidates[p], records[p])
  <2>1. CASE Fail(p) /\ UNCHANGED files
    BY <1>2, <2>1
  <2>2. CASE ~(Fail(p) /\ UNCHANGED files)
    <3>1. /\ files[f] = None
          /\ files' = [files EXCEPT ![f] = content]
          /\ \E label : label # "idle" /\ GoTo(p, label)
      BY <1>3, <2>2 DEF WriteEscrowFile, NameIsFree
    <3>2. content.records \in Seq(EscrowRecord)
      BY DEF Escrow, IndInv, StreamInv
    <3> HIDE DEF f, content
    <3>3. CASE f \in Paths
      BY <1>1, <3>1, <3>2, <3>3, PublishStep
    <3>4. CASE f \notin Paths
      <4>1. UNCHANGED files
        BY <3>1, <3>4 DEF IndInv, FilesInv
      <4> QED
        BY <1>0, <1>1, <3>1, <4>1, DryRunMoves, QuietStep
    <3> QED BY <3>3, <3>4
  <2> QED BY <2>1, <2>2
<1>4. ASSUME NEW f, NEW content, NEW next, content.kind # "escrow",
             PublishJson(p, f, content, next),
             next => \E label : label # "idle" /\ GoTo(p, label)
      PROVE  IndInv'
  <2>1. CASE Fail(p) /\ UNCHANGED files
    BY <1>2, <2>1
  <2>2. CASE ~(Fail(p) /\ UNCHANGED files)
    <3>1. /\ files[f] \in {None, content}
          /\ files' = [files EXCEPT ![f] = content]
          /\ \E label : label # "idle" /\ GoTo(p, label)
      BY <1>4, <2>2 DEF PublishJson, NameIsFree, ExistingOutputIsExact
    <3>2. CASE f \in Paths
      BY <1>1, <1>4, <3>1, <3>2, PublishStep
    <3>3. CASE f \notin Paths
      <4>1. UNCHANGED files
        BY <3>1, <3>3 DEF IndInv, FilesInv
      <4> QED
        BY <1>0, <1>1, <3>1, <4>1, DryRunMoves, QuietStep
    <3> QED BY <3>2, <3>3
  <2> QED BY <2>1, <2>2
<1>5. CASE WriteArtifact(p)
  <2>1. CASE candidates[p] = <<>>
    BY <1>2, <1>5, <2>1 DEF WriteArtifact
  <2>2. CASE candidates[p] # <<>>
    <3>1. PublishJson(p, line[p].privateArtifactOut,
                      Artifact(Policy(p), candidates[p], records[p]),
                      GoTo(p, "manifest") /\ UNCHANGED outcome)
      BY <1>5, <2>2 DEF WriteArtifact
    <3>2. Artifact(Policy(p), candidates[p], records[p]).kind # "escrow"
      BY DEF Artifact
    <3> QED
      BY <1>4, <3>1, <3>2
  <2> QED BY <2>1, <2>2
<1>6. CASE WriteManifest(p)
  <2>1. CASE line[p].manifestOut = None
    BY <1>2, <1>6, <2>1 DEF WriteManifest
  <2>2. CASE line[p].manifestOut # None
    <3>1. PublishJson(p, line[p].manifestOut, Manifest(Policy(p), candidates[p]),
                      Succeed(p))
      BY <1>6, <2>2 DEF WriteManifest
    <3>2. Manifest(Policy(p), candidates[p]).kind # "escrow"
      BY DEF Manifest
    <3>3. Succeed(p) => \E label : label # "idle" /\ GoTo(p, label)
      BY DEF Succeed
    <3> QED
      BY <1>4, <3>1, <3>2, <3>3
  <2> QED BY <2>1, <2>2
<1> QED
  BY <1>3, <1>5, <1>6

\* Admission keeps the invariant: the verified escrow is a published file and
\* has one record for each binding of the artifact.
LEMMA ReadInputsKeepsInv ==
    ASSUME NEW p \in Applies, IndInv, ReadInputs(p)
    PROVE  IndInv'
<1>0. p \in Commands
  BY DEF Commands
<1>1. UNCHANGED <<batches, messages, errors, notifications, orphans, deleted, line,
                  records, files, completed, removed>>
  BY DEF ReadInputs, tables, dryRun
<1>2. CASE ~Admitted(p)
  <2>1. Fail(p) /\ UNCHANGED input
    BY <1>2 DEF ReadInputs
  <2>2. UNCHANGED <<tables, line, records, files, applying>>
    BY <1>1, <2>1 DEF tables, applying
  <2> QED
    BY <1>0, <2>1, <2>2, FailMoves, QuietStep DEF ReadInputs
<1>3. CASE Admitted(p)
  <2> DEFINE m == files[line[p].manifestFile]
             a == files[line[p].privateArtifactFile]
             f == line[p].escrowFile
  <2>1. /\ input' = [input EXCEPT ![p] = [manifest |-> m, bindings |-> a.bindings,
                                          escrow |-> files[f]]]
        /\ GoTo(p, "lock")
    BY <1>3 DEF ReadInputs
  <2>2. f \in EscrowFiles
    <3>1. line[p] \in ApplyLines
      BY DEF ReadInputs, IndInv, ControlInv
    <3>2. f \in Paths
      BY <3>1, RetentionConstants
    <3> QED
      BY <1>3, <3>2 DEF Admitted, EscrowFiles
  <2>3. Len(a.bindings) = Len(files[f].records)
    BY <1>3 DEF Admitted, ParseApplyContext, EscrowMatchesManifest, VerifiedEscrowSource
  <2>4. TablesTypeOK' /\ ForeignKeysHold' /\ StreamInv' /\ FilesInv'
    BY <1>1 DEF IndInv, ForeignKeysHold, StreamInv, FilesInv, EscrowFiles, IsFile
  <2>5. /\ DOMAIN input' = Applies
        /\ \A q \in Applies : q # p => input'[q] = input[q]
        /\ input'[p].escrow = files[f]
        /\ input'[p].bindings = a.bindings
    BY <2>1 DEF IndInv, ControlInv
  <2>6. /\ DOMAIN pc' = Commands
        /\ \A q \in Commands : q # p => pc'[q] = pc[q]
        /\ pc'[p] = "lock"
        /\ line[p] \in ApplyLines
    BY <1>0, <2>1 DEF IndInv, ControlInv, GoTo, ReadInputs
  <2>7. ControlInv' /\ InputInv'
    <3>1. EscrowFiles' = EscrowFiles
      BY <1>1 DEF EscrowFiles, IsFile
    <3>2. InputInv'
      BY <1>1, <2>2, <2>3, <2>5, <2>6, <3>1 DEF IndInv, InputInv, Commands
    <3>3. ControlInv'
      BY <1>1, <2>5, <2>6 DEF IndInv, ControlInv, Commands
    <3> QED BY <3>2, <3>3
  <2>8. DeletedIsEscrowed'
    BY <1>1 DEF IndInv, DeletedIsEscrowed, Escrowed, EscrowFiles, IsFile, RowsIn
  <2>9. OnlyExpiredDeleted'
    BY <1>1, OnlyExpiredKept DEF IndInv
  <2> QED
    BY <2>4, <2>7, <2>8, <2>9 DEF IndInv
<1> QED
  BY <1>2, <1>3

\* The transaction of one batch: what it deletes is the snapshot it compared
\* with a record of a published escrow, and the batch is expired.
LEMMA CommitIsSafe ==
    ASSUME NEW p \in Applies, IndInv, HasNextBatch(p), Revalidated(p), Commit(p),
           UNCHANGED <<line, files>>
    PROVE  /\ TablesTypeOK'
           /\ ForeignKeysHold'
           /\ DeletedIsEscrowed'
           /\ OnlyExpiredDeleted'
           /\ removed' \in [Applies -> Seq(Batches)]
           /\ \A q \in Applies : q # p => removed'[q] = removed[q]
<1> DEFINE b == input[p].bindings[Current(p)]
           rec == input[p].escrow.records[Current(p)]
<1>1. /\ b \in batches
      /\ Expired(b, Policy(p))
      /\ Snapshot(b) = rec
  BY DEF Revalidated, ExactEscrowBatchRecords
<1>2. b \in Batches
  BY <1>1 DEF IndInv
<1>3. /\ DeleteBatch(b)
      /\ removed' = [removed EXCEPT ![p] = Append(@, b)]
  BY DEF Commit
<1>4. RowsIn(rec) \subseteq Escrowed
  <2>1. PICK f \in EscrowFiles : /\ input[p].escrow = files[f]
                                 /\ Len(input[p].bindings) = Len(files[f].records)
    BY DEF HasNextBatch, IndInv, InputInv
  <2>2. Current(p) \in 1..Len(files[f].records)
    BY <2>1 DEF HasNextBatch, Current, IndInv, ControlInv, FilesInv
  <2>3. Current(p) \in DOMAIN files[f].records
    BY <2>1, <2>2 DEF IndInv, FilesInv
  <2> QED
    BY <2>1, <2>3 DEF Escrowed
<1>5. /\ TablesTypeOK'
      /\ ForeignKeysHold'
      /\ deleted' \subseteq deleted \cup RowsIn(rec)
  BY <1>1, <1>2, <1>3, DeleteKeepsTables DEF IndInv
<1>6. DeletedIsEscrowed'
  <2>1. Escrowed' = Escrowed
    BY DEF Escrowed, EscrowFiles, IsFile, RowsIn
  <2> QED
    BY <1>4, <1>5, <2>1 DEF IndInv, DeletedIsEscrowed
<1> HIDE DEF b
<1>7. /\ removed' \in [Applies -> Seq(Batches)]
      /\ \A q \in Applies : q # p => removed'[q] = removed[q]
      /\ removed'[p] = Append(removed[p], b)
  BY <1>2, <1>3 DEF IndInv, ControlInv
<1>8. OnlyExpiredDeleted'
  <2> SUFFICES ASSUME NEW q \in Applies, NEW i \in DOMAIN removed'[q]
               PROVE  /\ SiteOf[removed'[q][i]] = Policy(q).siteId
                      /\ CreatedOf[removed'[q][i]] < Policy(q).cutoff
    BY DEF OnlyExpiredDeleted, Policy
  <2>1. CASE q # p
    BY <1>7, <2>1 DEF IndInv, OnlyExpiredDeleted
  <2>2. CASE q = p
    <3>1. removed[p] \in Seq(Batches)
      BY DEF IndInv, ControlInv
    <3>2. CASE i \in 1..Len(removed[p])
      BY <1>7, <2>2, <3>1, <3>2, <1>2 DEF IndInv, OnlyExpiredDeleted
    <3>3. CASE i \notin 1..Len(removed[p])
      <4>1. removed'[p][i] = b
        BY <1>2, <1>7, <2>2, <3>1, <3>3
      <4> QED
        BY <1>1, <2>2, <4>1 DEF Expired
    <3> QED BY <3>2, <3>3
  <2> QED BY <2>1, <2>2
<1> QED
  BY <1>5, <1>6, <1>7, <1>8

\* The steps of an apply run under the lock keep the invariant.
LEMMA ApplyKeepsInv ==
    ASSUME NEW p \in Applies, IndInv,
           ApplyBatch(p) \/ ApplyBatchUnacknowledged(p) \/ ApplyBatchRefused(p)
             \/ IssueReceipt(p)
    PROVE  IndInv'
<1>0. p \in Commands
  BY DEF Commands
<1>1. ASSUME HasNextBatch(p), Revalidated(p), Commit(p),
             UNCHANGED <<line, dryRun, files, input>>,
             completed' \in [Applies -> Nat],
             DOMAIN pc' = Commands,
             \A q \in Commands : /\ pc'[q] # "idle"  => pc[q] # "idle"
                                 /\ pc'[q] = "idle"  => pc[q] = "idle"
                                 /\ pc'[q] \in {"lock", "apply"} => pc'[q] = pc[q]
      PROVE  IndInv'
  <2>1. UNCHANGED records
    BY <1>1 DEF dryRun
  <2>2. EscrowFiles' = EscrowFiles
    BY <1>1 DEF EscrowFiles, IsFile
  <2>3. StreamInv' /\ FilesInv' /\ InputInv'
    BY <1>1, <2>1, <2>2 DEF IndInv, StreamInv, FilesInv, InputInv, Commands
  <2>4. ControlInv'
    BY <1>1, CommitIsSafe DEF IndInv, ControlInv, Commands, HasNextBatch
  <2> QED
    BY <1>1, <2>3, <2>4, CommitIsSafe DEF IndInv
<1>2. CASE ApplyBatch(p)
  BY <1>1, <1>2 DEF ApplyBatch, IndInv, ControlInv
<1>3. CASE ApplyBatchUnacknowledged(p)
  BY <1>0, <1>1, <1>3 DEF ApplyBatchUnacknowledged, Fail, GoTo, IndInv, ControlInv, HasNextBatch
<1>4. CASE ApplyBatchRefused(p)
  BY <1>0, <1>4, FailMoves, QuietStep DEF ApplyBatchRefused, HasNextBatch, dryRun
<1>5. CASE IssueReceipt(p)
  BY <1>0, <1>5, SucceedMoves, QuietStep DEF IssueReceipt, dryRun
<1> QED
  BY <1>2, <1>3, <1>4, <1>5

\* The proxy's writers keep the invariant.
LEMMA ProxyKeepsInv ==
    ASSUME IndInv, ProxyStep
    PROVE  IndInv'
<1>1. UNCHANGED <<pc, line, records, files, input, completed, removed>>
  BY DEF ProxyStep, dryRun, applying
<1>2. FilesKept
  BY <1>1 DEF IndInv, FilesInv, FilesKept
<1>3. TablesTypeOK' /\ ForeignKeysHold' /\ deleted' = deleted
  BY WritersKeepTables DEF ProxyStep, IndInv
<1>4. StreamInv' /\ FilesInv' /\ ControlInv' /\ InputInv'
  BY <1>1 DEF IndInv, StreamInv, FilesInv, EscrowFiles, IsFile, ControlInv, InputInv
<1>5. DeletedIsEscrowed' /\ OnlyExpiredDeleted'
  BY <1>1, <1>2, <1>3, PublishedStays, OnlyExpiredKept DEF IndInv, DeletedIsEscrowed
<1> QED
  BY <1>3, <1>4, <1>5 DEF IndInv

----------------------------------------------------------------------------
(***************************************************************************)
(* The theorems.                                                           *)
(***************************************************************************)

\* The invariant holds when the first command starts.
LEMMA InitInv ==
    Init => IndInv
<1> SUFFICES ASSUME Init PROVE IndInv
  OBVIOUS
<1>1. TablesTypeOK /\ ForeignKeysHold
  BY TableConstants DEF Init, TablesInit, ForeignKeysHold, Rows
<1>2. StreamInv /\ ControlInv
  BY DEF Init, StreamInv, ControlInv, Commands
<1>3. FilesInv
  BY DEF Init, FilesInv, EscrowFiles, IsFile
<1>4. InputInv
  BY DEF Init, InputInv, Commands
<1>5. DeletedIsEscrowed /\ OnlyExpiredDeleted
  BY DEF Init, TablesInit, DeletedIsEscrowed, OnlyExpiredDeleted
<1> QED
  BY <1>1, <1>2, <1>3, <1>4, <1>5 DEF IndInv

\* Every step keeps the invariant.
LEMMA NextInv ==
    IndInv /\ [Next]_vars => IndInv'
<1> SUFFICES ASSUME IndInv, [Next]_vars PROVE IndInv'
  OBVIOUS
<1>1. CASE UNCHANGED vars
  <2>1. UNCHANGED <<batches, messages, errors, notifications, orphans, deleted, pc,
                    line, records, files, input, completed, removed>>
    BY <1>1 DEF vars, tables, dryRun, applying
  <2> QED
    BY <2>1 DEF IndInv, StreamInv, FilesInv, ControlInv, InputInv, ForeignKeysHold,
                DeletedIsEscrowed, OnlyExpiredDeleted, Escrowed, EscrowFiles, IsFile,
                RowsIn, Policy
<1>2. ASSUME NEW p \in Commands, Begin(p) \/ CommandStep(p) \/ Throw(p) \/ Crash(p)
                                   \/ LoseLock(p)
      PROVE  IndInv'
  BY <1>2, CommandKeepsInv, LoseLockKeepsInv, SelectionKeepsInv, StreamKeepsInv,
     PublicationKeepsInv, ReadInputsKeepsInv, ApplyKeepsInv
     DEF CommandStep, DryRunStep, ApplyStep
<1>3. CASE ProxyStep
  BY <1>3, ProxyKeepsInv
<1> QED
  BY <1>1, <1>2, <1>3 DEF Next

\* IndInv is an invariant of retention.
THEOREM Invariance == Spec => []IndInv
  BY InitInv, NextInv, PTL DEF Spec

\* Whatever the proxy writes between dry run and apply, whatever fails, and
\* without any help of the named lock, retention deletes no row that is not in
\* a published escrow file.
THEOREM NothingLost == Spec => []DeletedIsEscrowed
<1>1. IndInv => DeletedIsEscrowed
  BY DEF IndInv
<1> QED
  BY <1>1, Invariance, PTL

\* No e-mail or failure ever loses its batch and no notification its e-mail.
THEOREM NoDanglingRows == Spec => []ForeignKeysHold
<1>1. IndInv => ForeignKeysHold
  BY DEF IndInv
<1> QED
  BY <1>1, Invariance, PTL

\* Only batches of the confirmed site from before the confirmed cutoff go.
THEOREM OnlyExpired == Spec => []OnlyExpiredDeleted
<1>1. IndInv => OnlyExpiredDeleted
  BY DEF IndInv
<1> QED
  BY <1>1, Invariance, PTL

\* No step deletes an e-mail under an open orphan that refers to it.
LEMMA OrphansKeepTheirEmail ==
    ASSUME TablesTypeOK, ForeignKeysHold, [Next]_vars,
           NEW n \in Notifications, orphans[n] = "open", MessageOf[n] \in messages
    PROVE  MessageOf[n] \in messages'
<1>1. CASE UNCHANGED messages
  BY <1>1
<1>2. CASE ProxyStep
  BY <1>2, WritersKeepTables DEF ProxyStep
<1>3. ASSUME NEW p \in Applies, Revalidated(p), Commit(p)
      PROVE  MessageOf[n] \in messages'
  BY <1>3 DEF Revalidated, Commit, DeleteBatch, OpenOrphansOn, MessagesIn
<1>4. ASSUME NEW p \in Commands, Begin(p) \/ CommandStep(p) \/ Throw(p) \/ Crash(p)
                                   \/ LoseLock(p)
      PROVE  UNCHANGED messages \/ (p \in Applies /\ Revalidated(p) /\ Commit(p))
  <2>1. CASE Begin(p) \/ TryAcquire(p) \/ Release(p) \/ Throw(p) \/ Crash(p) \/ LoseLock(p)
    BY <2>1 DEF Begin, TryAcquire, Release, Throw, Crash, LoseLock, tables
  <2>2. CASE p \in DryRuns /\ DryRunStep(p)
    BY <2>2 DEF DryRunStep, LoadBatches, LoadMessages, CountBatchLinkedOrphans,
                BuildSelectionPlan, LoadBatchRow, LoadMessageRows, LoadErrorRows,
                LoadNotificationRows, ValidateOrphanCount, WriteEscrowFile,
                WriteArtifact, WriteManifest, tables
  <2>3. CASE p \in Applies /\ ApplyStep(p)
    BY <2>3 DEF ApplyStep, ReadInputs, ApplyBatch, ApplyBatchUnacknowledged,
                ApplyBatchRefused, IssueReceipt, tables
  <2> QED
    BY <1>4, <2>1, <2>2, <2>3 DEF CommandStep
<1>5. CASE UNCHANGED vars
  BY <1>5 DEF vars, tables
<1> QED
  BY <1>1, <1>2, <1>3, <1>4, <1>5 DEF Next

\* An open orphan that could be reconciled before a step can be afterwards.
THEOREM OrphansStayReconcilable == Spec => ReconcilableStaysSo
<1>1. IndInv /\ [Next]_vars =>
        [\A n \in Notifications :
           orphans[n] = "open" /\ MessageOf[n] \in messages
             => MessageOf[n] \in messages']_vars
  BY OrphansKeepTheirEmail DEF IndInv
<1> QED
  BY <1>1, Invariance, PTL DEF Spec, ReconcilableStaysSo

\* A step of a command that leaves the lock alone either throws or stays among
\* the steps that hold a lease.
LEMMA StepsKeepLease ==
    ASSUME NEW p \in Commands,
           DryRunStep(p) \/ ApplyBatch(p) \/ ApplyBatchUnacknowledged(p)
             \/ ApplyBatchRefused(p) \/ IssueReceipt(p)
    PROVE  /\ UNCHANGED holder
           /\ \/ UNCHANGED pc
              \/ Fail(p)
              \/ \E label \in Leased \cup {"release"} : GoTo(p, label)
<1>1. CASE \/ LoadBatches(p) \/ LoadMessages(p) \/ CountBatchLinkedOrphans(p)
           \/ BuildSelectionPlan(p)
  BY <1>1 DEF LoadBatches, LoadMessages, CountBatchLinkedOrphans, BuildSelectionPlan,
              Advance, Leased
<1>2. CASE \/ LoadBatchRow(p) \/ LoadMessageRows(p) \/ LoadErrorRows(p)
           \/ LoadNotificationRows(p) \/ ValidateOrphanCount(p)
  BY <1>2 DEF LoadBatchRow, LoadMessageRows, LoadErrorRows, LoadNotificationRows,
              ValidateOrphanCount, Advance, Leased
<1>3. CASE WriteEscrowFile(p) \/ WriteArtifact(p) \/ WriteManifest(p)
  BY <1>3 DEF WriteEscrowFile, WriteArtifact, WriteManifest, PublishJson, Succeed, Leased
<1>4. CASE \/ ApplyBatch(p) \/ ApplyBatchUnacknowledged(p) \/ ApplyBatchRefused(p)
           \/ IssueReceipt(p)
  BY <1>4 DEF ApplyBatch, ApplyBatchUnacknowledged, ApplyBatchRefused, IssueReceipt,
              Succeed
<1> QED
  BY <1>1, <1>2, <1>3, <1>4 DEF DryRunStep

\* No command keeps the named lock past its end, on any path out of it.
THEOREM LockIsGivenBack == Spec => []EndedHoldsNoLock
<1> DEFINE LockInv == EndedHoldsNoLock /\ DOMAIN pc = Commands
<1>1. Init => LockInv
  BY DEF Init, EndedHoldsNoLock
<1>2. LockInv /\ [Next]_vars => LockInv'
  <2> SUFFICES ASSUME EndedHoldsNoLock, DOMAIN pc = Commands, [Next]_vars
      PROVE  LockInv'
    OBVIOUS
  <2>1. CASE UNCHANGED <<holder, pc>>
    BY <2>1 DEF EndedHoldsNoLock
  <2>2. ASSUME NEW p \in Commands, NEW label \in Leased \cup {"release"},
               GoTo(p, label), UNCHANGED holder
        PROVE  LockInv'
    BY <2>2 DEF GoTo, EndedHoldsNoLock
  <2>3. ASSUME NEW p \in Commands, Fail(p), pc[p] # "release", UNCHANGED holder
        PROVE  LockInv'
    BY <2>3 DEF Fail, GoTo, EndedHoldsNoLock
  <2>4. ASSUME NEW p \in Commands, CommandStep(p)
        PROVE  LockInv'
    <3>1. CASE TryAcquire(p)
      <4>1. CASE holder = None
        BY <3>1, <4>1 DEF TryAcquire, GoTo, EndedHoldsNoLock, Leased
      <4>2. CASE holder # None
        BY <3>1, <4>2, <2>3 DEF TryAcquire
      <4> QED
        BY <4>1, <4>2
    <3>2. CASE Release(p)
      BY <3>2 DEF Release, GoTo, EndedHoldsNoLock
    <3>3. CASE ReadInputs(p)
      <4>1. CASE Admitted(p)
        <5>1. pc[p] = "read" /\ pc' = [pc EXCEPT ![p] = "lock"] /\ UNCHANGED holder
          BY <3>3, <4>1 DEF ReadInputs, GoTo
        <5> QED
          BY <5>1 DEF EndedHoldsNoLock, Leased
      <4>2. CASE ~Admitted(p)
        BY <3>3, <4>2, <2>3 DEF ReadInputs
      <4> QED
        BY <4>1, <4>2
    <3>4. CASE \/ DryRunStep(p) \/ ApplyBatch(p) \/ ApplyBatchUnacknowledged(p)
               \/ ApplyBatchRefused(p) \/ IssueReceipt(p)
      <4>1. pc[p] # "release"
        BY <3>4 DEF DryRunStep, LoadBatches, LoadMessages, CountBatchLinkedOrphans,
                    BuildSelectionPlan, LoadBatchRow, LoadMessageRows, LoadErrorRows,
                    LoadNotificationRows, ValidateOrphanCount, WriteEscrowFile,
                    WriteArtifact, WriteManifest, ApplyBatch, ApplyBatchUnacknowledged,
                    ApplyBatchRefused, IssueReceipt, HasNextBatch
      <4> QED
        BY <3>4, <4>1, StepsKeepLease, <2>1, <2>2, <2>3
    <3> QED
      BY <2>4, <3>1, <3>2, <3>3, <3>4 DEF CommandStep, ApplyStep
  <2>5. ASSUME NEW p \in Commands, Begin(p)
        PROVE  LockInv'
    BY <2>5 DEF Begin, GoTo, EndedHoldsNoLock, Leased
  <2>6. ASSUME NEW p \in Commands, Throw(p)
        PROVE  LockInv'
    BY <2>6, <2>3 DEF Throw
  <2>7. ASSUME NEW p \in Commands, Crash(p) \/ LoseLock(p)
        PROVE  LockInv'
    <3>1. CASE LoseLock(p)
      BY <3>1 DEF LoseLock, EndedHoldsNoLock
    <3>2. CASE Crash(p)
      <4>1. /\ pc' = [pc EXCEPT ![p] = "crashed"]
            /\ holder' = IF holder = p THEN None ELSE holder
        BY <3>2 DEF Crash, GoTo
      <4>2. CASE holder = p
        BY <4>1, <4>2 DEF EndedHoldsNoLock
      <4>3. CASE holder # p
        BY <4>1, <4>3 DEF EndedHoldsNoLock
      <4> QED
        BY <4>2, <4>3
    <3> QED
      BY <2>7, <3>1, <3>2
  <2>8. CASE ProxyStep
    BY <2>8, <2>1 DEF ProxyStep
  <2>9. CASE UNCHANGED vars
    BY <2>9, <2>1 DEF vars
  <2> QED
    BY <2>4, <2>5, <2>6, <2>7, <2>8, <2>9 DEF Next
<1> QED
  BY <1>1, <1>2, PTL DEF Spec

----------------------------------------------------------------------------
(***************************************************************************)
(* Where a dry run is. Its loop index stays within its candidates, and its *)
(* label tells how many records and moments the stream has.                *)
(***************************************************************************)
Fits(p) ==
    /\ at[p] \in 1..(Len(candidates[p]) + 1)
    /\ candidates[p] # <<>> => at[p] <= Len(candidates[p])
    /\ Len(records[p]) <= Len(candidates[p])

Streamed(p, r, m) == Len(records[p]) = r /\ Len(moments[p]) = m

Place(p) ==
    /\ Fits(p)
    /\ pc[p] \in {"idle", "lock", "select"} => candidates[p] = <<>> /\ Streamed(p, 0, 0)
    /\ pc[p] \in {"messages", "orphans"} => candidates[p] # <<>> /\ Streamed(p, 0, 0)
    /\ pc[p] = "plan" => at[p] = 1 /\ Streamed(p, 0, 0)
    /\ pc[p] = "parent" => candidates[p] # <<>> /\ Streamed(p, at[p] - 1, at[p] - 1)
    /\ pc[p] = "rows" => candidates[p] # <<>> /\ Streamed(p, at[p], at[p] - 1)
    /\ pc[p] \in {"errors", "notifications", "validate"} =>
          candidates[p] # <<>> /\ Streamed(p, at[p], at[p])
    /\ pc[p] \in {"escrow", "artifact"} =>
          Streamed(p, Len(candidates[p]), Len(candidates[p]))
    /\ pc[p] = "manifest" /\ line[p].escrowOut # None =>
          Streamed(p, Len(candidates[p]), Len(candidates[p]))

Labels == Leased \cup {"idle", "lock", "read", "release", "done", "crashed"}

DryRunInv ==
    /\ pc \in [Commands -> Labels]
    /\ candidates \in [DryRuns -> Seq(Candidate)]
    /\ at \in [DryRuns -> Nat]
    /\ moments \in [DryRuns -> Seq(EscrowRecord)]
    /\ outcome \in [Commands -> {None, "ok", "failed"}]
    /\ \A p \in DryRuns : Place(p)
    /\ \A p \in DryRuns : pc[p] # "idle" => line[p] \in DryRunLines

Ended == {"release", "done", "crashed"}

\* What a step that is not of the dry run's own program may do to it.
Moved(p) ==
    \/ pc'[p] = pc[p] /\ line'[p] = line[p] /\ outcome'[p] = outcome[p]
    \/ /\ pc[p] # "idle" /\ pc'[p] \in Ended /\ line'[p] = line[p]
       /\ outcome'[p] \in {outcome[p], "failed"}
    \/ /\ pc[p] = "idle" /\ pc'[p] = "lock" /\ line'[p] \in DryRunLines
       /\ outcome'[p] = outcome[p]
    \/ /\ pc[p] = "lock" /\ pc'[p] = "select" /\ line'[p] = line[p]
       /\ outcome'[p] = outcome[p]

DryRunsRest ==
    /\ UNCHANGED <<candidates, at, records, moments, files>>
    /\ \A p \in DryRuns : Moved(p)
    /\ pc' \in [Commands -> Labels]
    /\ outcome' \in [Commands -> {None, "ok", "failed"}]

\* Every step is one of a dry run's own program, or leaves what the dry runs
\* have gathered and published alone.
LEMMA DryRunFrame ==
    ASSUME IndInv, DryRunInv, [Next]_vars
    PROVE  (\E p \in DryRuns : DryRunStep(p)) \/ DryRunsRest
<1>0. /\ pc \in [Commands -> Labels] /\ DOMAIN line = Commands
      /\ \A p \in DryRuns : p \in Commands
      /\ \A p \in Applies : p \in Commands /\ p \notin DryRuns
      /\ \A p \in Commands : p \in DryRuns \/ p \in Applies
      /\ outcome \in [Commands -> {None, "ok", "failed"}]
  BY RetentionConstants DEF IndInv, ControlInv, DryRunInv, Commands
<1>1. ASSUME UNCHANGED <<dryRun, files, pc, line, outcome>>
      PROVE  DryRunsRest
  BY <1>0, <1>1 DEF DryRunsRest, Moved, dryRun
<1>2. ASSUME NEW p \in Commands, UNCHANGED <<dryRun, files>>, UNCHANGED line,
             NEW label \in Ended, pc[p] # "idle", GoTo(p, label),
             UNCHANGED outcome \/ outcome' = [outcome EXCEPT ![p] = "failed"]
      PROVE  DryRunsRest
  BY <1>0, <1>2 DEF DryRunsRest, Moved, dryRun, GoTo, Ended, Labels
<1>3. ASSUME NEW p \in Applies, UNCHANGED <<dryRun, files>>, UNCHANGED line,
             pc' = [pc EXCEPT ![p] = pc'[p]], pc'[p] \in Labels,
             outcome' = [outcome EXCEPT ![p] = outcome'[p]],
             outcome'[p] \in {None, "ok", "failed"}
      PROVE  DryRunsRest
  BY <1>0, <1>3 DEF DryRunsRest, Moved, dryRun
<1>4. ASSUME NEW p \in Commands, Begin(p)
      PROVE  DryRunsRest
  BY <1>0, <1>4 DEF Begin, GoTo, DryRunsRest, Moved, dryRun, Labels
<1>5. ASSUME NEW p \in Commands, TryAcquire(p)
      PROVE  DryRunsRest
  <2>1. CASE holder = None
    BY <1>0, <1>5, <2>1 DEF TryAcquire, GoTo, DryRunsRest, Moved, dryRun, Labels, Leased
  <2>2. CASE holder # None
    BY <1>2, <1>5, <2>2 DEF TryAcquire, Fail, Ended
  <2> QED BY <2>1, <2>2
<1>6. ASSUME NEW p \in Commands, Release(p) \/ Throw(p) \/ Crash(p)
      PROVE  DryRunsRest
  BY <1>2, <1>6 DEF Release, Throw, Crash, Fail, Ended
<1>7. ASSUME NEW p \in Applies, ApplyStep(p)
      PROVE  DryRunsRest
  <2>1. UNCHANGED <<dryRun, files, line>>
    BY <1>7 DEF ApplyStep, ReadInputs, ApplyBatch, ApplyBatchUnacknowledged,
                ApplyBatchRefused, IssueReceipt
  <2>2. \/ UNCHANGED <<pc, outcome>>
        \/ GoTo(p, "lock") /\ UNCHANGED outcome
        \/ Fail(p) \/ Succeed(p)
    BY <1>7 DEF ApplyStep, ReadInputs, ApplyBatch, ApplyBatchUnacknowledged,
                ApplyBatchRefused, IssueReceipt
  <2>3. CASE UNCHANGED <<pc, outcome>>
    BY <1>1, <2>1, <2>3
  <2>4. CASE GoTo(p, "lock") /\ UNCHANGED outcome
    BY <1>0, <1>3, <2>1, <2>4 DEF GoTo, Labels
  <2>5. CASE Fail(p) \/ Succeed(p)
    BY <1>0, <1>3, <2>1, <2>5 DEF GoTo, Fail, Succeed, Labels
  <2> QED BY <2>2, <2>3, <2>4, <2>5
<1>8. ASSUME NEW p \in Commands, LoseLock(p)
      PROVE  DryRunsRest
  BY <1>1, <1>8 DEF LoseLock
<1>9. CASE ProxyStep
  BY <1>1, <1>9 DEF ProxyStep
<1>10. CASE UNCHANGED vars
  BY <1>1, <1>10 DEF vars
<1> QED
  BY <1>4, <1>5, <1>6, <1>7, <1>8, <1>9, <1>10 DEF Next, CommandStep

\* A function changed at one point.
At(f, g, S, p) == g = [q \in S |-> IF q = p THEN g[p] ELSE f[q]]

\* A step of a dry run's program touches nothing of another command, and a
\* failing one nothing but its own place.
LEMMA OwnStep ==
    ASSUME NEW p \in DryRuns, IndInv, DryRunInv, DryRunStep(p)
    PROVE  /\ UNCHANGED <<batches, messages, errors, notifications, orphans, deleted>>
           /\ UNCHANGED <<holder, line, input, completed, removed>>
           /\ pc[p] \in Leased /\ pc'[p] \in Labels
           /\ outcome'[p] \in {outcome[p], "ok", "failed"}
           /\ At(pc, pc', Commands, p)
           /\ At(outcome, outcome', Commands, p)
           /\ At(candidates, candidates', DryRuns, p)
           /\ At(at, at', DryRuns, p)
           /\ At(records, records', DryRuns, p)
           /\ At(moments, moments', DryRuns, p)
<1>0. /\ p \in Commands
      /\ pc \in [Commands -> Labels]
      /\ outcome \in [Commands -> {None, "ok", "failed"}]
      /\ candidates \in [DryRuns -> Seq(Candidate)]
      /\ at \in [DryRuns -> Nat]
      /\ records \in [DryRuns -> Seq(EscrowRecord)]
      /\ moments \in [DryRuns -> Seq(EscrowRecord)]
  <2>1. p \in Commands
    BY DEF Commands
  <2> QED BY <2>1 DEF IndInv, StreamInv, DryRunInv
<1>1. /\ UNCHANGED <<batches, messages, errors, notifications, orphans, deleted>>
      /\ UNCHANGED <<holder, line, input, completed, removed>>
      /\ pc[p] \in Leased
  BY DEF DryRunStep, LoadBatches, LoadMessages, CountBatchLinkedOrphans,
         BuildSelectionPlan, LoadBatchRow, LoadMessageRows, LoadErrorRows,
         LoadNotificationRows, ValidateOrphanCount, WriteEscrowFile,
         WriteArtifact, WriteManifest, tables, applying, Leased
<1>2. /\ At(pc, pc', Commands, p) /\ At(outcome, outcome', Commands, p)
      /\ pc'[p] \in Labels /\ outcome'[p] \in {outcome[p], "ok", "failed"}
  <2>1. \/ Fail(p) \/ Succeed(p)
        \/ UNCHANGED outcome /\ \E label \in Labels : GoTo(p, label)
    BY DEF DryRunStep, LoadBatches, LoadMessages, CountBatchLinkedOrphans,
           BuildSelectionPlan, LoadBatchRow, LoadMessageRows, LoadErrorRows,
           LoadNotificationRows, ValidateOrphanCount, WriteEscrowFile,
           WriteArtifact, WriteManifest, PublishJson, Advance, Labels, Leased
  <2> QED BY <1>0, <2>1 DEF At, Fail, Succeed, GoTo, Labels
<1>3. At(candidates, candidates', DryRuns, p) /\ At(at, at', DryRuns, p)
  <2>1. UNCHANGED candidates \/ \E cs : candidates' = [candidates EXCEPT ![p] = cs]
    BY DEF DryRunStep, LoadBatches, LoadMessages, CountBatchLinkedOrphans,
           BuildSelectionPlan, LoadBatchRow, LoadMessageRows, LoadErrorRows,
           LoadNotificationRows, ValidateOrphanCount, WriteEscrowFile,
           WriteArtifact, WriteManifest, dryRun
  <2>2. UNCHANGED at \/ \E i : at' = [at EXCEPT ![p] = i]
    BY DEF DryRunStep, LoadBatches, LoadMessages, CountBatchLinkedOrphans,
           BuildSelectionPlan, LoadBatchRow, LoadMessageRows, LoadErrorRows,
           LoadNotificationRows, ValidateOrphanCount, WriteEscrowFile,
           WriteArtifact, WriteManifest, dryRun, Advance
  <2>3. At(candidates, candidates', DryRuns, p)
    BY <1>0, <2>1 DEF At
  <2>4. At(at, at', DryRuns, p)
    BY <1>0, <2>2 DEF At
  <2> QED BY <2>3, <2>4
<1>4. At(records, records', DryRuns, p) /\ At(moments, moments', DryRuns, p)
  <2>1. UNCHANGED records \/ \E rs : records' = [records EXCEPT ![p] = rs]
    BY DEF DryRunStep, LoadBatches, LoadMessages, CountBatchLinkedOrphans,
           BuildSelectionPlan, LoadBatchRow, LoadMessageRows, LoadErrorRows,
           LoadNotificationRows, ValidateOrphanCount, WriteEscrowFile,
           WriteArtifact, WriteManifest, dryRun
  <2>2. UNCHANGED moments \/ \E ms : moments' = [moments EXCEPT ![p] = ms]
    BY DEF DryRunStep, LoadBatches, LoadMessages, CountBatchLinkedOrphans,
           BuildSelectionPlan, LoadBatchRow, LoadMessageRows, LoadErrorRows,
           LoadNotificationRows, ValidateOrphanCount, WriteEscrowFile,
           WriteArtifact, WriteManifest, dryRun
  <2>3. At(records, records', DryRuns, p)
    BY <1>0, <2>1 DEF At
  <2>4. At(moments, moments', DryRuns, p)
    BY <1>0, <2>2 DEF At
  <2> QED BY <2>3, <2>4
<1> QED
  BY <1>1, <1>2, <1>3, <1>4

\* A throw of a dry run, which leaves what it has gathered.
Failed(p) == Fail(p) /\ UNCHANGED <<candidates, at, records, moments, files>>

\* The dry run's own part of the invariant is all there is to show of its steps.
LEMMA OwnPlaceSuffices ==
    ASSUME NEW p \in DryRuns, IndInv, DryRunInv, DryRunStep(p), 
           candidates'[p] \in Seq(Candidate), at'[p] \in Nat,
           moments'[p] \in Seq(EscrowRecord), Place(p)'
    PROVE  DryRunInv'
<1>1. /\ pc' \in [Commands -> Labels]
      /\ candidates' \in [DryRuns -> Seq(Candidate)]
      /\ at' \in [DryRuns -> Nat]
      /\ moments' \in [DryRuns -> Seq(EscrowRecord)]
      /\ outcome' \in [Commands -> {None, "ok", "failed"}]
  <2>1. p \in Commands
    BY DEF Commands
  <2>2. pc' \in [Commands -> Labels] /\ outcome' \in [Commands -> {None, "ok", "failed"}]
    BY <2>1, OwnStep DEF At, DryRunInv
  <2>3. candidates' \in [DryRuns -> Seq(Candidate)]
    <3>1. At(candidates, candidates', DryRuns, p)
      BY OwnStep
    <3>2. candidates \in [DryRuns -> Seq(Candidate)] /\ candidates'[p] \in Seq(Candidate)
      BY DEF DryRunInv
    <3> QED BY <3>1, <3>2 DEF At
  <2>4. at' \in [DryRuns -> Nat]
    <3>1. At(at, at', DryRuns, p)
      BY OwnStep
    <3>2. at \in [DryRuns -> Nat] /\ at'[p] \in Nat
      BY DEF DryRunInv
    <3> QED BY <3>1, <3>2 DEF At
  <2>5. moments' \in [DryRuns -> Seq(EscrowRecord)]
    <3>1. At(moments, moments', DryRuns, p)
      BY OwnStep
    <3>2. moments \in [DryRuns -> Seq(EscrowRecord)] /\ moments'[p] \in Seq(EscrowRecord)
      BY DEF DryRunInv
    <3> QED BY <3>1, <3>2 DEF At
  <2> QED BY <2>2, <2>3, <2>4, <2>5
<1>2. ASSUME NEW q \in DryRuns
      PROVE  Place(q)' /\ (pc'[q] # "idle" => line'[q] \in DryRunLines)
  <2>1. p \in Commands /\ q \in Commands
    BY DEF Commands
  <2>2. UNCHANGED line /\ pc[p] # "idle"
    BY OwnStep DEF Leased
  <2>3. CASE q = p
    BY <2>2, <2>3 DEF DryRunInv
  <2>4. CASE q # p
    <3>1. /\ pc'[q] = pc[q] /\ candidates'[q] = candidates[q] /\ at'[q] = at[q]
          /\ records'[q] = records[q] /\ moments'[q] = moments[q] /\ line'[q] = line[q]
      BY <2>1, <2>2, <2>4, OwnStep DEF At
    <3>2. Place(q)'
      BY <3>1 DEF DryRunInv, Place, Fits, Streamed
    <3> QED BY <3>1, <3>2 DEF DryRunInv
  <2> QED BY <2>3, <2>4
<1> QED
  BY <1>1, <1>2 DEF DryRunInv

\* What is gathered when the dry run moves without gathering.
LEMMA PlaceKept ==
    ASSUME NEW p \in DryRuns, IndInv, DryRunInv, DryRunStep(p),
           UNCHANGED <<candidates, at, records, moments>>, Place(p)'
    PROVE  DryRunInv'
<1>1. /\ candidates'[p] \in Seq(Candidate)
      /\ at'[p] \in Nat
      /\ moments'[p] \in Seq(EscrowRecord)
  BY DEF DryRunInv
<1> QED
  BY <1>1, OwnPlaceSuffices

\* Throwing keeps the place invariant.
LEMMA FailedKeepsPlace ==
    ASSUME NEW p \in DryRuns, IndInv, DryRunInv, DryRunStep(p), Failed(p)
    PROVE  DryRunInv'
<1>1. pc[p] \in Leased /\ p \in Commands
  BY OwnStep DEF Commands
<1>2. pc'[p] = "release"
  BY <1>1 DEF Failed, Fail, GoTo, DryRunInv
<1>3. Place(p)'
  <2>1. Fits(p)
    BY DEF DryRunInv, Place
  <2>2. Fits(p)'
    BY <2>1 DEF Fits, Failed
  <2> QED BY <1>2, <2>2 DEF Place
<1> QED
  BY <1>3, PlaceKept DEF Failed

\* The range of a function on a finite set is finite.
LEMMA FiniteRange ==
    ASSUME NEW S, NEW T, NEW f \in [S -> T], IsFiniteSet(S)
    PROVE  IsFiniteSet(Range(f))
<1>1. f \in Surjection(S, Range(f))
  BY DEF Surjection, Range
<1> QED
  BY <1>1, FS_Surjection

\* The rows of the tables are finite in number.
LEMMA FiniteTables ==
    ASSUME IndInv
    PROVE  /\ \A b : /\ IsFiniteSet(MessagesIn(b)) /\ Cardinality(MessagesIn(b)) \in Nat
                     /\ IsFiniteSet(ErrorsIn(b)) /\ Cardinality(ErrorsIn(b)) \in Nat
                     /\ IsFiniteSet(NotificationsIn(b))
                     /\ Cardinality(NotificationsIn(b)) \in Nat
           /\ \A M : /\ IsFiniteSet(NotificationsOn(M))
                     /\ Cardinality(NotificationsOn(M)) \in Nat
                     /\ Cardinality(OpenOrphansOn(M)) \in Nat
<1>1. ASSUME NEW b
      PROVE  /\ MessagesIn(b) \in SUBSET Messages /\ ErrorsIn(b) \in SUBSET Errors
             /\ NotificationsIn(b) \in SUBSET Notifications
  BY DEF IndInv, MessagesIn, ErrorsIn, NotificationsIn
<1>2. ASSUME NEW M
      PROVE  /\ NotificationsOn(M) \in SUBSET Notifications
             /\ OpenOrphansOn(M) \in SUBSET Notifications
  BY DEF IndInv, NotificationsOn, OpenOrphansOn
<1> QED
  BY <1>1, <1>2, TableConstants, FS_Subset, FS_CardinalityType

\* Replacing one candidate leaves a sequence of candidates.
LEMMA CandidateUpdated ==
    ASSUME NEW cs \in Seq(Candidate), NEW i, NEW c,
           i \in DOMAIN cs => c \in Candidate
    PROVE  /\ [cs EXCEPT ![i] = c] \in Seq(Candidate)
           /\ Len([cs EXCEPT ![i] = c]) = Len(cs)
<1>1. CASE i \in 1..Len(cs)
  <2>1. c \in Candidate
    BY <1>1
  <2> QED
    BY <1>1, <2>1, ExceptSeq
<1>2. CASE i \notin 1..Len(cs)
  <2>1. cs \in [1..Len(cs) -> Candidate]
    OBVIOUS
  <2>2. [cs EXCEPT ![i] = c] = cs
    BY <1>2, <2>1
  <2> QED
    BY <2>2
<1> QED
  BY <1>1, <1>2

\* The candidate of a batch when it is selected.
Selected(b) ==
    [id |-> b, messageCount |-> Cardinality(MessagesIn(b)),
     errorCount |-> Cardinality(ErrorsIn(b)), notificationCount |-> 0,
     orphanCount |-> 0, messages |-> {}]

\* The listing of the expired batches: candidates none of whose notifications
\* have been counted.
LEMMA SelectionListed ==
    ASSUME NEW p \in DryRuns, IndInv, DryRunInv, LoadBatches(p), ~Failed(p)
    PROVE  /\ candidates'[p] \in Seq(Candidate)
           /\ \A i \in DOMAIN candidates'[p] : candidates'[p][i].notificationCount = 0
           /\ pc'[p] = IF candidates'[p] = <<>> THEN "plan" ELSE "messages"
           /\ pc[p] = "select"
           /\ UNCHANGED <<at, records, moments, files, outcome>>
<1> DEFINE S == {b \in batches : Expired(b, Policy(p))}
           C == {Selected(b) : b \in S}
<1>0. p \in Commands
  BY DEF Commands
<1>1. PICK found \in Ordered(C, Older) :
         /\ candidates' = [candidates EXCEPT ![p] = found]
         /\ GoTo(p, IF found = <<>> THEN "plan" ELSE "messages")
         /\ UNCHANGED outcome
  <2>1. /\ C = {[id |-> b, messageCount |-> Cardinality(MessagesIn(b)),
                 errorCount |-> Cardinality(ErrorsIn(b)), notificationCount |-> 0,
                 orphanCount |-> 0, messages |-> {}] : b \in S}
    BY DEF Selected
  <2> QED BY <2>1 DEF LoadBatches, Failed
<1>2. IsFiniteSet(C)
  <2> DEFINE f == [b \in S |-> Selected(b)]
  <2>1. S \in SUBSET Batches
    BY DEF IndInv
  <2>2. IsFiniteSet(S)
    BY <2>1, TableConstants, FS_Subset
  <2>3. f \in [S -> C]
    OBVIOUS
  <2>4. Range(f) = C
    BY DEF Range
  <2> QED BY <2>2, <2>3, <2>4, FiniteRange
<1>3. \A c \in C : c \in Candidate /\ c.notificationCount = 0
  <2> SUFFICES ASSUME NEW b \in S
               PROVE  Selected(b) \in Candidate /\ Selected(b).notificationCount = 0
    OBVIOUS
  <2>1. b \in Batches
    BY DEF IndInv
  <2> QED BY <2>1, FiniteTables DEF Selected, Candidate
<1> HIDE DEF C
<1>4. Cardinality(C) \in Nat /\ found \in [1..Cardinality(C) -> C]
  BY <1>2, FS_CardinalityType DEF Ordered
<1>5. /\ found \in Seq(Candidate)
      /\ \A i \in DOMAIN found : found[i].notificationCount = 0
  <2> DEFINE n == Cardinality(C)
  <2>1. n \in Nat /\ found \in [1..n -> C]
    BY <1>4
  <2> HIDE DEF n
  <2>2. found \in [1..n -> Candidate]
    BY <1>3, <2>1
  <2>3. found \in Seq(Candidate)
    BY <2>1, <2>2
  <2> QED BY <1>3, <2>1, <2>3
<1>6. candidates'[p] = found
  BY <1>1 DEF DryRunInv
<1> QED
  BY <1>0, <1>1, <1>5, <1>6 DEF LoadBatches, GoTo, DryRunInv, Failed

\* The plan only rearranges candidates.
LEMMA PlanSorts ==
    ASSUME NEW p \in DryRuns, IndInv, DryRunInv, BuildSelectionPlan(p), ~Failed(p)
    PROVE  /\ candidates'[p] \in Seq(Candidate)
           /\ \A i \in DOMAIN candidates'[p] : \E j \in DOMAIN candidates[p] :
                 candidates'[p][i] = candidates[p][j]
           /\ candidates[p] # <<>> <=> candidates'[p] # <<>>
           /\ pc'[p] = IF line[p].escrowOut = None THEN "manifest"
                       ELSE IF candidates[p] = <<>> THEN "escrow" ELSE "parent"
           /\ pc[p] = "plan"
           /\ UNCHANGED <<at, records, moments, files, outcome>>
<1> DEFINE cs == candidates[p]
           R == Range(cs)
<1>0. p \in Commands
  BY DEF Commands
<1>1. PICK sorted \in Ordered(R, Before) : candidates' = [candidates EXCEPT ![p] = sorted]
  BY DEF BuildSelectionPlan, Failed
<1>2. cs \in Seq(Candidate)
  BY DEF DryRunInv
<1>3. IsFiniteSet(R)
  <2>1. cs \in [1..Len(cs) -> Candidate]
    BY <1>2
  <2>2. Len(cs) \in Nat
    BY <1>2
  <2>3. IsFiniteSet(1..Len(cs))
    BY <2>2, FS_Interval
  <2> HIDE DEF cs
  <2> QED BY <2>1, <2>3, FiniteRange
<1>4. \A c \in R : c \in Candidate /\ \E j \in DOMAIN cs : c = cs[j]
  BY <1>2 DEF Range
<1>5. cs # <<>> <=> R # {}
  <2>1. CASE cs = <<>>
    <3>1. DOMAIN cs = {}
      BY <2>1
    <3> QED BY <2>1, <3>1 DEF Range
  <2>2. CASE cs # <<>>
    <3>1. 1 \in DOMAIN cs
      BY <1>2, <2>2
    <3> QED BY <2>2, <3>1 DEF Range
  <2> QED BY <2>1, <2>2
<1> HIDE DEF R
<1>6. Cardinality(R) \in Nat /\ sorted \in [1..Cardinality(R) -> R]
  BY <1>3, FS_CardinalityType DEF Ordered
<1>7. Cardinality(R) = 0 <=> R = {}
  BY <1>3, FS_EmptySet
<1>8. /\ sorted \in Seq(Candidate)
      /\ \A i \in DOMAIN sorted : \E j \in DOMAIN cs : sorted[i] = cs[j]
      /\ sorted # <<>> <=> R # {}
  <2> DEFINE n == Cardinality(R)
  <2>1. n \in Nat /\ sorted \in [1..n -> R] /\ (n = 0 <=> R = {})
    BY <1>6, <1>7
  <2> HIDE DEF n, cs
  <2>2. sorted \in [1..n -> Candidate]
    BY <1>4, <2>1
  <2>3. sorted \in Seq(Candidate) /\ Len(sorted) = n
    BY <2>1, <2>2
  <2>4. sorted # <<>> <=> n # 0
    BY <2>1, <2>3
  <2> QED BY <1>4, <2>1, <2>3, <2>4
<1>9. candidates'[p] = sorted
  BY <1>1 DEF DryRunInv
<1>10. /\ GoTo(p, IF line[p].escrowOut = None THEN "manifest"
                 ELSE IF cs = <<>> THEN "escrow" ELSE "parent")
       /\ UNCHANGED <<at, records, moments, files, outcome>>
       /\ pc[p] = "plan"
  BY DEF BuildSelectionPlan, Failed
<1>11. pc'[p] = IF line[p].escrowOut = None THEN "manifest"
                ELSE IF cs = <<>> THEN "escrow" ELSE "parent"
  BY <1>0, <1>10 DEF GoTo, DryRunInv
<1> QED
  BY <1>5, <1>8, <1>9, <1>10, <1>11

\* The step to the next candidate or the next stage.
LEMMA Advanced ==
    ASSUME NEW p \in DryRuns, DryRunInv, NEW again, NEW then, Advance(p, again, then)
    PROVE  \/ /\ at[p] < Len(candidates[p]) /\ at'[p] = at[p] + 1 /\ pc'[p] = again
           \/ /\ ~(at[p] < Len(candidates[p])) /\ at'[p] = 1 /\ pc'[p] = then
<1>1. p \in Commands
  BY DEF Commands
<1> QED
  BY <1>1 DEF Advance, GoTo, DryRunInv

\* What the message query of the selection finds.
LEMMA MessagesLoaded ==
    ASSUME NEW p \in DryRuns, IndInv, DryRunInv, LoadMessages(p), ~Failed(p),
           ~UNCHANGED candidates
    PROVE  LET c == candidates[p][at[p]]
               M == MessagesIn(c.id)
               d == [c EXCEPT !.messages = M,
                              !.notificationCount = Cardinality(NotificationsOn(M))]
           IN  /\ candidates'[p] = [candidates[p] EXCEPT ![at[p]] = d]
               /\ pc[p] = "messages" /\ pc'[p] = "orphans"
               /\ UNCHANGED <<at, records, moments, files, outcome>>
               /\ at[p] \in DOMAIN candidates[p]
               /\ c \in Candidate /\ d \in Candidate
<1> DEFINE c == candidates[p][at[p]]
           M == MessagesIn(c.id)
           d == [c EXCEPT !.messages = M,
                          !.notificationCount = Cardinality(NotificationsOn(M))]
<1>0. p \in Commands
  BY DEF Commands
<1>1. /\ candidates' = [candidates EXCEPT ![p][at[p]] = d]
      /\ GoTo(p, "orphans") /\ pc[p] = "messages"
      /\ UNCHANGED <<at, records, moments, files, outcome>>
  BY DEF LoadMessages, Failed
<1>2. at[p] \in DOMAIN candidates[p] /\ c \in Candidate
  BY <1>1 DEF DryRunInv, Place, Fits
<1>3. d \in Candidate
  <2>1. M \in SUBSET Messages
    BY DEF IndInv, MessagesIn
  <2>2. Cardinality(NotificationsOn(M)) \in Nat
    BY FiniteTables
  <2> HIDE DEF c, M
  <2> QED BY <1>2, <2>1, <2>2 DEF Candidate
<1>4. candidates'[p] = [candidates[p] EXCEPT ![at[p]] = d]
  BY <1>1 DEF DryRunInv
<1>5. pc'[p] = "orphans"
  BY <1>0, <1>1 DEF GoTo, DryRunInv
<1> QED
  BY <1>1, <1>2, <1>3, <1>4, <1>5

\* What the orphan query of the selection finds.
LEMMA OrphansCounted ==
    ASSUME NEW p \in DryRuns, IndInv, DryRunInv, CountBatchLinkedOrphans(p)
    PROVE  LET c == candidates[p][at[p]]
               d == [c EXCEPT !.orphanCount = Cardinality(OpenOrphansOn(c.messages))]
           IN  /\ candidates'[p] = [candidates[p] EXCEPT ![at[p]] = d]
               /\ pc[p] = "orphans" /\ Advance(p, "messages", "plan")
               /\ UNCHANGED <<records, moments, files, outcome>>
               /\ at[p] \in DOMAIN candidates[p]
               /\ c \in Candidate /\ d \in Candidate
<1> DEFINE c == candidates[p][at[p]]
           d == [c EXCEPT !.orphanCount = Cardinality(OpenOrphansOn(c.messages))]
<1>1. /\ candidates' = [candidates EXCEPT ![p][at[p]] = d]
      /\ pc[p] = "orphans" /\ Advance(p, "messages", "plan")
      /\ UNCHANGED <<records, moments, files, outcome>>
  BY DEF CountBatchLinkedOrphans
<1>2. at[p] \in DOMAIN candidates[p] /\ c \in Candidate
  BY <1>1 DEF DryRunInv, Place, Fits
<1>3. d \in Candidate
  <2>2. Cardinality(OpenOrphansOn(c.messages)) \in Nat
    BY FiniteTables
  <2> HIDE DEF c
  <2> QED BY <1>2, <2>2 DEF Candidate
<1>4. candidates'[p] = [candidates[p] EXCEPT ![at[p]] = d]
  BY <1>1 DEF DryRunInv
<1> QED
  BY <1>1, <1>2, <1>3, <1>4

\* The selection keeps the place of the dry run.
LEMMA SelectionKeepsPlace ==
    ASSUME NEW p \in DryRuns, IndInv, DryRunInv,
           LoadBatches(p) \/ LoadMessages(p) \/ CountBatchLinkedOrphans(p)
             \/ BuildSelectionPlan(p)
    PROVE  DryRunInv'
<1>0. /\ DryRunStep(p)
      /\ candidates[p] \in Seq(Candidate) /\ at[p] \in Nat
      /\ moments[p] \in Seq(EscrowRecord) /\ records[p] \in Seq(EscrowRecord)
      /\ Place(p)
  BY DEF DryRunStep, DryRunInv, IndInv, StreamInv
<1>1. CASE Failed(p)
  BY <1>0, <1>1, FailedKeepsPlace
<1>2. CASE LoadBatches(p) /\ ~Failed(p)
  <2> DEFINE found == candidates'[p]
  <2>1. /\ found \in Seq(Candidate)
        /\ pc'[p] = IF found = <<>> THEN "plan" ELSE "messages"
        /\ pc[p] = "select"
        /\ UNCHANGED <<at, records, moments>>
    BY <1>2, SelectionListed
  <2>2. at[p] = 1 /\ Streamed(p, 0, 0)
    BY <1>0, <2>1 DEF Place, Fits
  <2> HIDE DEF found
  <2>3. found # <<>> => 1 <= Len(found)
    BY <2>1
  <2>4. /\ at'[p] = 1 /\ Len(records'[p]) = 0 /\ Len(moments'[p]) = 0
        /\ pc'[p] = IF candidates'[p] = <<>> THEN "plan" ELSE "messages"
        /\ candidates'[p] \in Seq(Candidate)
        /\ candidates'[p] # <<>> => 1 <= Len(candidates'[p])
    BY <2>1, <2>2, <2>3 DEF Streamed, found
  <2>5. Place(p)'
    BY <2>4 DEF Place, Fits, Streamed
  <2> QED BY <1>0, <2>1, <2>4, <2>5, OwnPlaceSuffices
<1>3. CASE LoadMessages(p) /\ ~Failed(p) /\ UNCHANGED candidates
  <2>1. /\ pc[p] = "messages"
        /\ UNCHANGED <<records, moments>>
        /\ Advance(p, "messages", "plan") \/ (UNCHANGED at /\ GoTo(p, "orphans"))
    BY <1>3 DEF LoadMessages, Failed
  <2>2. CASE Advance(p, "messages", "plan")
    <3>1. Place(p)' /\ at'[p] \in Nat
      BY <1>0, <1>3, <2>1, <2>2, Advanced DEF Place, Fits, Streamed
    <3> QED BY <1>0, <1>3, <2>1, <3>1, OwnPlaceSuffices
  <2>3. CASE UNCHANGED at /\ GoTo(p, "orphans")
    <3>1. pc'[p] = "orphans"
      BY <2>3 DEF GoTo, DryRunInv, Commands
    <3>2. Place(p)'
      BY <1>0, <1>3, <2>1, <2>3, <3>1 DEF Place, Fits, Streamed
    <3> QED BY <1>0, <1>3, <2>1, <2>3, <3>2, PlaceKept
  <2> QED BY <2>1, <2>2, <2>3
<1>4. CASE LoadMessages(p) /\ ~Failed(p) /\ ~UNCHANGED candidates
  <2>1. PICK d \in Candidate : candidates'[p] = [candidates[p] EXCEPT ![at[p]] = d]
    BY <1>4, MessagesLoaded
  <2>2. /\ pc[p] = "messages" /\ pc'[p] = "orphans"
        /\ UNCHANGED <<at, records, moments>>
    BY <1>4, MessagesLoaded
  <2>3. candidates'[p] \in Seq(Candidate) /\ Len(candidates'[p]) = Len(candidates[p])
    BY <1>0, <2>1, CandidateUpdated
  <2>4. candidates'[p] # <<>>
    BY <1>0, <2>2, <2>3 DEF Place
  <2>5. Place(p)'
    BY <1>0, <2>2, <2>3, <2>4 DEF Place, Fits, Streamed
  <2> QED BY <1>0, <2>2, <2>3, <2>5, OwnPlaceSuffices
<1>5. CASE CountBatchLinkedOrphans(p)
  <2>1. PICK d \in Candidate : candidates'[p] = [candidates[p] EXCEPT ![at[p]] = d]
    BY <1>5, OrphansCounted
  <2>2. /\ pc[p] = "orphans" /\ Advance(p, "messages", "plan")
        /\ UNCHANGED <<records, moments>>
    BY <1>5, OrphansCounted
  <2>3. candidates'[p] \in Seq(Candidate) /\ Len(candidates'[p]) = Len(candidates[p])
    BY <1>0, <2>1, CandidateUpdated
  <2>4. candidates'[p] # <<>> /\ 1 <= Len(candidates[p])
    BY <1>0, <2>2, <2>3 DEF Place
  <2>5. /\ at[p] \in 1..Len(candidates[p]) /\ Len(candidates[p]) \in Nat
        /\ Streamed(p, 0, 0)
    BY <1>0, <2>2, <2>4 DEF Place, Fits
  <2>6. \/ at'[p] = at[p] + 1 /\ at[p] < Len(candidates[p]) /\ pc'[p] = "messages"
        \/ at'[p] = 1 /\ pc'[p] = "plan"
    BY <2>2, Advanced
  <2>7. Fits(p)' /\ Streamed(p, 0, 0)' /\ at'[p] \in Nat
    BY <2>2, <2>3, <2>4, <2>5, <2>6 DEF Fits, Streamed
  <2>8. Place(p)'
    BY <2>4, <2>6, <2>7 DEF Place
  <2> QED BY <1>0, <2>2, <2>3, <2>7, <2>8, OwnPlaceSuffices
<1>6. CASE BuildSelectionPlan(p) /\ ~Failed(p)
  <2>1. /\ candidates'[p] \in Seq(Candidate)
        /\ candidates[p] # <<>> <=> candidates'[p] # <<>>
        /\ pc'[p] = IF line[p].escrowOut = None THEN "manifest"
                    ELSE IF candidates[p] = <<>> THEN "escrow" ELSE "parent"
        /\ pc[p] = "plan"
        /\ UNCHANGED <<at, records, moments>>
    BY <1>6, PlanSorts
  <2>2. UNCHANGED line
    BY <1>0, OwnStep
  <2>3. at[p] = 1 /\ Len(records[p]) = 0 /\ Len(moments[p]) = 0
    BY <1>0, <2>1 DEF Place, Streamed
  <2>4. candidates'[p] # <<>> => 1 <= Len(candidates'[p])
    BY <2>1
  <2>5. candidates'[p] = <<>> => Len(candidates'[p]) = 0
    OBVIOUS
  <2>6. line[p].escrowOut # None /\ pc'[p] = "manifest" => FALSE
    BY <2>1
  <2>7. at'[p] = 1 /\ Len(records'[p]) = 0 /\ Len(moments'[p]) = 0 /\ line'[p] = line[p]
    BY <2>1, <2>2, <2>3
  <2>8. Fits(p)'
    BY <2>1, <2>4, <2>7 DEF Fits
  <2>9. Place(p)'
    <3>1. CASE line[p].escrowOut = None
      BY <2>1, <2>7, <2>8, <3>1 DEF Place
    <3>2. CASE line[p].escrowOut # None /\ candidates[p] = <<>>
      <4>1. pc'[p] = "escrow" /\ Len(candidates'[p]) = 0
        BY <2>1, <2>5, <3>2
      <4> QED BY <2>7, <2>8, <4>1 DEF Place, Streamed
    <3>3. CASE line[p].escrowOut # None /\ candidates[p] # <<>>
      <4>1. pc'[p] = "parent" /\ candidates'[p] # <<>>
        BY <2>1, <3>3
      <4> QED BY <2>7, <2>8, <4>1 DEF Place, Streamed
    <3> QED BY <3>1, <3>2, <3>3
  <2> QED BY <1>0, <2>1, <2>9, OwnPlaceSuffices
<1> QED
  BY <1>1, <1>2, <1>3, <1>4, <1>5, <1>6

\* A batch's record before its rows are read.
Blank(b) == [id |-> b, messages |-> {}, errors |-> {}, notifications |-> {}]

\* What the queries of the escrow stream do to the record in progress.
LEMMA RowsStreamed ==
    ASSUME NEW p \in DryRuns, IndInv, DryRunInv, ~Failed(p)
    PROVE  LET i == at[p]
               c == candidates[p][i]
               rs == records[p]
           IN  /\ LoadBatchRow(p) =>
                    /\ pc[p] = "parent" /\ pc'[p] = "rows"
                    /\ c.id \in Batches
                    /\ records'[p] = Append(rs, Blank(c.id))
                    /\ UNCHANGED <<candidates, at, moments>>
               /\ LoadMessageRows(p) =>
                    /\ pc[p] = "rows" /\ pc'[p] = "errors"
                    /\ records'[p] = [rs EXCEPT ![i] = [rs[i] EXCEPT !.messages = MessagesIn(c.id)]]
                    /\ moments'[p] = Append(moments[p], Snapshot(c.id))
                    /\ Cardinality(MessagesIn(c.id)) = c.messageCount
                    /\ UNCHANGED <<candidates, at>>
               /\ LoadErrorRows(p) =>
                    /\ pc[p] = "errors"
                    /\ records'[p] = [rs EXCEPT ![i] = [rs[i] EXCEPT !.errors = ErrorsIn(c.id)]]
                    /\ \/ c.messageCount > 0 /\ pc'[p] = "notifications" /\ UNCHANGED at
                       \/ ~(c.messageCount > 0) /\ Advance(p, "parent", "escrow")
                    /\ UNCHANGED <<candidates, moments>>
               /\ LoadNotificationRows(p) =>
                    /\ pc[p] = "notifications" /\ pc'[p] = "validate"
                    /\ records'[p] =
                         [rs EXCEPT ![i] = [rs[i] EXCEPT !.notifications = NotificationsIn(c.id)]]
                    /\ Cardinality(NotificationsIn(c.id)) = c.notificationCount
                    /\ UNCHANGED <<candidates, at, moments>>
               /\ ValidateOrphanCount(p) =>
                    /\ pc[p] = "validate" /\ Advance(p, "parent", "escrow")
                    /\ UNCHANGED <<candidates, records, moments>>
<1>0. /\ p \in Commands
      /\ pc \in [Commands -> Labels]
      /\ records \in [DryRuns -> Seq(EscrowRecord)]
      /\ moments \in [DryRuns -> Seq(EscrowRecord)]
  BY DEF Commands, IndInv, StreamInv, DryRunInv
<1>1. ASSUME LoadBatchRow(p)
      PROVE  /\ pc[p] = "parent" /\ pc'[p] = "rows"
             /\ candidates[p][at[p]].id \in Batches
             /\ records'[p] = Append(records[p], Blank(candidates[p][at[p]].id))
             /\ UNCHANGED <<candidates, at, moments>>
  BY <1>0, <1>1 DEF LoadBatchRow, Failed, Blank, GoTo, IndInv
<1>2. ASSUME LoadMessageRows(p)
      PROVE  LET i == at[p]
                 c == candidates[p][i]
                 rs == records[p]
             IN  /\ pc[p] = "rows" /\ pc'[p] = "errors"
                 /\ records'[p] = [rs EXCEPT ![i] = [rs[i] EXCEPT !.messages = MessagesIn(c.id)]]
                 /\ moments'[p] = Append(moments[p], Snapshot(c.id))
                 /\ Cardinality(MessagesIn(c.id)) = c.messageCount
                 /\ UNCHANGED <<candidates, at>>
  BY <1>0, <1>2 DEF LoadMessageRows, Failed, GoTo
<1>3. ASSUME LoadErrorRows(p)
      PROVE  LET i == at[p]
                 c == candidates[p][i]
                 rs == records[p]
             IN  /\ pc[p] = "errors"
                 /\ records'[p] = [rs EXCEPT ![i] = [rs[i] EXCEPT !.errors = ErrorsIn(c.id)]]
                 /\ \/ c.messageCount > 0 /\ pc'[p] = "notifications" /\ UNCHANGED at
                    \/ ~(c.messageCount > 0) /\ Advance(p, "parent", "escrow")
                 /\ UNCHANGED <<candidates, moments>>
  BY <1>0, <1>3 DEF LoadErrorRows, Failed, GoTo
<1>4. ASSUME LoadNotificationRows(p)
      PROVE  LET i == at[p]
                 c == candidates[p][i]
                 rs == records[p]
             IN  /\ pc[p] = "notifications" /\ pc'[p] = "validate"
                 /\ records'[p] =
                      [rs EXCEPT ![i] = [rs[i] EXCEPT !.notifications = NotificationsIn(c.id)]]
                 /\ Cardinality(NotificationsIn(c.id)) = c.notificationCount
                 /\ UNCHANGED <<candidates, at, moments>>
  BY <1>0, <1>4 DEF LoadNotificationRows, Failed, GoTo
<1>5. ASSUME ValidateOrphanCount(p)
      PROVE  /\ pc[p] = "validate" /\ Advance(p, "parent", "escrow")
             /\ UNCHANGED <<candidates, records, moments>>
  BY <1>5 DEF ValidateOrphanCount, Failed
<1> QED
  BY <1>1, <1>2, <1>3, <1>4, <1>5

\* Replacing a streamed record keeps the length of the stream.
LEMMA RecordReplaced ==
    ASSUME NEW rs \in Seq(EscrowRecord), NEW i, NEW rec
    PROVE  Len([rs EXCEPT ![i] = rec]) = Len(rs)
  OBVIOUS

\* The queries of the escrow stream keep the place of the dry run.
LEMMA StreamKeepsPlace ==
    ASSUME NEW p \in DryRuns, IndInv, DryRunInv,
           LoadBatchRow(p) \/ LoadMessageRows(p) \/ LoadErrorRows(p)
             \/ LoadNotificationRows(p) \/ ValidateOrphanCount(p)
    PROVE  DryRunInv'
<1>0. /\ DryRunStep(p)
      /\ candidates[p] \in Seq(Candidate) /\ at[p] \in Nat
      /\ moments[p] \in Seq(EscrowRecord) /\ records[p] \in Seq(EscrowRecord)
      /\ Place(p)
  BY DEF DryRunStep, DryRunInv, IndInv, StreamInv
<1>1. CASE Failed(p)
  BY <1>0, <1>1, FailedKeepsPlace
<1>2. CASE LoadBatchRow(p) /\ ~Failed(p)
  <2>1. /\ pc[p] = "parent" /\ pc'[p] = "rows"
        /\ candidates[p][at[p]].id \in Batches
        /\ records'[p] = Append(records[p], Blank(candidates[p][at[p]].id))
        /\ UNCHANGED <<candidates, at, moments>>
    BY <1>2, RowsStreamed
  <2>2. Len(records'[p]) = Len(records[p]) + 1
    BY <1>0, <2>1
  <2>3. Place(p)'
    BY <1>0, <2>1, <2>2 DEF Place, Fits, Streamed
  <2> QED BY <1>0, <2>1, <2>3, OwnPlaceSuffices
<1>3. CASE LoadMessageRows(p) /\ ~Failed(p)
  <2> DEFINE c == candidates[p][at[p]]
  <2>1. /\ pc[p] = "rows" /\ pc'[p] = "errors"
        /\ moments'[p] = Append(moments[p], Snapshot(c.id))
        /\ UNCHANGED <<candidates, at>>
    BY <1>3, RowsStreamed
  <2>2. PICK rec : records'[p] = [records[p] EXCEPT ![at[p]] = rec]
    BY <1>3, RowsStreamed
  <2>3. Len(records'[p]) = Len(records[p])
    BY <1>0, <2>2, RecordReplaced
  <2>4. c \in Candidate
    BY <1>0, <2>1 DEF Place, Fits
  <2>5. Snapshot(c.id) \in EscrowRecord
    <3>1. c.id \in Batches
      BY <2>4 DEF Candidate
    <3> QED BY <3>1 DEF Snapshot, EscrowRecord, IndInv, MessagesIn, ErrorsIn, NotificationsIn
  <2> HIDE DEF c
  <2>6. moments'[p] \in Seq(EscrowRecord) /\ Len(moments'[p]) = Len(moments[p]) + 1
    BY <1>0, <2>1, <2>5
  <2>7. Place(p)'
    BY <1>0, <2>1, <2>3, <2>6 DEF Place, Fits, Streamed
  <2> QED BY <1>0, <2>1, <2>6, <2>7, OwnPlaceSuffices
<1>4. CASE LoadErrorRows(p) /\ ~Failed(p)
  <2>1. PICK rec : records'[p] = [records[p] EXCEPT ![at[p]] = rec]
    BY <1>4, RowsStreamed
  <2>2. Len(records'[p]) = Len(records[p])
    BY <1>0, <2>1, RecordReplaced
  <2>3. /\ pc[p] = "errors" /\ UNCHANGED <<candidates, moments>>
        /\ \/ pc'[p] = "notifications" /\ UNCHANGED at
           \/ Advance(p, "parent", "escrow")
    BY <1>4, RowsStreamed
  <2>4. Place(p)' /\ at'[p] \in Nat
    BY <1>0, <2>2, <2>3, Advanced DEF Place, Fits, Streamed
  <2> QED BY <1>0, <2>3, <2>4, OwnPlaceSuffices
<1>5. CASE LoadNotificationRows(p) /\ ~Failed(p)
  <2>1. PICK rec : records'[p] = [records[p] EXCEPT ![at[p]] = rec]
    BY <1>5, RowsStreamed
  <2>2. Len(records'[p]) = Len(records[p])
    BY <1>0, <2>1, RecordReplaced
  <2>3. /\ pc[p] = "notifications" /\ pc'[p] = "validate"
        /\ UNCHANGED <<candidates, at, moments>>
    BY <1>5, RowsStreamed
  <2>4. Place(p)'
    BY <1>0, <2>2, <2>3 DEF Place, Fits, Streamed
  <2> QED BY <1>0, <2>3, <2>4, OwnPlaceSuffices
<1>6. CASE ValidateOrphanCount(p) /\ ~Failed(p)
  <2>1. /\ pc[p] = "validate" /\ Advance(p, "parent", "escrow")
        /\ UNCHANGED <<candidates, records, moments>>
    BY <1>6, RowsStreamed
  <2>2. Place(p)' /\ at'[p] \in Nat
    BY <1>0, <2>1, Advanced DEF Place, Fits, Streamed
  <2> QED BY <1>0, <2>1, <2>2, OwnPlaceSuffices
<1> QED
  BY <1>1, <1>2, <1>3, <1>4, <1>5, <1>6

\* Publishing the files keeps the place of the dry run.
LEMMA PublicationKeepsPlace ==
    ASSUME NEW p \in DryRuns, IndInv, DryRunInv,
           WriteEscrowFile(p) \/ WriteArtifact(p) \/ WriteManifest(p)
    PROVE  DryRunInv'
<1>0. /\ DryRunStep(p) /\ p \in Commands
      /\ Place(p)
      /\ UNCHANGED <<candidates, at, records, moments>>
      /\ pc \in [Commands -> Labels]
  BY DEF DryRunStep, DryRunInv, Commands, WriteEscrowFile, WriteArtifact, WriteManifest, dryRun
<1>1. UNCHANGED line
  BY <1>0, OwnStep
<1>2. \/ pc'[p] = "release"
      \/ pc[p] = "escrow" /\ pc'[p] \in {"manifest", "artifact"}
      \/ pc[p] = "artifact" /\ pc'[p] = "manifest"
  BY <1>0 DEF WriteEscrowFile, WriteArtifact, WriteManifest, PublishJson, Fail, Succeed, GoTo,
              Leased
<1>3. Place(p)'
  BY <1>0, <1>1, <1>2 DEF Place, Fits, Streamed
<1> QED
  BY <1>0, <1>3, PlaceKept

\* So does every other step.
LEMMA RestKeepsPlace ==
    ASSUME IndInv, DryRunInv, DryRunsRest
    PROVE  DryRunInv'
<1>1. ASSUME NEW p \in DryRuns
      PROVE  Place(p)' /\ (pc'[p] # "idle" => line'[p] \in DryRunLines)
  <2>1. /\ Place(p) /\ (pc[p] # "idle" => line[p] \in DryRunLines) /\ Moved(p)
        /\ UNCHANGED <<candidates, at, records, moments>>
        /\ pc[p] \in Labels
    BY DEF DryRunInv, DryRunsRest, Commands
  <2>2. Fits(p)'
    BY <2>1 DEF Place, Fits
  <2>3. CASE pc'[p] \in Ended
    BY <2>1, <2>2, <2>3 DEF Place, Ended, Moved
  <2>4. CASE pc'[p] \notin Ended
    BY <2>1, <2>2, <2>4 DEF Place, Streamed, Moved
  <2> QED BY <2>3, <2>4
<1> QED
  BY <1>1 DEF DryRunInv, DryRunsRest

\* The place of a dry run is an invariant.
LEMMA NextDryRunInv ==
    ASSUME IndInv, DryRunInv, [Next]_vars
    PROVE  DryRunInv'
  BY DryRunFrame, RestKeepsPlace, SelectionKeepsPlace, StreamKeepsPlace,
     PublicationKeepsPlace DEF DryRunStep

\* No dry run has gathered anything when the first command starts.
LEMMA InitDryRunInv ==
    Init => DryRunInv
<1> SUFFICES ASSUME Init PROVE DryRunInv
  OBVIOUS
<1>1. /\ pc \in [Commands -> Labels]
      /\ outcome \in [Commands -> {None, "ok", "failed"}]
      /\ candidates \in [DryRuns -> Seq(Candidate)]
      /\ at \in [DryRuns -> Nat]
      /\ moments \in [DryRuns -> Seq(EscrowRecord)]
  BY DEF Init, Labels
<1>2. ASSUME NEW p \in DryRuns
      PROVE  Place(p) /\ pc[p] = "idle"
  <2>1. /\ pc[p] = "idle" /\ candidates[p] = <<>> /\ at[p] = 1
        /\ records[p] = <<>> /\ moments[p] = <<>>
    BY DEF Init, Commands
  <2> QED BY <2>1 DEF Place, Fits, Streamed
<1> QED
  BY <1>1, <1>2 DEF DryRunInv

----------------------------------------------------------------------------
(***************************************************************************)
(* The escrow is a consistent cut. While a batch is there its failures     *)
(* stay and its notifications only become more, so the count taken in the  *)
(* selection is a lower bound from then on, and a later query that finds   *)
(* just as many has found what was there when the e-mails were read.       *)
(***************************************************************************)
CountIsLowerBound(p, i) ==
    candidates[p][i].id \in batches =>
       candidates[p][i].notificationCount <= Cardinality(NotificationsIn(candidates[p][i].id))

Whole(p, i) == candidates[p][i].id \in batches => records[p][i] = moments[p][i]

HalfRead(p, i) ==
    candidates[p][i].id \in batches =>
       /\ records[p][i].id = moments[p][i].id
       /\ records[p][i].messages = moments[p][i].messages
       /\ records[p][i].notifications = {}
       /\ moments[p][i].errors = ErrorsIn(candidates[p][i].id)
       /\ moments[p][i].notifications \subseteq NotificationsIn(candidates[p][i].id)
       /\ candidates[p][i].notificationCount <= Cardinality(moments[p][i].notifications)
       /\ candidates[p][i].messageCount = 0 => moments[p][i].notifications = {}

Cut(p) ==
    /\ \A i \in DOMAIN candidates[p] : CountIsLowerBound(p, i)
    /\ pc[p] \in {"parent", "rows", "errors", "notifications"} =>
          \A i \in 1..(at[p] - 1) : Whole(p, i)
    /\ pc[p] = "rows" => records[p][at[p]] = Blank(candidates[p][at[p]].id)
    /\ pc[p] \in {"errors", "notifications"} => HalfRead(p, at[p])
    /\ pc[p] = "notifications" /\ candidates[p][at[p]].id \in batches =>
          records[p][at[p]].errors = moments[p][at[p]].errors
    /\ pc[p] \in {"validate", "escrow", "artifact"}
         \/ (pc[p] = "manifest" /\ line[p].escrowOut # None)
       => \A i \in DOMAIN records[p] : Whole(p, i)

CutInv == \A p \in DryRuns : Cut(p)

TablesMove ==
    /\ batches' \subseteq batches
    /\ \A b \in batches' : /\ ErrorsIn(b)' = ErrorsIn(b)
                           /\ NotificationsIn(b) \subseteq NotificationsIn(b)'

\* A batch that is still there after a step has the same failures and no
\* notification less.
LEMMA StepMovesTables ==
    ASSUME IndInv, [Next]_vars
    PROVE  TablesMove
<1>1. ASSUME UNCHANGED <<batches, errors>>, notifications \subseteq notifications'
      PROVE  TablesMove
  BY <1>1 DEF TablesMove, ErrorsIn, NotificationsIn
<1>2. ASSUME NEW p \in Applies, Commit(p), NEW b, b = input[p].bindings[Current(p)]
      PROVE  TablesMove
  <2>1. /\ notifications' = notifications \ NotificationsOn(MessagesIn(b))
        /\ errors' = errors \ ErrorsIn(b)
        /\ batches' = batches \ {b}
    BY <1>2 DEF Commit, DeleteBatch
  <2>2. ASSUME NEW a \in batches'
        PROVE  /\ ErrorsIn(a)' = ErrorsIn(a)
               /\ NotificationsIn(a) \subseteq NotificationsIn(a)'
    BY <2>1 DEF ErrorsIn, NotificationsIn, NotificationsOn, MessagesIn
  <2> QED BY <2>1, <2>2 DEF TablesMove
<1>3. ASSUME NEW p \in Commands, Begin(p) \/ CommandStep(p) \/ Throw(p) \/ Crash(p)
                                   \/ LoseLock(p)
      PROVE  TablesMove
  <2>1. CASE Begin(p) \/ TryAcquire(p) \/ Release(p) \/ Throw(p) \/ Crash(p) \/ LoseLock(p)
    BY <1>1, <2>1 DEF Begin, TryAcquire, Release, Throw, Crash, LoseLock, tables
  <2>2. CASE p \in DryRuns /\ DryRunStep(p)
    BY <1>1, <2>2 DEF DryRunStep, LoadBatches, LoadMessages, CountBatchLinkedOrphans,
                BuildSelectionPlan, LoadBatchRow, LoadMessageRows, LoadErrorRows,
                LoadNotificationRows, ValidateOrphanCount, WriteEscrowFile,
                WriteArtifact, WriteManifest, tables
  <2>3. CASE p \in Applies /\ ApplyStep(p)
    <3>1. CASE Commit(p)
      BY <1>2, <2>3, <3>1
    <3>2. CASE UNCHANGED tables
      BY <1>1, <3>2 DEF tables
    <3> QED BY <2>3, <3>1, <3>2 DEF ApplyStep, ReadInputs, ApplyBatch,
                ApplyBatchUnacknowledged, ApplyBatchRefused, IssueReceipt
  <2> QED
    BY <1>3, <2>1, <2>2, <2>3 DEF CommandStep
<1>4. CASE ProxyStep
  <2>1. UNCHANGED <<batches, errors>> /\ notifications \subseteq notifications'
    BY <1>4 DEF ProxyStep, Writers, CreateNewsletterEntry, SaveNewsletterNotification,
                SaveNewsletterNotificationOrphan, ReconcileNewsletterNotificationOrphan
  <2> QED BY <1>1, <2>1
<1>5. CASE UNCHANGED vars
  BY <1>1, <1>5 DEF vars, tables
<1> QED
  BY <1>3, <1>4, <1>5 DEF Next

\* What was read of a batch is as right after a step as it was before.
LEMMA ReadingsStand ==
    ASSUME NEW p \in DryRuns, NEW i, IndInv', TablesMove,
           candidates'[p][i] = candidates[p][i], candidates[p][i] \in Candidate
    PROVE  /\ CountIsLowerBound(p, i) => CountIsLowerBound(p, i)'
           /\ records'[p][i] = records[p][i] /\ moments'[p][i] = moments[p][i] =>
                /\ Whole(p, i) => Whole(p, i)'
                /\ HalfRead(p, i) => HalfRead(p, i)'
<1> DEFINE b == candidates[p][i].id
           k == candidates[p][i].notificationCount
<1>1. k \in Nat
  BY DEF Candidate
<1>2. ASSUME b \in batches'
      PROVE  /\ b \in batches /\ ErrorsIn(b)' = ErrorsIn(b)
             /\ NotificationsIn(b) \subseteq NotificationsIn(b)'
  BY <1>2 DEF TablesMove
<1>3. ASSUME b \in batches', k <= Cardinality(NotificationsIn(b))
      PROVE  k <= Cardinality(NotificationsIn(b)')
  <2>1. NotificationsIn(b)' \in SUBSET Notifications
    BY DEF IndInv, NotificationsIn
  <2>2. IsFiniteSet(NotificationsIn(b)')
    BY <2>1, TableConstants, FS_Subset
  <2>3. NotificationsIn(b) \in SUBSET (NotificationsIn(b)')
    BY <1>2, <1>3
  <2>4. IsFiniteSet(NotificationsIn(b))
    BY <2>2, <2>3, FS_Subset
  <2>5. Cardinality(NotificationsIn(b)) <= Cardinality(NotificationsIn(b)')
    BY <2>2, <2>3, FS_Subset
  <2>6. Cardinality(NotificationsIn(b)) \in Nat /\ Cardinality(NotificationsIn(b)') \in Nat
    BY <2>2, <2>4, FS_CardinalityType
  <2> QED BY <1>1, <1>3, <2>5, <2>6
<1>4. CountIsLowerBound(p, i) => CountIsLowerBound(p, i)'
  BY <1>2, <1>3 DEF CountIsLowerBound, NotificationsIn
<1>5. ASSUME records'[p][i] = records[p][i], moments'[p][i] = moments[p][i]
      PROVE  /\ Whole(p, i) => Whole(p, i)'
             /\ HalfRead(p, i) => HalfRead(p, i)'
  <2>1. Whole(p, i) => Whole(p, i)'
    BY <1>2, <1>5 DEF Whole
  <2>2. HalfRead(p, i) => HalfRead(p, i)'
    <3>1. ASSUME HalfRead(p, i), b \in batches'
          PROVE  HalfRead(p, i)'
      <4>1. /\ ErrorsIn(b)' = ErrorsIn(b)
            /\ NotificationsIn(b) \subseteq NotificationsIn(b)'
            /\ b \in batches
            /\ candidates'[p][i].id = b
        BY <1>2, <3>1
      <4>2. /\ ErrorsIn(candidates[p][i].id)' = ErrorsIn(b)
            /\ NotificationsIn(b) \subseteq NotificationsIn(candidates[p][i].id)'
        BY <4>1 DEF ErrorsIn, NotificationsIn
      <4> QED BY <1>5, <3>1, <4>1, <4>2 DEF HalfRead
    <3>2. ASSUME b \notin batches'
          PROVE  HalfRead(p, i)'
      BY <3>2 DEF HalfRead
    <3> QED BY <3>1, <3>2
  <2> QED BY <2>1, <2>2
<1> QED
  BY <1>4, <1>5

\* A dry run that gathers nothing in a step keeps its cut, wherever it goes but
\* to the next stage of the stream.
LEMMA CutKept ==
    ASSUME NEW p \in DryRuns, IndInv', DryRunInv, TablesMove, Cut(p),
           candidates'[p] = candidates[p], at'[p] = at[p], records'[p] = records[p],
           moments'[p] = moments[p],
           \/ pc'[p] = pc[p] /\ (pc[p] # "idle" => line'[p] = line[p])
           \/ pc'[p] \in Ended \cup {"lock", "select", "messages", "orphans", "plan"}
           \/ /\ pc[p] \in {"escrow", "artifact"} /\ line'[p] = line[p]
              /\ pc'[p] \in {"artifact", "manifest"}
    PROVE  Cut(p)'
<1>1. /\ candidates[p] \in Seq(Candidate)
      /\ \A i \in DOMAIN candidates[p] : candidates[p][i] \in Candidate
      /\ at[p] \in Nat
      /\ Place(p)
  BY DEF DryRunInv
<1>2. \A i \in DOMAIN candidates'[p] : CountIsLowerBound(p, i)'
  BY <1>1, ReadingsStand DEF Cut
<1>3. CASE pc'[p] \in Ended \cup {"idle", "read", "lock", "select", "messages", "orphans",
                                 "plan", "apply"}
  BY <1>2, <1>3 DEF Cut, Ended
<1>4. CASE pc'[p] \in {"parent", "rows", "errors", "notifications"}
  <2>1. pc'[p] = pc[p]
    BY <1>4 DEF Ended
  <2>2. \A i \in 1..at[p] : i \in DOMAIN candidates[p]
    BY <1>1, <1>4, <2>1 DEF Place, Fits
  <2>3. at[p] \in 1..at[p]
    BY <1>1, <1>4, <2>1 DEF Place, Fits
  <2>4. \A i \in 1..(at'[p] - 1) : Whole(p, i)'
    <3> SUFFICES ASSUME NEW i \in 1..(at[p] - 1) PROVE Whole(p, i)'
      OBVIOUS
    <3>1. Whole(p, i) /\ i \in 1..at[p]
      BY <1>1, <1>4, <2>1 DEF Cut
    <3> QED BY <1>1, <2>2, <3>1, ReadingsStand
  <2>5. pc'[p] \in {"errors", "notifications"} => HalfRead(p, at[p])'
    BY <1>1, <2>1, <2>2, <2>3, ReadingsStand DEF Cut
  <2>6. batches' \subseteq batches
    BY DEF TablesMove
  <2> QED BY <1>2, <1>4, <2>1, <2>4, <2>5, <2>6 DEF Cut
<1>5. CASE pc'[p] \in {"validate", "escrow", "artifact", "manifest"}
  <2>1. /\ pc[p] \in {"validate", "escrow", "artifact", "manifest"}
        /\ line'[p] = line[p]
        /\ pc[p] \in {"validate", "escrow", "artifact"} \/ pc'[p] = "manifest"
    BY <1>5 DEF Ended
  <2>2. pc[p] # "manifest" \/ line[p].escrowOut # None =>
          \A i \in DOMAIN records'[p] : Whole(p, i)'
    <3> SUFFICES ASSUME pc[p] # "manifest" \/ line[p].escrowOut # None,
                        NEW i \in DOMAIN records[p]
                 PROVE  Whole(p, i)'
      OBVIOUS
    <3>1. Whole(p, i)
      BY <2>1 DEF Cut
    <3>2. records[p] \in Seq(EscrowRecord)'
      BY DEF IndInv, StreamInv
    <3>3. i \in DOMAIN candidates[p]
      <4>1. Len(records[p]) <= Len(candidates[p]) /\ Len(records[p]) \in Nat
        BY <1>1, <3>2 DEF Place, Fits, EscrowRecord
      <4> QED BY <1>1, <3>2, <4>1
    <3> QED BY <1>1, <3>1, <3>3, ReadingsStand
  <2>3. pc[p] # "manifest" \/ pc'[p] = "manifest"
    BY <1>5 DEF Ended
  <2> QED BY <1>2, <1>5, <2>1, <2>2, <2>3 DEF Cut
<1>6. pc[p] \in Labels
  BY DEF DryRunInv, Commands
<1>7. pc'[p] \in Labels
  BY <1>6 DEF Labels, Leased, Ended
<1> QED
  BY <1>3, <1>4, <1>5, <1>7 DEF Labels, Leased, Ended

\* Reading the tables does not change them.
LEMMA OwnStepReads ==
    ASSUME NEW p \in DryRuns, IndInv, DryRunInv, DryRunStep(p)
    PROVE  /\ UNCHANGED batches
           /\ \A b : ErrorsIn(b)' = ErrorsIn(b) /\ NotificationsIn(b)' = NotificationsIn(b)
           /\ TablesMove
<1>1. UNCHANGED <<batches, messages, errors, notifications>>
  BY OwnStep
<1> QED
  BY <1>1 DEF ErrorsIn, NotificationsIn, TablesMove

\* A batch has at least as many notifications as its e-mails, and none if it
\* has no e-mail.
LEMMA NotificationsOfEmails ==
    ASSUME IndInv, NEW b
    PROVE  /\ Cardinality(NotificationsOn(MessagesIn(b))) <= Cardinality(NotificationsIn(b))
           /\ Cardinality(MessagesIn(b)) = 0 => NotificationsIn(b) = {}
<1>1. NotificationsOn(MessagesIn(b)) \in SUBSET NotificationsIn(b)
  BY DEF NotificationsOn, NotificationsIn, MessagesIn
<1>2. Cardinality(NotificationsOn(MessagesIn(b))) <= Cardinality(NotificationsIn(b))
  BY <1>1, FiniteTables, FS_Subset
<1>3. ASSUME Cardinality(MessagesIn(b)) = 0
      PROVE  NotificationsIn(b) = {}
  <2>1. MessagesIn(b) = {}
    BY <1>3, FiniteTables, FS_EmptySet
  <2> QED BY <2>1 DEF NotificationsIn, MessagesIn, IndInv, ForeignKeysHold
<1> QED
  BY <1>2, <1>3

\* The selection and the plan keep the cut.
LEMMA SelectionKeepsCut ==
    ASSUME NEW p \in DryRuns, IndInv, IndInv', DryRunInv, DryRunInv', Cut(p),
           LoadBatches(p) \/ LoadMessages(p) \/ CountBatchLinkedOrphans(p)
             \/ BuildSelectionPlan(p),
           ~Failed(p)
    PROVE  Cut(p)'
<1>0. /\ DryRunStep(p)
      /\ candidates[p] \in Seq(Candidate) /\ at[p] \in Nat
      /\ \A i \in DOMAIN candidates[p] : CountIsLowerBound(p, i)
      /\ Place(p)
  BY DEF DryRunStep, DryRunInv, Cut
<1>1. /\ UNCHANGED <<batches, line>>
      /\ \A b : NotificationsIn(b)' = NotificationsIn(b)
  BY <1>0, OwnStep, OwnStepReads
<1>2. CASE LoadBatches(p)
  <2>1. /\ candidates'[p] \in Seq(Candidate)
        /\ \A i \in DOMAIN candidates'[p] : candidates'[p][i].notificationCount = 0
        /\ pc'[p] \in {"plan", "messages"}
    BY <1>2, SelectionListed
  <2>2. ASSUME NEW i \in DOMAIN candidates'[p]
        PROVE  CountIsLowerBound(p, i)'
    <3>1. Cardinality(NotificationsIn(candidates'[p][i].id)) \in Nat
      BY FiniteTables
    <3>2. Cardinality(NotificationsIn(candidates[p][i].id))' \in Nat
      BY <1>1, <3>1 DEF NotificationsIn
    <3> QED BY <2>1, <3>2 DEF CountIsLowerBound
  <2> QED BY <2>1, <2>2 DEF Cut
<1>3. ASSUME NEW d \in Candidate, at[p] \in DOMAIN candidates[p],
             candidates'[p] = [candidates[p] EXCEPT ![at[p]] = d],
             d.id = candidates[p][at[p]].id,
             d.id \in batches => d.notificationCount <= Cardinality(NotificationsIn(d.id)),
             pc'[p] \in {"messages", "orphans", "plan"}
      PROVE  Cut(p)'
  <2>1. ASSUME NEW i \in DOMAIN candidates'[p]
        PROVE  CountIsLowerBound(p, i)'
    <3>1. i \in DOMAIN candidates[p]
      BY <1>3
    <3>2. CASE i = at[p]
      <4>1. candidates'[p][i] = d
        BY <1>3, <3>2
      <4>2. NotificationsIn(candidates[p][i].id)' = NotificationsIn(d.id)
        BY <1>1, <4>1 DEF NotificationsIn
      <4> QED BY <1>1, <1>3, <4>1, <4>2 DEF CountIsLowerBound
    <3>3. CASE i # at[p]
      <4>1. candidates'[p][i] = candidates[p][i]
        BY <1>3, <3>1, <3>3
      <4>2. NotificationsIn(candidates[p][i].id)' = NotificationsIn(candidates[p][i].id)
        BY <1>1, <4>1 DEF NotificationsIn
      <4> QED BY <1>0, <1>1, <3>1, <4>1, <4>2 DEF CountIsLowerBound
    <3> QED BY <3>2, <3>3
  <2> QED BY <1>3, <2>1 DEF Cut
<1>4. CASE LoadMessages(p) /\ UNCHANGED candidates
  <2>1. \/ UNCHANGED at /\ GoTo(p, "orphans")
        \/ Advance(p, "messages", "plan")
    BY <1>4 DEF LoadMessages, Failed
  <2>2. pc'[p] \in {"messages", "orphans", "plan"}
    BY <2>1, Advanced DEF GoTo, DryRunInv, Commands
  <2>3. ASSUME NEW i \in DOMAIN candidates'[p]
        PROVE  CountIsLowerBound(p, i)'
    BY <1>0, <1>1, <1>4 DEF CountIsLowerBound, NotificationsIn
  <2> QED BY <2>2, <2>3 DEF Cut
<1>5. CASE LoadMessages(p) /\ ~UNCHANGED candidates
  <2> DEFINE c == candidates[p][at[p]]
             M == MessagesIn(c.id)
             d == [c EXCEPT !.messages = M,
                            !.notificationCount = Cardinality(NotificationsOn(M))]
  <2>1. /\ candidates'[p] = [candidates[p] EXCEPT ![at[p]] = d]
        /\ pc'[p] = "orphans" /\ at[p] \in DOMAIN candidates[p]
        /\ c \in Candidate /\ d \in Candidate
    BY <1>5, MessagesLoaded
  <2>2. d.id = c.id /\ d.notificationCount = Cardinality(NotificationsOn(M))
    BY <2>1 DEF Candidate
  <2>3. Cardinality(NotificationsOn(M)) <= Cardinality(NotificationsIn(c.id))
    BY NotificationsOfEmails
  <2>4. /\ d.id = candidates[p][at[p]].id
        /\ d.notificationCount <= Cardinality(NotificationsIn(d.id))
    BY <2>2, <2>3
  <2> HIDE DEF d
  <2> QED BY <1>3, <2>1, <2>4
<1>6. CASE CountBatchLinkedOrphans(p)
  <2> DEFINE c == candidates[p][at[p]]
             d == [c EXCEPT !.orphanCount = Cardinality(OpenOrphansOn(c.messages))]
  <2>1. /\ candidates'[p] = [candidates[p] EXCEPT ![at[p]] = d]
        /\ Advance(p, "messages", "plan") /\ at[p] \in DOMAIN candidates[p]
        /\ c \in Candidate /\ d \in Candidate
    BY <1>6, OrphansCounted
  <2>2. d.id = c.id /\ d.notificationCount = c.notificationCount
    BY <2>1 DEF Candidate
  <2>3. CountIsLowerBound(p, at[p])
    BY <1>0, <2>1
  <2>4. /\ d.id = candidates[p][at[p]].id
        /\ d.id \in batches => d.notificationCount <= Cardinality(NotificationsIn(d.id))
    BY <2>2, <2>3 DEF CountIsLowerBound
  <2>5. pc'[p] \in {"messages", "plan"}
    BY <2>1, Advanced
  <2> HIDE DEF d
  <2> QED BY <1>3, <2>1, <2>4, <2>5
<1>7. CASE BuildSelectionPlan(p)
  <2>1. /\ candidates'[p] \in Seq(Candidate)
        /\ \A i \in DOMAIN candidates'[p] : \E j \in DOMAIN candidates[p] :
              candidates'[p][i] = candidates[p][j]
        /\ pc'[p] = IF line[p].escrowOut = None THEN "manifest"
                    ELSE IF candidates[p] = <<>> THEN "escrow" ELSE "parent"
        /\ pc[p] = "plan"
        /\ UNCHANGED <<at, records, moments>>
    BY <1>7, PlanSorts
  <2>2. ASSUME NEW i \in DOMAIN candidates'[p]
        PROVE  CountIsLowerBound(p, i)'
    <3>1. PICK j \in DOMAIN candidates[p] : candidates'[p][i] = candidates[p][j]
      BY <2>1
    <3>2. NotificationsIn(candidates[p][i].id)' = NotificationsIn(candidates[p][j].id)
      BY <1>1, <3>1 DEF NotificationsIn
    <3> QED BY <1>0, <1>1, <3>1, <3>2 DEF CountIsLowerBound
  <2>3. at[p] = 1 /\ Len(records[p]) = 0
    BY <1>0, <2>1 DEF Place, Streamed
  <2>4. at'[p] = 1 /\ DOMAIN records'[p] = {}
    <3>1. records[p] \in Seq(EscrowRecord)
      BY DEF IndInv, StreamInv
    <3>2. DOMAIN records[p] = {}
      BY <2>3, <3>1
    <3> QED BY <2>1, <2>3, <3>2
  <2>5. 1..(at'[p] - 1) = {}
    BY <2>4
  <2>6. \/ pc'[p] = "escrow" \/ pc'[p] = "parent"
        \/ pc'[p] = "manifest" /\ line[p].escrowOut = None
    <3>1. CASE line[p].escrowOut = None
      BY <2>1, <3>1
    <3>2. CASE line[p].escrowOut # None
      BY <2>1, <3>2
    <3> QED BY <3>1, <3>2
  <2> QED BY <1>1, <2>2, <2>4, <2>5, <2>6 DEF Cut
<1> QED
  BY <1>2, <1>4, <1>5, <1>6, <1>7

\* Two records with the same rows are the same.
LEMMA SameRecord ==
    ASSUME NEW r \in EscrowRecord, NEW m \in EscrowRecord, r.id = m.id,
           r.messages = m.messages, r.errors = m.errors, r.notifications = m.notifications
    PROVE  r = m
  BY DEF EscrowRecord

\* The queries of the escrow stream keep the cut: each completes what the
\* moment of the e-mails had, or throws.
LEMMA StreamKeepsCut ==
    ASSUME NEW p \in DryRuns, IndInv, IndInv', DryRunInv, DryRunInv', Cut(p),
           LoadBatchRow(p) \/ LoadMessageRows(p) \/ LoadErrorRows(p)
             \/ LoadNotificationRows(p) \/ ValidateOrphanCount(p),
           ~Failed(p)
    PROVE  Cut(p)'
<1> DEFINE c == candidates[p][at[p]]
           n == Len(candidates[p])
<1>0. /\ DryRunStep(p)
      /\ candidates[p] \in Seq(Candidate) /\ at[p] \in Nat
      /\ records[p] \in Seq(EscrowRecord) /\ moments[p] \in Seq(EscrowRecord)
      /\ \A i \in DOMAIN candidates[p] : CountIsLowerBound(p, i)
      /\ Place(p)
  BY DEF DryRunStep, DryRunInv, Cut, IndInv, StreamInv
<1>1. /\ UNCHANGED <<batches, line>>
      /\ \A b : ErrorsIn(b)' = ErrorsIn(b) /\ NotificationsIn(b)' = NotificationsIn(b)
  BY <1>0, OwnStep, OwnStepReads
<1>2. /\ pc[p] \in {"parent", "rows", "errors", "notifications", "validate"}
      /\ UNCHANGED candidates
  BY RowsStreamed
<1>3. /\ candidates[p] # <<>> /\ at[p] \in 1..n /\ at[p] \in DOMAIN candidates[p]
      /\ c \in Candidate
  BY <1>0, <1>2 DEF Place, Fits
<1>4. \A i \in DOMAIN candidates'[p] : CountIsLowerBound(p, i)'
  BY <1>0, <1>1, <1>2 DEF CountIsLowerBound, NotificationsIn
<1>5. ASSUME NEW i \in 1..(at[p] - 1), pc[p] \in {"parent", "rows", "errors", "notifications"},
             records'[p][i] = records[p][i], moments'[p][i] = moments[p][i]
      PROVE  Whole(p, i)'
  BY <1>1, <1>2, <1>5 DEF Whole, Cut
<1>6. CASE LoadBatchRow(p)
  <2>1. /\ pc[p] = "parent" /\ pc'[p] = "rows"
        /\ c.id \in Batches
        /\ records'[p] = Append(records[p], Blank(c.id))
        /\ UNCHANGED <<at, moments>>
    BY <1>6, RowsStreamed
  <2>2. Len(records[p]) = at[p] - 1
    BY <1>0, <2>1 DEF Place, Streamed
  <2>3. /\ \A i \in 1..(at[p] - 1) : records'[p][i] = records[p][i]
        /\ records'[p][at[p]] = Blank(c.id)
    BY <1>0, <1>3, <2>1, <2>2
  <2>4. \A i \in 1..(at'[p] - 1) : Whole(p, i)'
    BY <1>5, <2>1, <2>3
  <2>5. records'[p][at'[p]] = Blank(candidates'[p][at'[p]].id)
    BY <1>2, <2>1, <2>3
  <2> QED BY <1>4, <2>1, <2>4, <2>5 DEF Cut, Blank
<1>7. CASE LoadMessageRows(p)
  <2> DEFINE r == [records[p][at[p]] EXCEPT !.messages = MessagesIn(c.id)]
  <2>1. /\ pc[p] = "rows" /\ pc'[p] = "errors"
        /\ records'[p] = [records[p] EXCEPT ![at[p]] = r]
        /\ moments'[p] = Append(moments[p], Snapshot(c.id))
        /\ Cardinality(MessagesIn(c.id)) = c.messageCount
        /\ UNCHANGED at
    BY <1>7, RowsStreamed
  <2>2. Len(records[p]) = at[p] /\ Len(moments[p]) = at[p] - 1
    BY <1>0, <2>1 DEF Place, Streamed
  <2>3. /\ r.id = c.id /\ r.messages = MessagesIn(c.id) /\ r.notifications = {}
    BY <2>1 DEF Cut, Blank
  <2> HIDE DEF r, c
  <2>4. /\ \A i \in 1..(at[p] - 1) : records'[p][i] = records[p][i] /\ moments'[p][i] = moments[p][i]
        /\ records'[p][at[p]] = r
        /\ moments'[p][at[p]] = Snapshot(c.id)
    BY <1>0, <1>3, <2>1, <2>2
  <2>5. \A i \in 1..(at'[p] - 1) : Whole(p, i)'
    BY <1>5, <2>1, <2>4
  <2>6. /\ Snapshot(c.id).id = c.id /\ Snapshot(c.id).messages = MessagesIn(c.id)
        /\ Snapshot(c.id).errors = ErrorsIn(c.id)
        /\ Snapshot(c.id).notifications = NotificationsIn(c.id)
    BY DEF Snapshot
  <2>7. c.id \in batches => c.notificationCount <= Cardinality(NotificationsIn(c.id))
    BY <1>0, <1>3 DEF CountIsLowerBound, c
  <2>8. c.messageCount = 0 => NotificationsIn(c.id) = {}
    BY <2>1, NotificationsOfEmails
  <2>9. HalfRead(p, at[p])'
    <3>1. candidates'[p][at'[p]] = c /\ UNCHANGED at
      BY <1>2, <2>1 DEF c
    <3>2. /\ ErrorsIn(candidates[p][at[p]].id)' = ErrorsIn(c.id)
          /\ NotificationsIn(candidates[p][at[p]].id)' = NotificationsIn(c.id)
      BY <1>1, <3>1 DEF ErrorsIn, NotificationsIn
    <3> QED BY <1>1, <2>3, <2>4, <2>6, <2>7, <2>8, <3>1, <3>2 DEF HalfRead
  <2> QED BY <1>4, <2>1, <2>5, <2>9 DEF Cut
<1>8. ASSUME \A i \in 1..at[p] : Whole(p, i)', Advance(p, "parent", "escrow"),
             Len(records'[p]) = at[p], records'[p] \in Seq(EscrowRecord)
      PROVE  Cut(p)'
  <2>1. CASE at[p] < n /\ at'[p] = at[p] + 1 /\ pc'[p] = "parent"
    <3>1. 1..(at'[p] - 1) = 1..at[p]
      BY <1>0, <2>1
    <3> QED BY <1>4, <1>8, <2>1, <3>1 DEF Cut
  <2>2. CASE ~(at[p] < n) /\ at'[p] = 1 /\ pc'[p] = "escrow"
    <3>1. DOMAIN records'[p] = 1..at[p]
      BY <1>8
    <3> QED BY <1>4, <1>8, <2>2, <3>1 DEF Cut
  <2> QED BY <1>8, <2>1, <2>2, Advanced
<1>9. CASE LoadErrorRows(p)
  <2> DEFINE r == [records[p][at[p]] EXCEPT !.errors = ErrorsIn(c.id)]
  <2>1. /\ pc[p] = "errors"
        /\ records'[p] = [records[p] EXCEPT ![at[p]] = r]
        /\ \/ c.messageCount > 0 /\ pc'[p] = "notifications" /\ UNCHANGED at
           \/ ~(c.messageCount > 0) /\ Advance(p, "parent", "escrow")
        /\ UNCHANGED moments
    BY <1>9, RowsStreamed
  <2>2. Len(records[p]) = at[p] /\ Len(moments[p]) = at[p]
    BY <1>0, <2>1 DEF Place, Streamed
  <2>3. records[p][at[p]] \in EscrowRecord /\ moments[p][at[p]] \in EscrowRecord
    BY <1>0, <1>3, <2>2
  <2>4. HalfRead(p, at[p])
    BY <2>1 DEF Cut
  <2>5. /\ r.id = records[p][at[p]].id /\ r.messages = records[p][at[p]].messages
        /\ r.notifications = records[p][at[p]].notifications /\ r.errors = ErrorsIn(c.id)
        /\ r \in EscrowRecord
    BY <2>3 DEF EscrowRecord, IndInv, ErrorsIn
  <2> HIDE DEF r
  <2>6. /\ \A i \in 1..(at[p] - 1) : records'[p][i] = records[p][i] /\ moments'[p][i] = moments[p][i]
        /\ records'[p][at[p]] = r /\ moments'[p][at[p]] = moments[p][at[p]]
        /\ Len(records'[p]) = at[p] /\ records'[p] \in Seq(EscrowRecord)
    <3>1. records'[p] \in Seq(EscrowRecord) /\ Len(records'[p]) = at[p]
      BY <1>0, <2>1, <2>2, <2>5, RecordUpdated, RecordReplaced
    <3> QED BY <1>0, <1>3, <2>1, <2>2, <3>1
  <2>7. \A i \in 1..(at[p] - 1) : Whole(p, i)'
    BY <1>5, <2>1, <2>6
  <2>8. CASE c.messageCount > 0 /\ pc'[p] = "notifications" /\ UNCHANGED at
    <3>1. c.id \in batches => r.errors = moments[p][at[p]].errors
      BY <2>4, <2>5 DEF HalfRead
    <3>2. HalfRead(p, at[p])'
      <4>1. /\ candidates'[p][at'[p]] = c /\ UNCHANGED at
            /\ records'[p][at'[p]] = r /\ moments'[p][at'[p]] = moments[p][at[p]]
        BY <1>2, <2>6, <2>8
      <4>2. /\ ErrorsIn(candidates[p][at[p]].id)' = ErrorsIn(c.id)
            /\ NotificationsIn(candidates[p][at[p]].id)' = NotificationsIn(c.id)
        BY <1>1, <4>1 DEF ErrorsIn, NotificationsIn
      <4> QED BY <1>1, <2>4, <2>5, <4>1, <4>2 DEF HalfRead
    <3>3. candidates'[p][at'[p]].id \in batches' =>
            records'[p][at'[p]].errors = moments'[p][at'[p]].errors
      BY <1>1, <1>2, <2>6, <2>8, <3>1
    <3> QED BY <1>4, <2>7, <2>8, <3>2, <3>3 DEF Cut
  <2>9. CASE ~(c.messageCount > 0) /\ Advance(p, "parent", "escrow")
    <3>1. c.messageCount = 0
      BY <1>3, <2>9 DEF Candidate
    <3>2. c.id \in batches => r = moments[p][at[p]]
      BY <2>3, <2>4, <2>5, <3>1, SameRecord DEF HalfRead
    <3>3. ASSUME NEW i \in 1..at[p]
          PROVE  Whole(p, i)'
      <4>1. CASE i \in 1..(at[p] - 1)
        BY <2>7, <4>1
      <4>2. CASE i = at[p]
        BY <1>1, <1>2, <2>6, <3>2, <4>2 DEF Whole
      <4> QED BY <1>0, <4>1, <4>2
    <3> QED BY <1>8, <2>6, <2>9, <3>3
  <2> QED BY <2>1, <2>8, <2>9
<1>10. CASE LoadNotificationRows(p)
  <2> DEFINE N == NotificationsIn(c.id)
             r == [records[p][at[p]] EXCEPT !.notifications = N]
             m == moments[p][at[p]]
  <2>1. /\ pc[p] = "notifications" /\ pc'[p] = "validate"
        /\ records'[p] = [records[p] EXCEPT ![at[p]] = r]
        /\ Cardinality(N) = c.notificationCount
        /\ UNCHANGED <<at, moments>>
    BY <1>10, RowsStreamed
  <2>2. Len(records[p]) = at[p] /\ Len(moments[p]) = at[p]
    BY <1>0, <2>1 DEF Place, Streamed
  <2>3. records[p][at[p]] \in EscrowRecord /\ m \in EscrowRecord
    BY <1>0, <1>3, <2>2
  <2>4. HalfRead(p, at[p]) /\ (c.id \in batches => records[p][at[p]].errors = m.errors)
    BY <2>1 DEF Cut
  <2>5. /\ r.id = records[p][at[p]].id /\ r.messages = records[p][at[p]].messages
        /\ r.errors = records[p][at[p]].errors /\ r.notifications = N
        /\ r \in EscrowRecord
    BY <2>3 DEF EscrowRecord, IndInv, NotificationsIn
  <2>6. ASSUME c.id \in batches
        PROVE  m.notifications = N
    <3>1. IsFiniteSet(N) /\ Cardinality(N) \in Nat
      BY FiniteTables
    <3>2. m.notifications \in SUBSET N /\ Cardinality(N) <= Cardinality(m.notifications)
      BY <2>1, <2>4, <2>6 DEF HalfRead
    <3>3. IsFiniteSet(m.notifications) /\ Cardinality(m.notifications) <= Cardinality(N)
      BY <3>1, <3>2, FS_Subset
    <3>4. Cardinality(m.notifications) \in Nat
      BY <3>3, FS_CardinalityType
    <3>5. Cardinality(m.notifications) = Cardinality(N)
      BY <3>1, <3>2, <3>3, <3>4
    <3> QED BY <3>1, <3>2, <3>5, FS_Subset
  <2> HIDE DEF r, N
  <2>7. /\ \A i \in 1..(at[p] - 1) : records'[p][i] = records[p][i] /\ moments'[p][i] = moments[p][i]
        /\ records'[p][at[p]] = r /\ moments'[p][at[p]] = m
        /\ DOMAIN records'[p] = 1..at[p]
    BY <1>0, <1>3, <2>1, <2>2
  <2>8. c.id \in batches => r = m
    BY <2>3, <2>4, <2>5, <2>6, SameRecord DEF HalfRead
  <2>9. ASSUME NEW i \in DOMAIN records'[p]
        PROVE  Whole(p, i)'
    <3>1. CASE i \in 1..(at[p] - 1)
      BY <1>5, <2>1, <2>7, <3>1
    <3>2. CASE i = at[p]
      BY <1>1, <1>2, <2>7, <2>8, <3>2 DEF Whole
    <3> QED BY <1>0, <2>7, <3>1, <3>2
  <2> QED BY <1>4, <2>1, <2>9 DEF Cut
<1>11. CASE ValidateOrphanCount(p)
  <2>1. /\ pc[p] = "validate" /\ Advance(p, "parent", "escrow")
        /\ UNCHANGED <<records, moments>>
    BY <1>11, RowsStreamed
  <2>2. Len(records[p]) = at[p] /\ DOMAIN records[p] = 1..at[p]
    BY <1>0, <2>1 DEF Place, Streamed
  <2>3. \A i \in 1..at[p] : Whole(p, i)
    BY <2>1, <2>2 DEF Cut
  <2>4. \A i \in 1..at[p] : Whole(p, i)'
    BY <1>1, <1>2, <2>1, <2>3 DEF Whole
  <2>5. Len(records'[p]) = at[p] /\ records'[p] \in Seq(EscrowRecord)
    BY <1>0, <2>1, <2>2
  <2> QED BY <1>8, <2>1, <2>4, <2>5
<1> QED
  BY <1>6, <1>7, <1>9, <1>10, <1>11

\* Every step keeps the cut.
LEMMA NextCutInv ==
    ASSUME IndInv, IndInv', DryRunInv, DryRunInv', CutInv, [Next]_vars
    PROVE  CutInv'
<1> SUFFICES ASSUME NEW p \in DryRuns PROVE Cut(p)'
  BY DEF CutInv
<1>1. Cut(p) /\ TablesMove /\ p \in Commands
  BY StepMovesTables DEF CutInv, Commands
<1>2. CASE DryRunsRest
  <2>1. Moved(p) /\ UNCHANGED <<candidates, at, records, moments>>
    BY <1>2 DEF DryRunsRest
  <2> QED BY <1>1, <2>1, CutKept DEF Moved
<1>3. ASSUME NEW q \in DryRuns, DryRunStep(q), q # p
      PROVE  Cut(p)'
  <2>1. /\ pc'[p] = pc[p] /\ candidates'[p] = candidates[p] /\ at'[p] = at[p]
        /\ records'[p] = records[p] /\ moments'[p] = moments[p] /\ line'[p] = line[p]
    BY <1>1, <1>3, OwnStep DEF At
  <2> QED BY <1>1, <2>1, CutKept
<1>4. ASSUME DryRunStep(p)
      PROVE  Cut(p)'
  <2>1. pc[p] \in Leased /\ UNCHANGED line
    BY <1>4, OwnStep
  <2>2. CASE Failed(p)
    <3>1. pc'[p] = "release"
      BY <1>1, <2>1, <2>2 DEF Failed, Fail, GoTo, DryRunInv
    <3> QED BY <1>1, <2>2, <3>1, CutKept DEF Failed, Ended
  <2>3. CASE WriteEscrowFile(p) \/ WriteArtifact(p) \/ WriteManifest(p)
    <3>1. UNCHANGED <<candidates, at, records, moments>>
      BY <2>3 DEF WriteEscrowFile, WriteArtifact, WriteManifest, dryRun
    <3>2. \/ pc'[p] = "release"
          \/ pc[p] = "escrow" /\ pc'[p] \in {"manifest", "artifact"}
          \/ pc[p] = "artifact" /\ pc'[p] = "manifest"
      BY <1>1, <2>1, <2>3 DEF WriteEscrowFile, WriteArtifact, WriteManifest, PublishJson, Fail,
                              Succeed, GoTo, DryRunInv, Leased
    <3> QED BY <1>1, <2>1, <3>1, <3>2, CutKept DEF Ended
  <2> QED BY <1>1, <1>4, <2>2, <2>3, SelectionKeepsCut, StreamKeepsCut DEF DryRunStep
<1> QED
  BY <1>2, <1>3, <1>4, DryRunFrame

\* The three invariants of the dry runs together.
GatheredInv == IndInv /\ DryRunInv /\ CutInv

\* They hold of every behaviour.
THEOREM Gathering == Spec => []GatheredInv
<1>1. Init => GatheredInv
  <2> SUFFICES ASSUME Init PROVE CutInv
    BY InitInv, InitDryRunInv DEF GatheredInv
  <2>1. ASSUME NEW p \in DryRuns
        PROVE  Cut(p)
    <3>1. pc[p] = "idle" /\ candidates[p] = <<>>
      BY DEF Init, Commands
    <3> QED BY <3>1 DEF Cut
  <2> QED BY <2>1 DEF CutInv
<1>2. GatheredInv /\ [Next]_vars => GatheredInv'
  BY NextInv, NextDryRunInv, NextCutInv DEF GatheredInv
<1> QED
  BY <1>1, <1>2, PTL DEF Spec

\* The escrow a dry run publishes is one moment of each batch, though it was
\* read by separate queries while the proxy wrote and other runs deleted.
THEOREM EscrowIsOneMoment == Spec => []EscrowIsConsistentCut
<1>1. GatheredInv => EscrowIsConsistentCut
  <2> SUFFICES ASSUME IndInv, DryRunInv, CutInv, NEW p \in DryRuns,
                      pc[p] \in {"escrow", "artifact", "manifest"},
                      line[p].escrowOut # None
               PROVE  /\ Len(records[p]) = Len(moments[p])
                      /\ \A i \in DOMAIN records[p] :
                            candidates[p][i].id \in batches => records[p][i] = moments[p][i]
    BY DEF GatheredInv, EscrowIsConsistentCut
  <2>1. Len(records[p]) = Len(moments[p])
    BY DEF DryRunInv, Place, Streamed
  <2>2. \A i \in DOMAIN records[p] : Whole(p, i)
    BY DEF CutInv, Cut
  <2> QED BY <2>1, <2>2 DEF Whole
<1> QED
  BY <1>1, Gathering, PTL

----------------------------------------------------------------------------
(***************************************************************************)
(* What is published. A published file never changes, so what a dry run    *)
(* has put under its names is still there when it reports.                 *)
(***************************************************************************)
AllFiles == ManifestFile \cup EscrowFile \cup ArtifactFile

HasEscrow(p) ==
    line[p].escrowOut # None =>
       files[line[p].escrowOut] = Escrow(line[p].policy, candidates[p], records[p])
HasArtifact(p) ==
    line[p].privateArtifactOut # None =>
       files[line[p].privateArtifactOut] = Artifact(line[p].policy, candidates[p], records[p])
HasManifest(p) ==
    line[p].manifestOut # None =>
       files[line[p].manifestOut] = Manifest(line[p].policy, candidates[p])

Published(p) ==
    /\ outcome[p] = "ok" => pc[p] \in Ended
    /\ pc[p] \in {"artifact", "manifest"} \/ outcome[p] = "ok" => HasEscrow(p)
    /\ pc[p] = "manifest" \/ outcome[p] = "ok" => HasArtifact(p)
    /\ outcome[p] = "ok" => HasManifest(p)

PublishInv ==
    /\ files \in [Paths -> AllFiles \cup {None}]
    /\ \A p \in DryRuns : Published(p)

\* The three contents of a dry run are files of their kind.
LEMMA ContentsAreFiles ==
    ASSUME NEW policy \in Policies, NEW cs \in Seq(Candidate), NEW rs \in Seq(EscrowRecord)
    PROVE  /\ Manifest(policy, cs) \in ManifestFile
           /\ Escrow(policy, cs, rs) \in EscrowFile
           /\ Artifact(policy, cs, rs) \in ArtifactFile
<1>1. /\ \A i \in 1..Len(cs) : cs[i] \in Candidate
      /\ DOMAIN cs = 1..Len(cs) /\ Len(cs) \in Nat
  OBVIOUS
<1>2. policy.siteId \in Sites /\ policy.cutoff \in Nat
  BY DEF Policies
<1>3. ASSUME NEW c \in Candidate
      PROVE  ManifestBatch(c) \in ManifestEntry /\ c.id \in Batches
  BY TableConstants DEF ManifestBatch, ManifestEntry, Candidate
<1>4. [i \in DOMAIN cs |-> ManifestBatch(cs[i])] \in Seq(ManifestEntry)
  <2>1. [i \in 1..Len(cs) |-> ManifestBatch(cs[i])] \in [1..Len(cs) -> ManifestEntry]
    BY <1>1, <1>3
  <2> QED BY <1>1, <2>1
<1>5. [i \in DOMAIN cs |-> cs[i].id] \in Seq(Batches)
  <2>1. [i \in 1..Len(cs) |-> cs[i].id] \in [1..Len(cs) -> Batches]
    BY <1>1, <1>3
  <2> QED BY <1>1, <2>1
<1>6. Manifest(policy, cs) \in ManifestFile
  BY <1>2, <1>4 DEF Manifest, ManifestFile
<1>7. Escrow(policy, cs, rs) \in EscrowFile
  BY <1>2, <1>6 DEF Escrow, EscrowFile
<1> QED
  BY <1>5, <1>6, <1>7 DEF Artifact, ArtifactFile

\* What a command line is.
LEMMA CommandLines ==
    ASSUME DryRunInv, IndInv, NEW p \in DryRuns, pc[p] # "idle"
    PROVE  /\ line[p].policy \in Policies
           /\ line[p].escrowOut \in Paths \cup {None}
           /\ line[p].privateArtifactOut \in Paths \cup {None}
           /\ line[p].manifestOut \in Paths \cup {None}
           /\ line[p].privateArtifactOut # None => line[p].escrowOut # None
           /\ Manifest(line[p].policy, candidates[p]) \in ManifestFile
           /\ Escrow(line[p].policy, candidates[p], records[p]) \in EscrowFile
           /\ Artifact(line[p].policy, candidates[p], records[p]) \in ArtifactFile
<1>1. line[p] \in DryRunLines
  BY DEF DryRunInv
<1>2. /\ line[p].policy \in Policies
      /\ line[p].escrowOut \in Paths \cup {None}
      /\ line[p].privateArtifactOut \in Paths \cup {None}
      /\ line[p].manifestOut \in Paths \cup {None}
      /\ line[p].privateArtifactOut # None => line[p].escrowOut # None
  BY <1>1, RetentionConstants
<1>3. candidates[p] \in Seq(Candidate) /\ records[p] \in Seq(EscrowRecord)
  BY DEF DryRunInv, IndInv, StreamInv
<1> QED
  BY <1>2, <1>3, ContentsAreFiles

\* A dry run that only stays where it is, or ends without success, keeps what
\* it has published.
LEMMA PublishedKept ==
    ASSUME NEW p \in DryRuns, IndInv, DryRunInv, PublishInv, FilesKept,
           candidates'[p] = candidates[p], records'[p] = records[p], Moved(p)
    PROVE  Published(p)'
<1>1. Published(p)
  BY DEF PublishInv
<1>2. CASE pc[p] = "idle"
  <2>1. outcome[p] # "ok"
    BY <1>1, <1>2 DEF Published, Ended
  <2> QED BY <1>2, <2>1 DEF Published, Moved, Ended
<1>3. CASE pc[p] # "idle"
  <2>1. line'[p] = line[p]
    BY <1>3 DEF Moved
  <2>2. /\ Escrow(line[p].policy, candidates[p], records[p]) # None
        /\ Artifact(line[p].policy, candidates[p], records[p]) # None
        /\ Manifest(line[p].policy, candidates[p]) # None
    BY <1>3, CommandLines, RetentionConstants
  <2>3. \A f \in Paths \cup {None} : f # None /\ files[f] # None => files'[f] = files[f]
    BY DEF FilesKept
  <2>4. HasEscrow(p) => HasEscrow(p)'
    BY <1>3, <2>1, <2>2, <2>3, CommandLines DEF HasEscrow
  <2>5. HasArtifact(p) => HasArtifact(p)'
    BY <1>3, <2>1, <2>2, <2>3, CommandLines DEF HasArtifact
  <2>6. HasManifest(p) => HasManifest(p)'
    BY <1>3, <2>1, <2>2, <2>3, CommandLines DEF HasManifest
  <2>7. /\ outcome'[p] = "ok" => outcome[p] = "ok" /\ pc'[p] \in Ended
        /\ pc'[p] \in {"artifact", "manifest"} => pc'[p] = pc[p]
    BY <1>1, <1>3, RetentionConstants DEF Moved, Published, Ended
  <2> QED BY <1>1, <2>4, <2>5, <2>6, <2>7 DEF Published
<1> QED
  BY <1>2, <1>3

\* Publishing: the file has the content afterwards, and no file is replaced.
LEMMA Publishes ==
    ASSUME NEW f \in Paths \cup {None}, NEW content \in AllFiles, PublishInv,
           f # None => files[f] \in {None, content},
           files' = [files EXCEPT ![f] = content]
    PROVE  /\ files' \in [Paths -> AllFiles \cup {None}]
           /\ FilesKept
           /\ f # None => files'[f] = content
<1>1. files \in [Paths -> AllFiles \cup {None}]
  BY DEF PublishInv
<1>2. CASE f = None
  <2>1. files' = files
    BY <1>1, <1>2, RetentionConstants
  <2> QED BY <1>1, <1>2, <2>1 DEF FilesKept
<1>3. CASE f # None
  BY <1>1, <1>3 DEF FilesKept
<1> QED
  BY <1>2, <1>3

\* The effect of the steps that publish.
LEMMA PublicationSteps ==
    ASSUME NEW p \in DryRuns, IndInv, DryRunInv, PublishInv,
           WriteEscrowFile(p) \/ WriteArtifact(p) \/ WriteManifest(p), ~Failed(p)
    PROVE  /\ files' \in [Paths -> AllFiles \cup {None}]
           /\ FilesKept
           /\ Published(p)'
<1>0. /\ p \in Commands /\ DryRunStep(p)
      /\ UNCHANGED <<candidates, at, records, moments>>
  BY DEF Commands, WriteEscrowFile, WriteArtifact, WriteManifest, dryRun, DryRunStep
<1>1. /\ pc[p] \in {"escrow", "artifact", "manifest"} /\ UNCHANGED line
      /\ Published(p)
  BY <1>0, OwnStep DEF WriteEscrowFile, WriteArtifact, WriteManifest, PublishInv
<1>2. /\ outcome[p] # "ok" /\ pc[p] # "idle"
      /\ pc \in [Commands -> Labels]
      /\ outcome \in [Commands -> {None, "ok", "failed"}]
  BY <1>1 DEF Published, Ended, DryRunInv
<1> DEFINE l == line[p]
           E == Escrow(l.policy, candidates[p], records[p])
           A == Artifact(l.policy, candidates[p], records[p])
           M == Manifest(l.policy, candidates[p])
<1>3. /\ l.escrowOut \in Paths \cup {None} /\ l.privateArtifactOut \in Paths \cup {None}
      /\ l.manifestOut \in Paths \cup {None}
      /\ l.escrowOut # None => l.escrowOut \notin {l.privateArtifactOut, l.manifestOut}
      /\ l.manifestOut # None => l.manifestOut # l.privateArtifactOut
      /\ E \in EscrowFile /\ A \in ArtifactFile /\ M \in ManifestFile
      /\ E \in AllFiles /\ A \in AllFiles /\ M \in AllFiles
      /\ E # None /\ A # None /\ M # None
  <2>1. l \in DryRunLines
    BY <1>2 DEF DryRunInv
  <2>2. /\ l.escrowOut # None => l.escrowOut \notin {l.privateArtifactOut, l.manifestOut}
        /\ l.manifestOut # None => l.manifestOut # l.privateArtifactOut
    BY <2>1, RetentionConstants
  <2>3. /\ l.escrowOut \in Paths \cup {None} /\ l.privateArtifactOut \in Paths \cup {None}
        /\ l.manifestOut \in Paths \cup {None}
        /\ E \in EscrowFile /\ A \in ArtifactFile /\ M \in ManifestFile
    BY <1>2, CommandLines
  <2> HIDE DEF E, A, M
  <2> QED BY <2>2, <2>3, RetentionConstants DEF AllFiles
<1>4. CASE WriteEscrowFile(p)
  <2>1. /\ files[l.escrowOut] = None
        /\ files' = [files EXCEPT ![l.escrowOut] = E]
        /\ GoTo(p, IF l.privateArtifactOut = None THEN "manifest" ELSE "artifact")
        /\ UNCHANGED outcome
    BY <1>0, <1>4 DEF WriteEscrowFile, Failed, NameIsFree, Policy
  <2> HIDE DEF E
  <2>2. /\ files' \in [Paths -> AllFiles \cup {None}] /\ FilesKept
        /\ l.escrowOut # None => files'[l.escrowOut] = E
    BY <1>3, <2>1, Publishes
  <2>3. HasEscrow(p)'
    BY <1>0, <1>1, <2>2 DEF HasEscrow, E
  <2>4. pc'[p] = IF l.privateArtifactOut = None THEN "manifest" ELSE "artifact"
    BY <1>0, <1>2, <2>1 DEF GoTo
  <2>5. pc'[p] = "manifest" => HasArtifact(p)'
    BY <1>1, <2>4 DEF HasArtifact
  <2> QED BY <1>2, <2>1, <2>2, <2>3, <2>5 DEF Published
<1>5. CASE WriteArtifact(p)
  <2>1. /\ files[l.privateArtifactOut] \in {None, A}
        /\ files' = [files EXCEPT ![l.privateArtifactOut] = A]
        /\ GoTo(p, "manifest") /\ UNCHANGED outcome
    BY <1>0, <1>5 DEF WriteArtifact, PublishJson, Failed, NameIsFree, ExistingOutputIsExact, Policy
  <2> HIDE DEF A
  <2>2. /\ files' \in [Paths -> AllFiles \cup {None}] /\ FilesKept
        /\ l.privateArtifactOut # None => files'[l.privateArtifactOut] = A
    BY <1>3, <2>1, Publishes
  <2>3. HasArtifact(p)'
    BY <1>0, <1>1, <2>2 DEF HasArtifact, A
  <2>4. pc[p] = "artifact"
    BY <1>5 DEF WriteArtifact
  <2>5. HasEscrow(p) 
    BY <1>1, <2>4 DEF Published
  <2>6. HasEscrow(p)'
    BY <1>0, <1>1, <1>3, <2>2, <2>5 DEF HasEscrow, FilesKept
  <2> QED BY <1>2, <2>1, <2>2, <2>3, <2>6 DEF Published
<1>6. CASE WriteManifest(p)
  <2>1. pc[p] = "manifest" /\ Succeed(p)
    BY <1>0, <1>6 DEF WriteManifest, PublishJson, Failed
  <2>2. pc'[p] = "release" /\ outcome'[p] = "ok"
    BY <1>0, <1>2, <2>1 DEF Succeed, GoTo
  <2>3. HasEscrow(p) /\ HasArtifact(p)
    BY <1>1, <2>1 DEF Published
  <2>4. /\ files' \in [Paths -> AllFiles \cup {None}] /\ FilesKept
        /\ l.manifestOut # None => files'[l.manifestOut] = M
    <3>1. CASE l.manifestOut = None
      <4>1. UNCHANGED files
        BY <1>6, <3>1 DEF WriteManifest
      <4> QED BY <3>1, <4>1 DEF PublishInv, FilesKept
    <3>2. CASE l.manifestOut # None
      <4>1. /\ files[l.manifestOut] \in {None, M}
            /\ files' = [files EXCEPT ![l.manifestOut] = M]
        BY <1>0, <1>6, <3>2 DEF WriteManifest, PublishJson, Failed, NameIsFree, ExistingOutputIsExact, Policy
      <4> HIDE DEF M
      <4> QED BY <1>3, <4>1, Publishes
    <3> QED BY <3>1, <3>2
  <2>5. HasManifest(p)'
    BY <1>0, <1>1, <2>4 DEF HasManifest
  <2>6. HasEscrow(p)'
    BY <1>0, <1>1, <1>3, <2>3, <2>4 DEF HasEscrow, FilesKept
  <2>7. HasArtifact(p)'
    BY <1>0, <1>1, <1>3, <2>3, <2>4 DEF HasArtifact, FilesKept
  <2> QED BY <2>2, <2>4, <2>5, <2>6, <2>7 DEF Published, Ended
<1> QED
  BY <1>4, <1>5, <1>6

\* A step of the selection or of the stream reports nothing and publishes
\* nothing.
LEMMA GatheringIsSilent ==
    ASSUME NEW p \in DryRuns, IndInv, DryRunInv,
           \/ LoadBatches(p) \/ LoadMessages(p) \/ CountBatchLinkedOrphans(p)
           \/ BuildSelectionPlan(p) \/ LoadBatchRow(p) \/ LoadMessageRows(p)
           \/ LoadErrorRows(p) \/ LoadNotificationRows(p) \/ ValidateOrphanCount(p),
           ~Failed(p)
    PROVE  /\ UNCHANGED <<files, outcome>>
           /\ pc'[p] # "artifact"
           /\ pc'[p] = "manifest" => line[p].escrowOut = None
<1>0. p \in Commands /\ pc \in [Commands -> Labels]
  BY DEF Commands, DryRunInv
<1>1. CASE LoadBatches(p)
  BY <1>1, SelectionListed
<1>2. CASE LoadMessages(p)
  BY <1>0, <1>2 DEF LoadMessages, Failed, GoTo, Advance
<1>3. CASE CountBatchLinkedOrphans(p)
  BY <1>0, <1>3 DEF CountBatchLinkedOrphans, GoTo, Advance
<1>4. CASE BuildSelectionPlan(p)
  BY <1>4, PlanSorts
<1>5. CASE LoadBatchRow(p)
  BY <1>0, <1>5 DEF LoadBatchRow, Failed, GoTo
<1>6. CASE LoadMessageRows(p)
  BY <1>0, <1>6 DEF LoadMessageRows, Failed, GoTo
<1>7. CASE LoadErrorRows(p)
  BY <1>0, <1>7 DEF LoadErrorRows, Failed, GoTo, Advance
<1>8. CASE LoadNotificationRows(p)
  BY <1>0, <1>8 DEF LoadNotificationRows, Failed, GoTo
<1>9. CASE ValidateOrphanCount(p)
  BY <1>0, <1>9 DEF ValidateOrphanCount, Failed, GoTo, Advance
<1> QED
  BY <1>1, <1>2, <1>3, <1>4, <1>5, <1>6, <1>7, <1>8, <1>9

\* Every step keeps what is published.
LEMMA NextPublishInv ==
    ASSUME IndInv, DryRunInv, PublishInv, [Next]_vars
    PROVE  PublishInv' /\ FilesKept
<1>0. files \in [Paths -> AllFiles \cup {None}]
  BY DEF PublishInv
<1>1. ASSUME UNCHANGED files
      PROVE  files' \in [Paths -> AllFiles \cup {None}] /\ FilesKept
  BY <1>0, <1>1 DEF FilesKept
<1>2. CASE DryRunsRest
  <2>1. UNCHANGED <<candidates, records, files>> /\ \A p \in DryRuns : Moved(p)
    BY <1>2 DEF DryRunsRest
  <2> QED BY <1>1, <2>1, PublishedKept DEF PublishInv
<1>3. ASSUME NEW p \in DryRuns, DryRunStep(p)
      PROVE  PublishInv' /\ FilesKept
  <2>0. /\ p \in Commands /\ pc[p] \in Leased /\ UNCHANGED line /\ Published(p)
        /\ pc \in [Commands -> Labels]
        /\ outcome \in [Commands -> {None, "ok", "failed"}]
    BY <1>3, OwnStep DEF Commands, PublishInv, DryRunInv
  <2>1. outcome[p] # "ok"
    BY <2>0 DEF Published, Ended, Leased
  <2>2. files' \in [Paths -> AllFiles \cup {None}] /\ FilesKept /\ Published(p)'
    <3>1. CASE Failed(p)
      <4>1. UNCHANGED <<candidates, records, files>>
        BY <3>1 DEF Failed
      <4>2. pc'[p] = "release" /\ outcome'[p] = "failed"
        BY <2>0, <3>1 DEF Failed, Fail, GoTo
      <4>3. Published(p)'
        BY <4>2 DEF Published
      <4> QED BY <1>1, <4>1, <4>3
    <3>2. CASE WriteEscrowFile(p) \/ WriteArtifact(p) \/ WriteManifest(p)
      BY <3>1, <3>2, PublicationSteps
    <3>3. CASE /\ ~Failed(p)
               /\ ~(WriteEscrowFile(p) \/ WriteArtifact(p) \/ WriteManifest(p))
      <4>1. /\ UNCHANGED <<files, outcome>>
            /\ pc'[p] # "artifact"
            /\ pc'[p] = "manifest" => line[p].escrowOut = None
        BY <1>3, <3>3, GatheringIsSilent DEF DryRunStep
      <4>2. pc'[p] = "manifest" => HasEscrow(p)' /\ HasArtifact(p)'
        <5>1. pc[p] # "idle"
          BY <2>0 DEF Leased
        <5>2. line[p].privateArtifactOut # None => line[p].escrowOut # None
          BY <5>1, CommandLines
        <5> QED BY <2>0, <4>1, <5>2 DEF HasEscrow, HasArtifact
      <4>3. Published(p)'
        BY <2>1, <4>1, <4>2 DEF Published
      <4> QED BY <1>1, <4>1, <4>3
    <3> QED BY <3>1, <3>2, <3>3
  <2>3. ASSUME NEW q \in DryRuns, q # p
        PROVE  Published(q)'
    <3>1. q \in Commands
      BY DEF Commands
    <3>2. /\ pc'[q] = pc[q] /\ candidates'[q] = candidates[q] /\ outcome'[q] = outcome[q]
          /\ records'[q] = records[q] /\ line'[q] = line[q]
      BY <1>3, <2>3, <3>1, OwnStep DEF At
    <3> QED BY <2>2, <3>2, PublishedKept DEF Moved
  <2> QED BY <2>2, <2>3 DEF PublishInv
<1> QED
  BY <1>2, <1>3, DryRunFrame

\* Nothing is published when the first command starts.
LEMMA InitPublishInv ==
    Init => PublishInv
<1> SUFFICES ASSUME Init PROVE PublishInv
  OBVIOUS
<1>1. files \in [Paths -> AllFiles \cup {None}]
  BY DEF Init
<1>2. ASSUME NEW p \in DryRuns
      PROVE  Published(p)
  BY RetentionConstants DEF Init, Commands, Published
<1> QED
  BY <1>1, <1>2 DEF PublishInv

\* A dry run that reports success has its own files under the names it was
\* given, whatever other dry runs wrote to the same names before or since.
THEOREM SuccessIsPublished == Spec => []SuccessPublishedOwnFiles
<1> DEFINE Inv == IndInv /\ DryRunInv /\ PublishInv
<1>1. Init => Inv
  BY InitInv, InitDryRunInv, InitPublishInv
<1>2. Inv /\ [Next]_vars => Inv'
  BY NextInv, NextDryRunInv, NextPublishInv
<1>3. Inv => SuccessPublishedOwnFiles
  <2> SUFFICES ASSUME PublishInv PROVE SuccessPublishedOwnFiles
    OBVIOUS
  <2>1. ASSUME NEW p \in DryRuns, outcome[p] = "ok"
        PROVE  HasEscrow(p) /\ HasArtifact(p) /\ HasManifest(p)
    BY <2>1 DEF PublishInv, Published
  <2> QED BY <2>1 DEF SuccessPublishedOwnFiles, HasEscrow, HasArtifact, HasManifest
<1> QED
  BY <1>1, <1>2, <1>3, PTL DEF Spec

----------------------------------------------------------------------------
(***************************************************************************)
(* What an apply run reports. It deletes its bindings one after the other, *)
(* a deleted batch never comes back, and only the batch whose commit was   *)
(* not acknowledged is missing in the count, after which the run is over.  *)
(***************************************************************************)
Report(p) ==
    /\ pc[p] \in {"idle", "read", "lock"} => removed[p] = <<>>
    /\ pc[p] \in {"idle", "read", "lock", "apply"} =>
          outcome[p] # "ok" /\ Len(removed[p]) = completed[p]
    /\ \/ pc[p] \in {"lock", "apply"} \/ input[p] # None
       \/ removed[p] # <<>> \/ outcome[p] = "ok"
      => /\ input[p].bindings \in Seq(Batches)
         /\ Len(removed[p]) <= Len(input[p].bindings)
    /\ \A i \in DOMAIN removed[p] :
          removed[p][i] = input[p].bindings[i] /\ removed[p][i] \notin batches
    /\ outcome[p] = "ok" => Len(removed[p]) = Len(input[p].bindings)
    /\ \/ Len(removed[p]) = completed[p]
       \/ outcome[p] # "ok" /\ Len(removed[p]) = completed[p] + 1

Disjoint ==
    \A p, q \in Applies : p # q => Range(removed[p]) \cap Range(removed[q]) = {}

ReportInv == (\A p \in Applies : Report(p)) /\ Disjoint

\* What a step that neither admits, deletes nor issues a receipt may do to an
\* apply run.
ApplyMoved(p) ==
    \/ pc'[p] = pc[p] /\ outcome'[p] = outcome[p]
    \/ pc[p] # "idle" /\ pc'[p] \in Ended /\ outcome'[p] \in {outcome[p], "failed"}
    \/ pc[p] = "idle" /\ pc'[p] = "read" /\ outcome'[p] = outcome[p]
    \/ pc[p] = "lock" /\ pc'[p] = "apply" /\ outcome'[p] = outcome[p]

AppliesRest ==
    /\ UNCHANGED <<batches, input, completed, removed>>
    /\ \A p \in Applies : ApplyMoved(p)

\* Every other step leaves the apply runs' work alone.
LEMMA ApplyFrame ==
    ASSUME IndInv, DryRunInv, [Next]_vars
    PROVE  \/ \E p \in Applies : \/ ReadInputs(p) /\ Admitted(p)
                                 \/ ApplyBatch(p) \/ ApplyBatchUnacknowledged(p)
                                 \/ IssueReceipt(p)
           \/ AppliesRest
<1>0. /\ pc \in [Commands -> Labels]
      /\ outcome \in [Commands -> {None, "ok", "failed"}]
      /\ \A p \in Applies : p \in Commands /\ p \notin DryRuns
      /\ \A p \in DryRuns : p \in Commands /\ p \notin Applies
      /\ \A p \in Commands : p \in DryRuns \/ p \in Applies
  BY RetentionConstants DEF DryRunInv, Commands
<1>1. ASSUME UNCHANGED <<batches, applying, pc, outcome>>
      PROVE  AppliesRest
  BY <1>1 DEF AppliesRest, ApplyMoved, applying
<1>2. ASSUME NEW p \in Commands, UNCHANGED <<batches, applying>>,
             NEW label \in Ended, pc[p] # "idle", GoTo(p, label),
             UNCHANGED outcome \/ outcome' = [outcome EXCEPT ![p] = "failed"]
      PROVE  AppliesRest
  BY <1>0, <1>2 DEF AppliesRest, ApplyMoved, applying, GoTo
<1>3. ASSUME NEW p \in DryRuns, DryRunStep(p)
      PROVE  AppliesRest
  <2>1. /\ UNCHANGED <<batches, input, completed, removed>>
        /\ At(pc, pc', Commands, p) /\ At(outcome, outcome', Commands, p)
    BY <1>3, OwnStep
  <2> QED BY <1>0, <2>1 DEF AppliesRest, ApplyMoved, At
<1>4. ASSUME NEW p \in Commands, Begin(p)
      PROVE  AppliesRest
  BY <1>0, <1>4 DEF Begin, GoTo, AppliesRest, ApplyMoved, applying, tables
<1>5. ASSUME NEW p \in Commands, TryAcquire(p)
      PROVE  AppliesRest
  <2>1. CASE holder = None
    BY <1>0, <1>5, <2>1 DEF TryAcquire, GoTo, AppliesRest, ApplyMoved, applying, tables
  <2>2. CASE holder # None
    BY <1>2, <1>5, <2>2 DEF TryAcquire, Fail, Ended, tables
  <2> QED BY <2>1, <2>2
<1>6. ASSUME NEW p \in Commands, Release(p) \/ Throw(p) \/ Crash(p)
      PROVE  AppliesRest
  BY <1>2, <1>6 DEF Release, Throw, Crash, Fail, Ended, tables
<1>7. ASSUME NEW p \in Applies, (ReadInputs(p) /\ ~Admitted(p)) \/ ApplyBatchRefused(p)
      PROVE  AppliesRest
  <2>1. /\ Fail(p) /\ UNCHANGED <<batches, applying>> /\ pc[p] # "idle"
    BY <1>7 DEF ReadInputs, ApplyBatchRefused, HasNextBatch, applying, tables
  <2> QED BY <1>0, <1>2, <2>1 DEF Fail, Ended
<1>8. ASSUME NEW p \in Commands, LoseLock(p)
      PROVE  AppliesRest
  BY <1>1, <1>8 DEF LoseLock, tables
<1>9. CASE ProxyStep
  <2>1. UNCHANGED batches
    BY <1>9 DEF ProxyStep, Writers, CreateNewsletterEntry, SaveNewsletterNotification,
                SaveNewsletterNotificationOrphan, ReconcileNewsletterNotificationOrphan
  <2> QED BY <1>1, <1>9, <2>1 DEF ProxyStep
<1>10. CASE UNCHANGED vars
  BY <1>1, <1>10 DEF vars, tables
<1> QED
  BY <1>3, <1>4, <1>5, <1>6, <1>7, <1>8, <1>9, <1>10 DEF Next, CommandStep, ApplyStep

\* A report stands while the run and the batches are as they were.
LEMMA ReportKept ==
    ASSUME NEW p \in Applies, Report(p), batches' \subseteq batches,
           input'[p] = input[p], completed'[p] = completed[p], removed'[p] = removed[p],
           ApplyMoved(p)
    PROVE  Report(p)'
<1>1. CASE pc'[p] = pc[p] /\ outcome'[p] = outcome[p]
  BY <1>1 DEF Report
<1>2. CASE pc'[p] \in Ended /\ outcome'[p] \in {outcome[p], "failed"}
  BY <1>2 DEF Report, Ended
<1>3. CASE pc[p] = "idle" /\ pc'[p] = "read" /\ outcome'[p] = outcome[p]
  BY <1>3 DEF Report
<1>4. CASE pc[p] = "lock" /\ pc'[p] = "apply" /\ outcome'[p] = outcome[p]
  BY <1>4 DEF Report
<1> QED
  BY <1>1, <1>2, <1>3, <1>4 DEF ApplyMoved

\* Admission: nothing is deleted yet, and the bindings are batches.
LEMMA AdmissionReports ==
    ASSUME NEW p \in Applies, IndInv, DryRunInv, PublishInv, Report(p),
           ReadInputs(p), Admitted(p)
    PROVE  Report(p)'
<1> DEFINE a == files[line[p].privateArtifactFile]
           new == [manifest |-> files[line[p].manifestFile], bindings |-> a.bindings,
                   escrow |-> files[line[p].escrowFile]]
<1>0. p \in Commands /\ pc \in [Commands -> Labels]
  BY DEF Commands, DryRunInv
<1>1. /\ pc[p] = "read" /\ UNCHANGED <<batches, completed, removed, outcome>>
      /\ input' = [input EXCEPT ![p] = new]
      /\ GoTo(p, "lock")
  BY DEF ReadInputs, tables
<1>2. a.bindings \in Seq(Batches)
  <2>1. line[p] \in ApplyLines
    BY <1>1 DEF IndInv, ControlInv
  <2>2. line[p].privateArtifactFile \in Paths
    BY <2>1, RetentionConstants
  <2>3. a # None /\ a.kind = "artifact"
    BY DEF Admitted, IsFile
  <2>4. a \in ManifestFile \cup EscrowFile \cup ArtifactFile
    BY <2>2, <2>3 DEF PublishInv, AllFiles
  <2> HIDE DEF a
  <2> QED BY <2>3, <2>4 DEF ManifestFile, EscrowFile, ArtifactFile
<1>3. input'[p] = new /\ new.bindings = a.bindings
  BY <1>1 DEF IndInv, ControlInv
<1>4. pc'[p] = "lock"
  BY <1>0, <1>1 DEF GoTo
<1>5. removed[p] = <<>> /\ completed[p] = Len(removed[p]) /\ outcome[p] # "ok"
  BY <1>1 DEF Report
<1> HIDE DEF new, a
<1>6. DOMAIN removed'[p] = {} /\ Len(removed'[p]) = 0 /\ completed'[p] = 0
  BY <1>1, <1>5
<1>7. Len(a.bindings) \in Nat
  BY <1>2
<1> QED
  BY <1>1, <1>2, <1>3, <1>4, <1>5, <1>6, <1>7 DEF Report

\* A deletion: the next binding, of a batch that was still there.
LEMMA DeletionReports ==
    ASSUME NEW p \in Applies, IndInv, DryRunInv, ReportInv,
           ApplyBatch(p) \/ ApplyBatchUnacknowledged(p)
    PROVE  ReportInv'
<1> DEFINE k == Current(p)
           b == input[p].bindings[k]
<1>0. /\ p \in Commands /\ pc \in [Commands -> Labels]
      /\ outcome \in [Commands -> {None, "ok", "failed"}]
      /\ completed \in [Applies -> Nat] /\ removed \in [Applies -> Seq(Batches)]
      /\ \A q \in Applies : q \in Commands
      /\ Report(p) /\ Disjoint /\ \A q \in Applies : Report(q)
  BY DEF Commands, DryRunInv, IndInv, ControlInv, ReportInv
<1>1. /\ pc[p] = "apply" /\ k = completed[p] + 1 /\ k <= Len(input[p].bindings)
      /\ b \in batches
      /\ removed' = [removed EXCEPT ![p] = Append(@, b)]
      /\ batches' = batches \ {b}
      /\ UNCHANGED input
  BY DEF ApplyBatch, ApplyBatchUnacknowledged, HasNextBatch, Revalidated, Commit, DeleteBatch,
         Current
<1>2. /\ Len(removed[p]) = completed[p] /\ outcome[p] # "ok"
      /\ input[p].bindings \in Seq(Batches)
  BY <1>0, <1>1 DEF Report
<1>3. b \in Batches
  BY <1>1 DEF IndInv
<1>4. \/ /\ UNCHANGED <<pc, outcome>> /\ completed' = [completed EXCEPT ![p] = @ + 1]
      \/ /\ UNCHANGED completed /\ pc'[p] = "release" /\ outcome'[p] = "failed"
         /\ \A q \in Applies : q # p => pc'[q] = pc[q] /\ outcome'[q] = outcome[q]
  BY <1>0, <1>1 DEF ApplyBatch, ApplyBatchUnacknowledged, Fail, GoTo, Leased
<1> HIDE DEF b, k
<1>5. /\ removed'[p] \in Seq(Batches) /\ Len(removed'[p]) = k
      /\ \A i \in 1..completed[p] : removed'[p][i] = removed[p][i]
      /\ removed'[p][k] = b
      /\ DOMAIN removed'[p] = 1..k
      /\ \A q \in Applies : q # p => removed'[q] = removed[q]
  <2>1. removed'[p] = Append(removed[p], b) /\ removed[p] \in Seq(Batches)
    BY <1>0, <1>1
  <2>2. /\ removed'[p] \in Seq(Batches) /\ Len(removed'[p]) = k
        /\ \A i \in 1..completed[p] : removed'[p][i] = removed[p][i]
        /\ removed'[p][k] = b
    BY <1>0, <1>1, <1>2, <1>3, <2>1
  <2> QED BY <1>0, <1>1, <2>2
<1>6. /\ completed[p] \in Nat /\ k \in Nat
      /\ \A i \in 1..k : i \in 1..completed[p] \/ i = k
      /\ DOMAIN removed[p] = 1..completed[p]
  BY <1>0, <1>1, <1>2
<1>7. \A i \in DOMAIN removed'[p] :
        removed'[p][i] = input'[p].bindings[i] /\ removed'[p][i] \notin batches'
  <2> SUFFICES ASSUME NEW i \in 1..k
               PROVE  removed'[p][i] = input[p].bindings[i] /\ removed'[p][i] \notin batches'
    BY <1>1, <1>5
  <2>1. CASE i \in 1..completed[p]
    <3>1. removed[p][i] = input[p].bindings[i] /\ removed[p][i] \notin batches
      BY <1>0, <1>6, <2>1 DEF Report
    <3> QED BY <1>1, <1>5, <2>1, <3>1
  <2>2. CASE i = k
    BY <1>1, <1>5, <2>2 DEF b
  <2> QED BY <1>6, <2>1, <2>2
<1>8. Report(p)'
  <2>1. CASE UNCHANGED <<pc, outcome>> /\ completed' = [completed EXCEPT ![p] = @ + 1]
    <3>1. completed'[p] = k /\ pc'[p] = "apply" /\ outcome'[p] # "ok"
      BY <1>0, <1>1, <1>2, <2>1
    <3> QED BY <1>1, <1>2, <1>5, <1>6, <1>7, <3>1 DEF Report
  <2>2. CASE UNCHANGED completed /\ pc'[p] = "release" /\ outcome'[p] = "failed"
    <3>1. k = completed'[p] + 1
      BY <1>1, <2>2
    <3> QED BY <1>1, <1>2, <1>5, <1>6, <1>7, <2>2, <3>1 DEF Report
  <2> QED BY <1>4, <2>1, <2>2
<1>9. ASSUME NEW q \in Applies, q # p
      PROVE  Report(q)'
  <2>1. /\ input'[q] = input[q] /\ completed'[q] = completed[q] /\ removed'[q] = removed[q]
        /\ pc'[q] = pc[q] /\ outcome'[q] = outcome[q]
    BY <1>0, <1>1, <1>4, <1>5, <1>9
  <2> QED BY <1>0, <1>1, <2>1, ReportKept DEF ApplyMoved
<1>10. ASSUME NEW q \in Applies, q # p
       PROVE  Range(removed'[p]) \cap Range(removed'[q]) = {}
  <2>1. removed'[q] = removed[q]
    BY <1>5, <1>10
  <2>2. \A x \in Range(removed'[p]) : x \in Range(removed[p]) \/ x = b
    BY <1>5, <1>6 DEF Range
  <2>3. b \notin Range(removed[q])
    BY <1>0, <1>1 DEF Range, Report
  <2>4. Range(removed[p]) \cap Range(removed[q]) = {}
    BY <1>0, <1>10 DEF Disjoint
  <2> QED BY <2>1, <2>2, <2>3, <2>4
<1>11. Disjoint'
  <2> SUFFICES ASSUME NEW q \in Applies, NEW r \in Applies, q # r
               PROVE  Range(removed'[q]) \cap Range(removed'[r]) = {}
    BY DEF Disjoint, Range
  <2>1. CASE q # p /\ r # p
    BY <1>0, <1>5, <2>1 DEF Disjoint
  <2>2. CASE q = p
    BY <1>10, <2>2
  <2>3. CASE r = p
    BY <1>10, <2>3
  <2> QED BY <2>1, <2>2, <2>3
<1> QED
  BY <1>8, <1>9, <1>11 DEF ReportInv

\* Every step keeps the reports.
LEMMA NextReportInv ==
    ASSUME IndInv, DryRunInv, PublishInv, ReportInv, [Next]_vars
    PROVE  ReportInv'
<1>0. /\ pc \in [Commands -> Labels] /\ DOMAIN input = Applies
      /\ outcome \in [Commands -> {None, "ok", "failed"}]
      /\ \A q \in Applies : q \in Commands
      /\ Disjoint /\ \A q \in Applies : Report(q)
  BY DEF DryRunInv, IndInv, ControlInv, ReportInv, Commands
<1>1. ASSUME UNCHANGED removed
      PROVE  Disjoint'
  BY <1>0, <1>1 DEF Disjoint
<1>2. CASE AppliesRest
  <2>1. ASSUME NEW q \in Applies
        PROVE  Report(q)'
    BY <1>0, <1>2, ReportKept DEF AppliesRest
  <2> QED BY <1>1, <1>2, <2>1 DEF AppliesRest, ReportInv
<1>3. ASSUME NEW p \in Applies, ReadInputs(p), Admitted(p)
      PROVE  ReportInv'
  <2>1. Report(p)'
    BY <1>0, <1>3, AdmissionReports
  <2>2. /\ UNCHANGED <<batches, completed, removed, outcome>>
        /\ GoTo(p, "lock") /\ \E new : input' = [input EXCEPT ![p] = new]
    BY <1>3 DEF ReadInputs, tables
  <2>3. ASSUME NEW q \in Applies, q # p
        PROVE  Report(q)'
    <3>1. pc'[q] = pc[q] /\ input'[q] = input[q]
      BY <1>0, <2>2, <2>3 DEF GoTo
    <3> QED BY <1>0, <2>2, <3>1, ReportKept DEF ApplyMoved
  <2> QED BY <1>1, <2>1, <2>2, <2>3 DEF ReportInv
<1>4. ASSUME NEW p \in Applies, IssueReceipt(p)
      PROVE  ReportInv'
  <2>1. /\ pc[p] = "apply" /\ completed[p] + 1 > Len(input[p].bindings)
        /\ UNCHANGED <<batches, input, completed, removed>> /\ Succeed(p)
    BY <1>4 DEF IssueReceipt, tables, applying, Current
  <2>2. pc'[p] = "release" /\ outcome'[p] = "ok"
    BY <1>0, <2>1 DEF Succeed, GoTo
  <2>3. Report(p)'
    <3>1. /\ Len(removed[p]) = completed[p] /\ input[p].bindings \in Seq(Batches)
          /\ Len(removed[p]) <= Len(input[p].bindings)
      BY <1>0, <2>1 DEF Report
    <3>2. completed[p] \in Nat /\ Len(input[p].bindings) \in Nat
      BY <3>1 DEF IndInv, ControlInv
    <3>3. Len(removed[p]) = Len(input[p].bindings)
      BY <2>1, <3>1, <3>2
    <3> QED BY <1>0, <2>1, <2>2, <3>1, <3>3 DEF Report
  <2>4. ASSUME NEW q \in Applies, q # p
        PROVE  Report(q)'
    <3>1. pc'[q] = pc[q] /\ outcome'[q] = outcome[q]
      BY <1>0, <2>1, <2>4 DEF Succeed, GoTo
    <3> QED BY <1>0, <2>1, <3>1, ReportKept DEF ApplyMoved
  <2> QED BY <1>1, <2>1, <2>3, <2>4 DEF ReportInv
<1> QED
  BY <1>2, <1>3, <1>4, DeletionReports, ApplyFrame

\* No apply run has done anything when the first command starts.
LEMMA InitReportInv ==
    Init => ReportInv
<1> SUFFICES ASSUME Init PROVE ReportInv
  OBVIOUS
<1>1. ASSUME NEW p \in Applies
      PROVE  Report(p) /\ Range(removed[p]) = {}
  <2>1. /\ pc[p] = "idle" /\ input[p] = None /\ removed[p] = <<>> /\ completed[p] = 0
        /\ outcome[p] = None
    BY <1>1 DEF Init, Commands
  <2> QED BY <2>1, RetentionConstants DEF Report, Range
<1> QED
  BY <1>1 DEF ReportInv, Disjoint

\* The invariants of the dry runs, the files and the apply runs together.
RetentionInv == IndInv /\ DryRunInv /\ PublishInv /\ ReportInv

\* They hold of every behaviour.
THEOREM Reporting == Spec => []RetentionInv
<1>1. Init => RetentionInv
  BY InitInv, InitDryRunInv, InitPublishInv, InitReportInv DEF RetentionInv
<1>2. RetentionInv /\ [Next]_vars => RetentionInv'
  BY NextInv, NextDryRunInv, NextPublishInv, NextReportInv DEF RetentionInv
<1> QED
  BY <1>1, <1>2, PTL DEF Spec

\* What an apply run reports is what it did, up to one unacknowledged commit,
\* and no batch is deleted by two runs, even without the named lock.
THEOREM ReportsAreExact == Spec => []ReportIsExact
<1>1. RetentionInv => ReportIsExact
  <2> SUFFICES ASSUME IndInv, ReportInv PROVE ReportIsExact
    BY DEF RetentionInv
  <2>1. ASSUME NEW p \in Applies
        PROVE  /\ removed[p] # <<>> => IsPrefix(removed[p], input[p].bindings)
               /\ outcome[p] = "ok" => removed[p] = input[p].bindings
               /\ \/ Len(removed[p]) = completed[p]
                  \/ outcome[p] # "ok" /\ Len(removed[p]) = completed[p] + 1
    <3> DEFINE r == removed[p]
               s == input[p].bindings
    <3>1. Report(p) /\ r \in Seq(Batches)
      BY DEF ReportInv, IndInv, ControlInv
    <3>2. ASSUME r # <<>> \/ outcome[p] = "ok"
          PROVE  s \in Seq(Batches) /\ Len(r) <= Len(s) /\ \A i \in 1..Len(r) : r[i] = s[i]
      BY <3>1, <3>2 DEF Report
    <3>3. outcome[p] = "ok" => Len(r) = Len(s)
      BY <3>1 DEF Report
    <3>4. \/ Len(r) = completed[p]
          \/ outcome[p] # "ok" /\ Len(r) = completed[p] + 1
      BY <3>1 DEF Report
    <3> HIDE DEF r, s
    <3>5. ASSUME r # <<>>
          PROVE  IsPrefix(r, s)
      <4>1. s \in Seq(Batches) /\ Len(r) <= Len(s) /\ \A i \in 1..Len(r) : r[i] = s[i]
        BY <3>2, <3>5
      <4>2. SubSeq(r, 1, Len(r)) = SubSeq(s, 1, Len(r))
        BY <3>1, <4>1
      <4> QED BY <4>1, <4>2 DEF IsPrefix
    <3>6. ASSUME outcome[p] = "ok"
          PROVE  r = s
      BY <3>1, <3>2, <3>3, <3>6, SeqEqual
    <3> QED BY <3>4, <3>5, <3>6 DEF r, s
  <2>2. \A p, q \in Applies : p # q => Range(removed[p]) \cap Range(removed[q]) = {}
    BY DEF ReportInv, Disjoint
  <2> QED BY <2>1, <2>2 DEF ReportIsExact
<1> QED
  BY <1>1, Reporting, PTL

\* The command lines and the lock keep their types.
LinesInv ==
    /\ holder \in Commands \cup {None}
    /\ \A p \in Commands :
          line[p] \in (IF p \in DryRuns THEN DryRunLines ELSE ApplyLines) \cup {None}

\* No step gives a command a line or the lock an owner of another kind.
LEMMA NextLinesInv ==
    ASSUME IndInv, DryRunInv, LinesInv, [Next]_vars
    PROVE  LinesInv'
<1>0. DOMAIN line = Commands
  BY DEF IndInv, ControlInv
<1>1. ASSUME UNCHANGED line, holder' \in Commands \cup {None}
      PROVE  LinesInv'
  BY <1>1 DEF LinesInv
<1>2. ASSUME NEW p \in Commands, Begin(p)
      PROVE  LinesInv'
  BY <1>0, <1>2 DEF Begin, LinesInv
<1>3. ASSUME NEW p \in Commands,
             \/ TryAcquire(p) \/ Release(p) \/ Throw(p) \/ Crash(p) \/ LoseLock(p)
      PROVE  UNCHANGED line /\ holder' \in Commands \cup {None}
  BY <1>3 DEF TryAcquire, Release, Throw, Crash, LoseLock, LinesInv
<1>4. ASSUME NEW p \in DryRuns, DryRunStep(p)
      PROVE  UNCHANGED line /\ holder' \in Commands \cup {None}
  BY <1>4, OwnStep DEF LinesInv
<1>5. ASSUME NEW p \in Applies, ApplyStep(p)
      PROVE  UNCHANGED line /\ holder' \in Commands \cup {None}
  BY <1>5 DEF ApplyStep, ReadInputs, ApplyBatch, ApplyBatchUnacknowledged, ApplyBatchRefused,
              IssueReceipt, LinesInv
<1>6. CASE ProxyStep \/ UNCHANGED vars
  BY <1>1, <1>6 DEF ProxyStep, vars, LinesInv
<1> QED
  BY <1>1, <1>2, <1>3, <1>4, <1>5, <1>6 DEF Next, CommandStep

\* The state of retention keeps its types: in particular a dry run's index
\* stays within its candidates, and no apply run counts past its bindings.
THEOREM RetentionTypes == Spec => []TypeOK
<1>1. Init => LinesInv
  BY DEF Init, LinesInv
<1>2. RetentionInv /\ LinesInv /\ [Next]_vars => LinesInv'
  BY NextLinesInv DEF RetentionInv
<1>3. RetentionInv /\ LinesInv => TypeOK
  <2> SUFFICES ASSUME IndInv, DryRunInv, PublishInv, ReportInv, LinesInv PROVE TypeOK
    BY DEF RetentionInv
  <2>1. /\ TablesTypeOK /\ records \in [DryRuns -> Seq(EscrowRecord)]
        /\ completed \in [Applies -> Nat] /\ removed \in [Applies -> Seq(Batches)]
    BY DEF IndInv, StreamInv, ControlInv
  <2>2. /\ candidates \in [DryRuns -> Seq(Candidate)]
        /\ moments \in [DryRuns -> Seq(EscrowRecord)]
        /\ outcome \in [Commands -> {None, "ok", "failed"}]
        /\ pc \in [Commands -> Leased \cup {"idle", "lock", "read", "release", "done", "crashed"}]
    BY DEF DryRunInv, Labels
  <2>3. files \in [Paths -> ManifestFile \cup EscrowFile \cup ArtifactFile \cup {None}]
    BY DEF PublishInv, AllFiles
  <2>4. ASSUME NEW p \in DryRuns
        PROVE  Fits(p)
    BY DEF DryRunInv, Place
  <2>5. ASSUME NEW p \in Applies, input[p] # None
        PROVE  completed[p] <= Len(input[p].bindings)
    <3>1. Report(p) /\ completed[p] \in Nat
      BY <2>1 DEF ReportInv
    <3>2. /\ input[p].bindings \in Seq(Batches) /\ Len(removed[p]) <= Len(input[p].bindings)
          /\ Len(removed[p]) = completed[p] \/ Len(removed[p]) = completed[p] + 1
      BY <2>5, <3>1 DEF Report
    <3>3. Len(input[p].bindings) \in Nat
      BY <3>2
    <3> QED BY <3>1, <3>2, <3>3
  <2>6. \A p \in DryRuns :
           /\ at[p] \in 1..(Len(candidates[p]) + 1)
           /\ candidates[p] # <<>> => at[p] <= Len(candidates[p])
           /\ Len(records[p]) <= Len(candidates[p])
    BY <2>4 DEF Fits
  <2> QED BY <2>1, <2>2, <2>3, <2>5, <2>6 DEF TypeOK, LinesInv
<1> QED
  BY <1>1, <1>2, <1>3, Reporting, PTL DEF Spec

----------------------------------------------------------------------------
(***************************************************************************)
(* The limits of an apply run. The e-mails it has deleted so far are no    *)
(* more than the counts of the first batches of its manifest, whose sum    *)
(* was compared with the limit at admission: every deleted batch had as    *)
(* many e-mails as its manifest entry says. An e-mail that was deleted     *)
(* never has its batch again, so no batch counts twice.                    *)
(***************************************************************************)
Units(sizes, k) == UNION {{i} \X (1..sizes[i]) : i \in 1..k}
MessageCounts(entries) == [i \in DOMAIN entries |-> entries[i].messageCount]
DeletedBy(p) == {m \in deleted \cap Messages : BatchOf[m] \in Range(removed[p])}

Capped(p) ==
    pc[p] \in {"lock", "apply"} \/ removed[p] # <<>> =>
       LET entries == input[p].manifest.batches
       IN  /\ entries \in Seq(ManifestEntry)
           /\ Len(entries) = Len(input[p].bindings)
           /\ Len(entries) <= Policy(p).maxBatches
           /\ SumOver(MessageCounts(entries)) <= Policy(p).maxMessages
           /\ Cardinality(DeletedBy(p)) <=
                Cardinality(Units(MessageCounts(entries), Len(removed[p])))

DeletedIsGone == \A m \in deleted \cap Messages : BatchOf[m] \notin batches

CapsInv == DeletedIsGone /\ \A p \in Applies : Capped(p)

\* The first n numbers are n.
LEMMA InitialSegment ==
    ASSUME NEW n \in Nat
    PROVE  IsFiniteSet(1..n) /\ Cardinality(1..n) = n
<1>1. 1 \in Int /\ n \in Int
  OBVIOUS
<1>2. IsFiniteSet(1..n) /\ Cardinality(1..n) = IF 1 > n THEN 0 ELSE n - 1 + 1
  BY <1>1, FS_Interval
<1>3. (IF 1 > n THEN 0 ELSE n - 1 + 1) = n
  OBVIOUS
<1> QED
  BY <1>2, <1>3

\* The units of a list of counts are finite in number, and the next entry adds
\* as many as it counts.
LEMMA UnitsAdd ==
    ASSUME NEW n \in Nat, NEW sizes \in [1..n -> Nat]
    PROVE  /\ \A k \in 0..n : /\ IsFiniteSet(Units(sizes, k))
                              /\ Cardinality(Units(sizes, k)) \in Nat
           /\ \A k \in 0..n : Cardinality(Units(sizes, k)) <= SumOver(sizes)
           /\ \A k \in 1..n :
                 Cardinality(Units(sizes, k)) =
                   Cardinality(Units(sizes, k - 1)) + sizes[k]
<1> DEFINE U(i) == {i} \X (1..sizes[i])
<1>1. ASSUME NEW i \in 1..n
      PROVE  IsFiniteSet(U(i)) /\ Cardinality(U(i)) = sizes[i]
  <2>1. sizes[i] \in Nat
    OBVIOUS
  <2>2. IsFiniteSet(1..sizes[i]) /\ Cardinality(1..sizes[i]) = sizes[i]
    BY <2>1, InitialSegment
  <2>3. IsFiniteSet({i}) /\ Cardinality({i}) = 1
    BY FS_Singleton
  <2>4. /\ IsFiniteSet({i} \X (1..sizes[i]))
        /\ Cardinality({i} \X (1..sizes[i])) = Cardinality({i}) * Cardinality(1..sizes[i])
    BY <2>2, <2>3, FS_Product
  <2> QED BY <2>1, <2>2, <2>3, <2>4
<1>2. ASSUME NEW k \in 0..n
      PROVE  IsFiniteSet(Units(sizes, k)) /\ Cardinality(Units(sizes, k)) \in Nat
  <2> DEFINE f == [i \in 1..k |-> U(i)]
  <2>1. IsFiniteSet(1..k)
    BY FS_Interval
  <2>2. f \in [1..k -> {U(i) : i \in 1..k}]
    OBVIOUS
  <2>3. IsFiniteSet(Range(f))
    BY <2>1, <2>2, FiniteRange
  <2>4. Range(f) = {U(i) : i \in 1..k}
    BY DEF Range
  <2>5. \A T \in {U(i) : i \in 1..k} : IsFiniteSet(T)
    <3>1. \A i \in 1..k : i \in 1..n
      OBVIOUS
    <3>2. \A i \in 1..k : IsFiniteSet(U(i))
      BY <1>1, <3>1
    <3> HIDE DEF U
    <3> QED BY <3>2
  <2> HIDE DEF f
  <2>6. IsFiniteSet(UNION {U(i) : i \in 1..k})
    BY <2>3, <2>4, <2>5, FS_UNION
  <2> QED BY <2>6, FS_CardinalityType DEF Units
<1>3. ASSUME NEW k \in 0..n
      PROVE  Cardinality(Units(sizes, k)) <= SumOver(sizes)
  <2>1. Units(sizes, k) \subseteq Units(sizes, n)
    BY DEF Units
  <2>2. SumOver(sizes) = Cardinality(Units(sizes, n))
    BY DEF SumOver, Units
  <2>3. IsFiniteSet(Units(sizes, n))
    BY <1>2
  <2> QED BY <2>1, <2>2, <2>3, FS_Subset
<1>4. ASSUME NEW k \in 1..n
      PROVE  Cardinality(Units(sizes, k)) = Cardinality(Units(sizes, k - 1)) + sizes[k]
  <2> DEFINE S == Units(sizes, k - 1)
             T == U(k)
  <2>1. Units(sizes, k) = S \cup T
    <3>1. \A i \in 1..k : i \in 1..(k - 1) \/ i = k
      OBVIOUS
    <3>2. \A i \in 1..(k - 1) : i \in 1..k
      OBVIOUS
    <3>3. k \in 1..k
      OBVIOUS
    <3> QED BY <3>1, <3>2, <3>3, Zenon DEF Units
  <2>2. S \cap T = {}
    <3> SUFFICES ASSUME NEW x \in S, x \in T PROVE FALSE
      OBVIOUS
    <3>1. PICK i \in 1..(k - 1) : x \in U(i)
      BY DEF Units
    <3>2. x[1] = i /\ x[1] = k
      BY <3>1
    <3> QED BY <3>2
  <2>3. IsFiniteSet(T) /\ Cardinality(T) = sizes[k]
    BY <1>1
  <2>4. IsFiniteSet(S) /\ Cardinality(S) \in Nat /\ sizes[k] \in Nat
    <3>1. k - 1 \in 0..n
      OBVIOUS
    <3> QED BY <1>2, <3>1
  <2> HIDE DEF S, T
  <2>5. Cardinality(S \cup T) = Cardinality(S) + Cardinality(T) - Cardinality(S \cap T)
    BY <2>3, <2>4, FS_Union
  <2>6. Cardinality(S \cap T) = 0
    BY <2>2, FS_EmptySet
  <2>7. Cardinality(Units(sizes, k)) = Cardinality(S) + sizes[k]
    BY <2>1, <2>3, <2>4, <2>5, <2>6
  <2> QED BY <2>7 DEF S
<1> QED
  BY <1>2, <1>3, <1>4

\* An apply run keeps its command line.
LEMMA LinesStand ==
    ASSUME NEW p \in Applies, IndInv, DryRunInv, [Next]_vars, pc[p] # "idle"
    PROVE  line'[p] = line[p]
<1>1. ASSUME NEW q \in Commands, Begin(q)
      PROVE  line'[p] = line[p]
  BY <1>1 DEF Begin, IndInv, ControlInv
<1>2. ASSUME NEW q \in DryRuns, DryRunStep(q)
      PROVE  line'[p] = line[p]
  BY <1>2, OwnStep
<1>3. ASSUME NEW q \in Applies, ApplyStep(q)
      PROVE  line'[p] = line[p]
  BY <1>3 DEF ApplyStep, ReadInputs, ApplyBatch, ApplyBatchUnacknowledged, ApplyBatchRefused,
              IssueReceipt
<1>4. ASSUME NEW q \in Commands,
             TryAcquire(q) \/ Release(q) \/ Throw(q) \/ Crash(q) \/ LoseLock(q)
      PROVE  line'[p] = line[p]
  BY <1>4 DEF TryAcquire, Release, Throw, Crash, LoseLock
<1>5. CASE ProxyStep \/ UNCHANGED vars
  BY <1>5 DEF ProxyStep, vars
<1> QED
  BY <1>1, <1>2, <1>3, <1>4, <1>5 DEF Next, CommandStep

\* Only the transaction of an apply run deletes rows.
LEMMA OnlyApplyDeletes ==
    ASSUME IndInv, DryRunInv, [Next]_vars
    PROVE  \/ \E p \in Applies : ApplyBatch(p) \/ ApplyBatchUnacknowledged(p)
           \/ deleted' = deleted
<1>1. ASSUME NEW q \in DryRuns, DryRunStep(q)
      PROVE  deleted' = deleted
  BY <1>1, OwnStep
<1>2. ASSUME NEW q \in Applies, ReadInputs(q) \/ ApplyBatchRefused(q) \/ IssueReceipt(q)
      PROVE  deleted' = deleted
  BY <1>2 DEF ReadInputs, ApplyBatchRefused, IssueReceipt, tables
<1>3. ASSUME NEW q \in Commands,
             \/ Begin(q) \/ TryAcquire(q) \/ Release(q) \/ Throw(q) \/ Crash(q)
             \/ LoseLock(q)
      PROVE  deleted' = deleted
  BY <1>3 DEF Begin, TryAcquire, Release, Throw, Crash, LoseLock, tables
<1>4. CASE ProxyStep
  BY <1>4 DEF ProxyStep, Writers, CreateNewsletterEntry, SaveNewsletterNotification,
              SaveNewsletterNotificationOrphan, ReconcileNewsletterNotificationOrphan
<1>5. CASE UNCHANGED vars
  BY <1>5 DEF vars, tables
<1> QED
  BY <1>1, <1>2, <1>3, <1>4, <1>5 DEF Next, CommandStep, ApplyStep

\* A run stays within its limits while its place and the deleted rows stand.
LEMMA CappedKept ==
    ASSUME NEW p \in Applies, Capped(p),
           input'[p] = input[p], removed'[p] = removed[p],
           pc[p] # "idle" => line'[p] = line[p], DeletedBy(p)' = DeletedBy(p),
           pc'[p] \in {"lock", "apply"} => pc[p] \in {"lock", "apply"},
           pc[p] = "idle" => removed[p] = <<>>
    PROVE  Capped(p)'
  BY DEF Capped, Policy

\* The e-mail counts of a manifest are naturals.
LEMMA CountsOfEntries ==
    ASSUME NEW entries \in Seq(ManifestEntry)
    PROVE  /\ MessageCounts(entries) \in [1..Len(entries) -> Nat]
           /\ \A i \in 1..Len(entries) : MessageCounts(entries)[i] = entries[i].messageCount
<1>1. \A i \in 1..Len(entries) : entries[i].messageCount \in Nat
  <2> SUFFICES ASSUME NEW i \in 1..Len(entries) PROVE entries[i].messageCount \in Nat
    OBVIOUS
  <2>1. entries[i] \in ManifestEntry
    OBVIOUS
  <2> QED BY <2>1 DEF ManifestEntry
<1>2. DOMAIN entries = 1..Len(entries)
  OBVIOUS
<1> QED
  BY <1>1, <1>2 DEF MessageCounts

\* Admission compares the manifest with the run's own limits.
LEMMA AdmissionCaps ==
    ASSUME NEW p \in Applies, IndInv, DryRunInv, PublishInv, Report(p),
           ReadInputs(p), Admitted(p)
    PROVE  Capped(p)'
<1> DEFINE l == line[p]
           m == files[l.manifestFile]
           a == files[l.privateArtifactFile]
           new == [manifest |-> m, bindings |-> a.bindings, escrow |-> files[l.escrowFile]]
<1>1. /\ pc[p] = "read" /\ UNCHANGED <<deleted, line, removed>>
      /\ input' = [input EXCEPT ![p] = new]
  BY DEF ReadInputs, tables
<1>2. input'[p] = new
  BY <1>1 DEF IndInv, ControlInv
<1>3. removed'[p] = <<>>
  BY <1>1 DEF Report
<1>4. m.batches \in Seq(ManifestEntry)
  <2>1. l \in ApplyLines
    BY <1>1 DEF IndInv, ControlInv
  <2>2. l.manifestFile \in Paths
    BY <2>1, RetentionConstants
  <2>3. m # None /\ m.kind = "manifest"
    BY DEF Admitted, IsFile
  <2>4. m \in ManifestFile \cup EscrowFile \cup ArtifactFile
    BY <2>2, <2>3 DEF PublishInv, AllFiles
  <2> HIDE DEF m
  <2> QED BY <2>3, <2>4 DEF ManifestFile, EscrowFile, ArtifactFile
<1>5. /\ Len(a.bindings) = Len(m.batches)
      /\ Len(m.batches) <= l.policy.maxBatches
      /\ SumOver(MessageCounts(m.batches)) <= l.policy.maxMessages
  BY DEF Admitted, ParseApplyContext, MessageCounts
<1>6. DeletedBy(p)' = {} /\ Units(MessageCounts(m.batches), Len(removed'[p])) = {}
  BY <1>3 DEF DeletedBy, Units, Range
<1>7. new.manifest.batches = m.batches /\ new.bindings = a.bindings
  OBVIOUS
<1>8. Policy(p)' = l.policy
  BY <1>1 DEF Policy
<1> HIDE DEF new, m, a, l
<1>9. /\ Cardinality(DeletedBy(p)') = 0
      /\ Cardinality(Units(MessageCounts(m.batches), Len(removed'[p]))) = 0
  BY <1>6, FS_EmptySet
<1> QED
  BY <1>2, <1>4, <1>5, <1>7, <1>8, <1>9 DEF Capped

\* A deletion takes as many e-mails as the manifest counts for the batch.
LEMMA DeletionCaps ==
    ASSUME NEW p \in Applies, IndInv, DryRunInv, ReportInv, CapsInv, [Next]_vars,
           ApplyBatch(p) \/ ApplyBatchUnacknowledged(p)
    PROVE  CapsInv'
<1> DEFINE k == Current(p)
           b == input[p].bindings[k]
           entries == input[p].manifest.batches
           sizes == MessageCounts(entries)
<1>0. /\ p \in Commands /\ pc \in [Commands -> Labels]
      /\ completed \in [Applies -> Nat] /\ removed \in [Applies -> Seq(Batches)]
      /\ \A q \in Applies : q \in Commands /\ Report(q) /\ Capped(q)
      /\ TablesTypeOK
  BY DEF Commands, DryRunInv, IndInv, ControlInv, ReportInv, CapsInv
<1>1. /\ pc[p] = "apply" /\ k = completed[p] + 1 /\ k <= Len(input[p].bindings)
      /\ b \in batches
      /\ Cardinality(MessagesIn(b)) = entries[k].messageCount
      /\ DeleteBatch(b)
      /\ removed' = [removed EXCEPT ![p] = Append(@, b)]
      /\ UNCHANGED <<input, line>>
  BY DEF ApplyBatch, ApplyBatchUnacknowledged, HasNextBatch, Revalidated, Commit, Current,
         MatchesManifestBatch
<1>2. \A q \in Applies : q # p => pc'[q] = pc[q]
  BY <1>0 DEF ApplyBatch, ApplyBatchUnacknowledged, Fail, GoTo
<1>3. /\ entries \in Seq(ManifestEntry) /\ Len(entries) = Len(input[p].bindings)
      /\ Len(entries) <= Policy(p).maxBatches
      /\ SumOver(sizes) <= Policy(p).maxMessages
      /\ Cardinality(DeletedBy(p)) <= Cardinality(Units(sizes, Len(removed[p])))
  BY <1>0, <1>1 DEF Capped
<1>4. Len(removed[p]) = k - 1 /\ k \in 1..Len(entries)
  BY <1>0, <1>1, <1>3 DEF Report
<1>5. sizes \in [1..Len(entries) -> Nat] /\ sizes[k] = entries[k].messageCount
  <2> HIDE DEF entries, k
  <2> QED BY <1>3, <1>4, CountsOfEntries
<1>6. /\ batches' = batches \ {b}
      /\ \A m \in Messages : m \in deleted' => m \in deleted \/ m \in MessagesIn(b)
  <2>1. /\ batches' = batches \ {b}
        /\ deleted' = deleted \cup {b} \cup MessagesIn(b) \cup ErrorsIn(b)
                        \cup NotificationsOn(MessagesIn(b))
    BY <1>1 DEF DeleteBatch
  <2>2. /\ b \notin Messages
        /\ \A e \in ErrorsIn(b) : e \notin Messages
        /\ \A n \in NotificationsOn(MessagesIn(b)) : n \notin Messages
    BY <1>0, <1>1, TableConstants DEF ErrorsIn, NotificationsOn
  <2> HIDE DEF b
  <2> QED BY <2>1, <2>2
<1> HIDE DEF b, k, entries, sizes
<1>7. DeletedIsGone'
  BY <1>6 DEF CapsInv, DeletedIsGone, MessagesIn
<1>8. DeletedBy(p)' \subseteq DeletedBy(p) \cup MessagesIn(b)
  <2>1. \A x \in Range(removed'[p]) : x \in Range(removed[p]) \/ x = b
    <3>1. removed'[p] = Append(removed[p], b) /\ removed[p] \in Seq(Batches)
      BY <1>0, <1>1
    <3> QED BY <3>1 DEF Range
  <2>2. \A m \in deleted \cap Messages : BatchOf[m] # b
    BY <1>1 DEF CapsInv, DeletedIsGone
  <2> QED BY <1>6, <2>1, <2>2 DEF DeletedBy, MessagesIn
<1>9. Cardinality(DeletedBy(p)') <= Cardinality(Units(sizes, k))
  <2>1. IsFiniteSet(DeletedBy(p)) /\ Cardinality(DeletedBy(p)) \in Nat
    <3>1. DeletedBy(p) \subseteq Messages
      BY DEF DeletedBy
    <3> QED BY <3>1, TableConstants, FS_Subset, FS_CardinalityType
  <2>2. IsFiniteSet(MessagesIn(b)) /\ Cardinality(MessagesIn(b)) = sizes[k]
    BY <1>1, <1>5, FiniteTables
  <2>3. /\ IsFiniteSet(DeletedBy(p) \cup MessagesIn(b))
        /\ Cardinality(DeletedBy(p) \cup MessagesIn(b)) =
             Cardinality(DeletedBy(p)) + Cardinality(MessagesIn(b))
               - Cardinality(DeletedBy(p) \cap MessagesIn(b))
    BY <2>1, <2>2, FS_Union
  <2>4. Cardinality(DeletedBy(p) \cap MessagesIn(b)) \in Nat
    <3>1. DeletedBy(p) \cap MessagesIn(b) \subseteq DeletedBy(p)
      OBVIOUS
    <3>2. IsFiniteSet(DeletedBy(p) \cap MessagesIn(b))
      BY <2>1, <3>1, FS_Subset
    <3> QED BY <3>2, FS_CardinalityType
  <2>5. /\ Cardinality(DeletedBy(p)') <= Cardinality(DeletedBy(p) \cup MessagesIn(b))
        /\ Cardinality(DeletedBy(p)') \in Nat
    <3>1. /\ IsFiniteSet(DeletedBy(p)')
          /\ Cardinality(DeletedBy(p)') <= Cardinality(DeletedBy(p) \cup MessagesIn(b))
      BY <1>8, <2>3, FS_Subset
    <3> QED BY <3>1, FS_CardinalityType
  <2>6. /\ Cardinality(Units(sizes, k)) = Cardinality(Units(sizes, k - 1)) + sizes[k]
        /\ Cardinality(Units(sizes, k - 1)) \in Nat /\ sizes[k] \in Nat
    <3>1. Len(entries) \in Nat /\ k - 1 \in 0..Len(entries)
      BY <1>3, <1>4
    <3> QED BY <1>4, <1>5, <3>1, UnitsAdd
  <2>7. Cardinality(DeletedBy(p)) <= Cardinality(Units(sizes, k - 1))
    BY <1>3, <1>4
  <2> QED BY <2>1, <2>2, <2>3, <2>4, <2>5, <2>6, <2>7
<1>10. Capped(p)'
  <2>1. Len(removed'[p]) = k
    <3>1. removed'[p] = Append(removed[p], b) /\ removed[p] \in Seq(Batches)
      BY <1>0, <1>1
    <3> QED BY <1>4, <3>1
  <2>2. input'[p] = input[p] /\ Policy(p)' = Policy(p)
    BY <1>1 DEF Policy
  <2> QED BY <1>3, <1>9, <2>1, <2>2 DEF Capped, entries, sizes
<1>11. ASSUME NEW q \in Applies, q # p
       PROVE  Capped(q)'
  <2>1. /\ removed'[q] = removed[q] /\ pc'[q] = pc[q] /\ input'[q] = input[q]
        /\ line'[q] = line[q] /\ Capped(q) /\ Report(q)
    BY <1>0, <1>1, <1>2, <1>11
  <2>2. b \notin Range(removed[q])
    BY <1>0, <1>1, <2>1 DEF Report, Range
  <2>3. deleted \subseteq deleted'
    BY <1>1 DEF DeleteBatch
  <2>4. DeletedBy(q)' = DeletedBy(q)
    BY <1>6, <2>1, <2>2, <2>3 DEF DeletedBy, MessagesIn
  <2> QED BY <2>1, <2>4, CappedKept DEF IndInv, ControlInv
<1> QED
  BY <1>7, <1>10, <1>11 DEF CapsInv

\* Every step keeps the apply runs within their limits.
LEMMA NextCapsInv ==
    ASSUME IndInv, DryRunInv, PublishInv, ReportInv, CapsInv, [Next]_vars
    PROVE  CapsInv'
<1>0. /\ pc \in [Commands -> Labels] /\ DOMAIN input = Applies
      /\ \A q \in Applies : q \in Commands /\ Report(q) /\ Capped(q)
      /\ \A q \in Applies : pc[q] = "idle" => removed[q] = <<>>
  BY DEF DryRunInv, IndInv, ControlInv, ReportInv, CapsInv, Commands
<1>1. ASSUME NEW p \in Applies, ApplyBatch(p) \/ ApplyBatchUnacknowledged(p)
      PROVE  CapsInv'
  BY <1>1, DeletionCaps
<1>2. CASE deleted' = deleted
  <2>1. DeletedIsGone'
    BY <1>2, StepMovesTables DEF CapsInv, DeletedIsGone, TablesMove
  <2>2. ASSUME NEW q \in Applies, input'[q] = input[q], removed'[q] = removed[q],
               pc'[q] \in {"lock", "apply"} => pc[q] \in {"lock", "apply"}
        PROVE  Capped(q)'
    <3>1. DeletedBy(q)' = DeletedBy(q)
      BY <1>2, <2>2 DEF DeletedBy
    <3> QED BY <1>0, <2>2, <3>1, CappedKept, LinesStand
  <2>3. ASSUME NEW p \in Applies, ReadInputs(p), Admitted(p)
        PROVE  CapsInv'
    <3>1. Capped(p)'
      BY <1>0, <2>3, AdmissionCaps
    <3>2. ASSUME NEW q \in Applies, q # p
          PROVE  Capped(q)'
      <4>1. UNCHANGED removed /\ GoTo(p, "lock") /\ \E new : input' = [input EXCEPT ![p] = new]
        BY <2>3 DEF ReadInputs
      <4>2. pc'[q] = pc[q] /\ input'[q] = input[q] /\ removed'[q] = removed[q]
        BY <1>0, <3>2, <4>1 DEF GoTo
      <4> QED BY <2>2, <4>2
    <3> QED BY <2>1, <3>1, <3>2 DEF CapsInv
  <2>4. ASSUME NEW p \in Applies, IssueReceipt(p)
        PROVE  CapsInv'
    <3>1. UNCHANGED <<input, removed>> /\ GoTo(p, "release")
      BY <2>4 DEF IssueReceipt, Succeed, applying
    <3>2. \A q \in Applies : pc'[q] \in {"lock", "apply"} => pc[q] \in {"lock", "apply"}
      BY <1>0, <3>1 DEF GoTo
    <3> QED BY <2>1, <2>2, <3>1, <3>2 DEF CapsInv
  <2>5. CASE AppliesRest
    <3>1. \A q \in Applies : /\ input'[q] = input[q] /\ removed'[q] = removed[q]
                             /\ pc'[q] \in {"lock", "apply"} => pc[q] \in {"lock", "apply"}
      BY <2>5 DEF AppliesRest, ApplyMoved, Ended
    <3> QED BY <2>1, <2>2, <3>1 DEF CapsInv
  <2> QED BY <1>1, <2>3, <2>4, <2>5, ApplyFrame
<1> QED
  BY <1>1, <1>2, OnlyApplyDeletes

\* One apply run never deletes more batches or e-mails than its own limits
\* allow, with the files of whatever dry run, and however many runs overlap.
THEOREM LimitsHold == Spec => []WithinCaps
<1>1. Init => CapsInv
  <2> SUFFICES ASSUME Init PROVE CapsInv
    OBVIOUS
  <2>1. deleted = {}
    BY DEF Init, TablesInit
  <2>2. \A p \in Applies : pc[p] = "idle" /\ removed[p] = <<>>
    BY DEF Init, Commands
  <2> QED BY <2>1, <2>2 DEF CapsInv, DeletedIsGone, Capped
<1>2. RetentionInv /\ CapsInv /\ [Next]_vars => CapsInv'
  BY NextCapsInv DEF RetentionInv
<1>3. RetentionInv /\ CapsInv => WithinCaps
  <2> SUFFICES ASSUME IndInv, ReportInv, CapsInv,
                      NEW p \in Applies, removed[p] # <<>>
               PROVE  /\ Len(removed[p]) <= Policy(p).maxBatches
                      /\ Cardinality(DeletedBy(p)) <= Policy(p).maxMessages
    BY DEF RetentionInv, WithinCaps, DeletedBy
  <2> DEFINE entries == input[p].manifest.batches
             sizes == MessageCounts(entries)
             k == Len(removed[p])
  <2>1. /\ entries \in Seq(ManifestEntry) /\ Len(entries) = Len(input[p].bindings)
        /\ Len(entries) <= Policy(p).maxBatches
        /\ SumOver(sizes) <= Policy(p).maxMessages
        /\ Cardinality(DeletedBy(p)) <= Cardinality(Units(sizes, k))
    BY DEF CapsInv, Capped
  <2>2. k <= Len(input[p].bindings)
    BY DEF ReportInv, Report
  <2>3. /\ Policy(p).maxBatches \in Nat /\ Policy(p).maxMessages \in Nat
    <3>1. line[p] \in ApplyLines
      BY DEF IndInv, ControlInv
    <3> QED BY <3>1, RetentionConstants DEF Policy, Policies
  <2>4. k \in Nat /\ Len(entries) \in Nat
    BY <2>1 DEF IndInv, ControlInv
  <2>5. sizes \in [1..Len(entries) -> Nat]
    <3> HIDE DEF entries
    <3> QED BY <2>1, CountsOfEntries
  <2>6. Cardinality(DeletedBy(p)) \in Nat
    <3>1. DeletedBy(p) \subseteq Messages
      BY DEF DeletedBy
    <3> QED BY <3>1, TableConstants, FS_Subset, FS_CardinalityType
  <2> HIDE DEF entries, sizes, k
  <2>7. k \in 0..Len(entries)
    BY <2>1, <2>2, <2>4
  <2>8. /\ Cardinality(Units(sizes, k)) \in Nat
        /\ Cardinality(Units(sizes, k)) <= SumOver(sizes)
        /\ SumOver(sizes) \in Nat
    <3>1. SumOver(sizes) = Cardinality(Units(sizes, Len(entries)))
      BY <2>4, <2>5 DEF SumOver, Units
    <3> QED BY <2>4, <2>5, <2>7, <3>1, UnitsAdd
  <2>9. k <= Policy(p).maxBatches
    BY <2>1, <2>2, <2>3, <2>4
  <2>10. Cardinality(DeletedBy(p)) <= Policy(p).maxMessages
    BY <2>1, <2>3, <2>6, <2>8
  <2> QED BY <2>9, <2>10 DEF k
<1> QED
  BY <1>1, <1>2, <1>3, Reporting, PTL DEF Spec

----------------------------------------------------------------------------
(***************************************************************************)
(* The escrow file line by line. The accumulator knows a file by a small   *)
(* state; its inductive invariant says what each part of that state is a   *)
(* summary of. From it, accepting a record and the file being well-formed  *)
(* with that record are the same, one part of WellFormed at a time.        *)
(***************************************************************************)
LastRecord(s) == s[Len(s)]

\* The positions of a kind in the batch being consumed.
Now(k) == {i \in Positions(consumed, k) : consumed[i].index = index}

\* Where the accumulator stands: the index and the phase of the last record.
PlaceInv ==
    /\ consumed = <<>> => index = -1 /\ phase = 0
    /\ consumed # <<>> =>
          /\ index = LastRecord(consumed).index
          /\ phase = IF LastRecord(consumed).kind = "newsletterBatch" THEN 1
                     ELSE Rank[LastRecord(consumed).kind]
    /\ \A i, j \in DOMAIN consumed : i <= j => consumed[i].index <= consumed[j].index

\* What it keeps of the batch being consumed.
WithinBatchInv ==
    /\ \A k \in Kinds :
          /\ \A i \in Now(k) : consumed[i].id <= lastIds[k]
          /\ lastIds[k] # 0 => \E i \in Now(k) : consumed[i].id = lastIds[k]
    /\ consumed # <<>> => Now("newsletterBatch") # {}
    /\ \A i \in Now("newsletterBatch") : consumed[i].id = currentBatch
    /\ messageIds = {consumed[i].key : i \in Now("newsletterMessages")}

\* What it keeps of the whole file.
WholeFileInv ==
    \A k \in Kinds :
       /\ seenIds[k] = {consumed[i].id : i \in Positions(consumed, k)}
       /\ seenKeys[k] = {consumed[i].key : i \in Positions(consumed, k)}
       /\ counts[k] = Cardinality(Positions(consumed, k))

\* A record is refused once, and with reason.
RefusalInv ==
    refused # NoRecord =>
       /\ status = "failed"
       /\ header => ~WellFormed(Append(consumed, refused))

\* The footer agreed with the counts, and they do not change after it.
ResolvedInv == status \in {"footed", "verified"} => resolved = counts

\* Types, of the records consumed too.
AccumulatorTypes ==
    /\ header \in BOOLEAN
    /\ lastIds \in [Kinds -> Ids \cup {0}]
    /\ seenIds \in [Kinds -> SUBSET Ids]
    /\ seenKeys \in [Kinds -> SUBSET Ids]
    /\ currentBatch \in Ids \cup {0}
    /\ counts \in [Kinds -> Nat]
    /\ consumed \in Seq(Records)

AccumulatorInv ==
    /\ AccumulatorTypes
    /\ PlaceInv
    /\ WithinBatchInv
    /\ WholeFileInv
    /\ WellFormed(consumed)
    /\ RefusalInv
    /\ ResolvedInv

----------------------------------------------------------------------------
\* What a record is made of.
LEMMA RecordFields ==
    ASSUME NEW r \in Records
    PROVE  /\ r.kind \in Kinds /\ r.index \in Nat /\ r.id \in Nat \ {0} /\ r.key \in Nat \ {0}
           /\ r.ref \in Nat \ {0}
           /\ r.index \in Indexes /\ r.id \in Ids /\ r.key \in Ids /\ r.ref \in Ids
BY EscrowConstants DEF Records

\* The last id of a kind can be compared.
LEMMA LastIdIsNatural ==
    ASSUME lastIds \in [Kinds -> Ids \cup {0}], NEW k \in Kinds
    PROVE  lastIds[k] \in Nat
<1>1. Ids \subseteq Nat
  BY EscrowConstants
<1>2. lastIds[k] \in Ids \/ lastIds[k] = 0
  OBVIOUS
<1>3. CASE lastIds[k] \in Ids
  BY <1>1, <1>3
<1>4. CASE lastIds[k] = 0
  BY <1>4
<1> QED
  BY <1>2, <1>3, <1>4

\* The ranks of the phases; only a batch row has rank 0.
LEMMA Ranks ==
    /\ Rank["newsletterBatch"] = 0 /\ Rank["newsletterMessages"] = 1
    /\ Rank["newsletterErrors"] = 2 /\ Rank["newsletterNotifications"] = 3
    /\ \A k \in Kinds : Rank[k] \in 0..3 /\ (Rank[k] = 0 <=> k = "newsletterBatch")
BY DEF Rank, Kinds

\* t is s with one record more.
Continues(t, s, r) ==
    /\ s \in Seq(Records) /\ t \in Seq(Records) /\ r \in Records
    /\ Len(s) \in Nat
    /\ Len(t) = Len(s) + 1
    /\ DOMAIN s = 1..Len(s)
    /\ DOMAIN t = 1..(Len(s) + 1)
    /\ \A i \in 1..Len(s) : t[i] = s[i]
    /\ \A i \in 1..Len(s) : s[i] \in Records
    /\ t[Len(s) + 1] = r
    /\ t # <<>>
    /\ s = <<>> <=> Len(s) = 0

\* Append is such a continuation.
LEMMA AppendContinues ==
    ASSUME NEW s \in Seq(Records), NEW r \in Records
    PROVE  Continues(Append(s, r), s, r)
BY DEF Continues

\* The positions of each kind after one record more.
LEMMA PositionsContinue ==
    ASSUME NEW s, NEW t, NEW r, Continues(t, s, r), NEW k
    PROVE  /\ Positions(t, k) = Positions(s, k) \cup (IF r.kind = k THEN {Len(s) + 1} ELSE {})
           /\ IsFiniteSet(Positions(s, k))
           /\ Cardinality(Positions(s, k)) \in Nat
           /\ Cardinality(Positions(s, k)) <= Len(s)
           /\ Cardinality(Positions(t, k)) =
                Cardinality(Positions(s, k)) + (IF r.kind = k THEN 1 ELSE 0)
<1>1. Positions(t, k) = Positions(s, k) \cup (IF r.kind = k THEN {Len(s) + 1} ELSE {})
  BY DEF Continues, Positions
<1>2. Positions(s, k) \subseteq 1..Len(s) /\ Len(s) \in Nat
  BY DEF Continues, Positions
<1>3. IsFiniteSet(1..Len(s)) /\ Cardinality(1..Len(s)) = Len(s)
  BY <1>2, InitialSegment
<1>4. /\ IsFiniteSet(Positions(s, k))
      /\ Cardinality(Positions(s, k)) \in Nat
      /\ Cardinality(Positions(s, k)) <= Len(s)
  BY <1>2, <1>3, FS_Subset, FS_CardinalityType
<1>5. Len(s) + 1 \notin Positions(s, k)
  BY <1>2
<1>6. Cardinality(Positions(s, k) \cup {Len(s) + 1}) = Cardinality(Positions(s, k)) + 1
  BY <1>4, <1>5, FS_AddElement
<1>7. Cardinality(Positions(t, k)) = Cardinality(Positions(s, k)) + (IF r.kind = k THEN 1 ELSE 0)
  <2>1. CASE r.kind = k
    BY <1>1, <1>6, <2>1
  <2>2. CASE r.kind # k
    <3>1. Positions(t, k) = Positions(s, k)
      BY <1>1, <2>2
    <3>2. Cardinality(Positions(s, k)) + 0 = Cardinality(Positions(s, k))
      BY <1>4
    <3> QED
      BY <2>2, <3>1, <3>2
  <2> QED
    BY <2>1, <2>2
<1> QED
  BY <1>1, <1>4, <1>7

\* Which records continue a numbering with a batch row at the start of each batch.
LEMMA NumberedContinues ==
    ASSUME NEW s, NEW t, NEW r, Continues(t, s, r), Numbered(s), BatchRowFirst(s)
    PROVE  (Numbered(t) /\ BatchRowFirst(t)) <=>
           IF s = <<>> THEN r.index = 0 /\ r.kind = "newsletterBatch"
           ELSE \/ r.index = LastRecord(s).index + 1 /\ r.kind = "newsletterBatch"
                \/ r.index = LastRecord(s).index /\ r.kind # "newsletterBatch"
<1> DEFINE n == Len(s)
<1>1. n \in Nat /\ Len(t) = n + 1 /\ DOMAIN t = 1..(n + 1) /\ DOMAIN s = 1..n /\ t # <<>>
  BY DEF Continues
<1>2. ASSUME NEW i \in 1..n
      PROVE  t[i] = s[i] /\ s[i].index \in Nat
  BY <1>2, RecordFields DEF Continues
<1>3. t[n + 1] = r /\ r.index \in Nat /\ (s = <<>> <=> n = 0)
  BY RecordFields DEF Continues
<1>4. Numbered(t) <=> IF n = 0 THEN r.index = 0 ELSE r.index - s[n].index \in {0, 1}
  <2>1. CASE n = 0
    <3>1. t[1] = r
      BY <1>3, <2>1
    <3>2. 1..(Len(t) - 1) = {}
      BY <1>1, <2>1
    <3> QED
      BY <1>1, <2>1, <3>1, <3>2 DEF Numbered
  <2>2. CASE n # 0
    <3>1. t[1] = s[1] /\ t[n] = s[n] /\ s # <<>> /\ s[1].index = 0
      BY <1>1, <1>2, <1>3, <2>2 DEF Numbered
    <3>2. ASSUME NEW i \in 1..(n - 1)
          PROVE  t[i + 1].index - t[i].index \in {0, 1}
      <4>1. i \in 1..n /\ i + 1 \in 1..n
        BY <1>1
      <4>2. t[i] = s[i] /\ t[i + 1] = s[i + 1]
        BY <1>2, <4>1
      <4>3. s[i + 1].index - s[i].index \in {0, 1}
        BY <1>1 DEF Numbered
      <4> QED
        BY <4>2, <4>3
    <3>3. 1..(Len(t) - 1) = 1..(n - 1) \cup {n}
      BY <1>1, <2>2
    <3>4. (\A i \in 1..(Len(t) - 1) : t[i + 1].index - t[i].index \in {0, 1})
            <=> t[n + 1].index - t[n].index \in {0, 1}
      BY <3>2, <3>3
    <3> QED
      BY <1>1, <1>3, <2>2, <3>1, <3>4 DEF Numbered
  <2> QED
    BY <2>1, <2>2
<1>5. BatchRowFirst(t) <=> (r.kind = "newsletterBatch" <=> (n = 0 \/ s[n].index # r.index))
  <2>1. ASSUME NEW i \in 1..n
        PROVE  t[i].kind = "newsletterBatch" <=> (i = 1 \/ t[i - 1].index # t[i].index)
    <3>1. s[i].kind = "newsletterBatch" <=> (i = 1 \/ s[i - 1].index # s[i].index)
      BY <1>1 DEF BatchRowFirst
    <3>2. i # 1 => i - 1 \in 1..n
      BY <1>1
    <3> QED
      BY <1>2, <3>1, <3>2
  <2>2. DOMAIN t = 1..n \cup {n + 1}
    BY <1>1
  <2>3. BatchRowFirst(t) <=>
          (t[n + 1].kind = "newsletterBatch" <=> (n + 1 = 1 \/ t[n + 1 - 1].index # t[n + 1].index))
    BY <2>1, <2>2 DEF BatchRowFirst
  <2>4. n + 1 - 1 = n /\ (n + 1 = 1 <=> n = 0) /\ (n # 0 => t[n] = s[n])
    BY <1>1, <1>2
  <2> QED
    BY <1>3, <2>3, <2>4
<1>6. n # 0 => s[n].index \in Nat
  BY <1>1, <1>2
<1> QED
  BY <1>3, <1>4, <1>5, <1>6 DEF LastRecord

\* Which records continue the order within their batch.
LEMMA SortedContinues ==
    ASSUME NEW s, NEW t, NEW r, Continues(t, s, r), Sorted(s)
    PROVE  Sorted(t) <=>
           \A i \in DOMAIN s : s[i].index = r.index =>
              /\ Rank[s[i].kind] <= Rank[r.kind]
              /\ s[i].kind = r.kind => s[i].id < r.id
<1> DEFINE n == Len(s)
<1>1. n \in Nat /\ DOMAIN t = 1..n \cup {n + 1} /\ DOMAIN s = 1..n /\ t[n + 1] = r
  BY DEF Continues
<1>2. \A i \in 1..n : t[i] = s[i]
  BY DEF Continues
<1>3. ASSUME Sorted(t), NEW i \in DOMAIN s, s[i].index = r.index
      PROVE  /\ Rank[s[i].kind] <= Rank[r.kind]
             /\ s[i].kind = r.kind => s[i].id < r.id
  <2>1. i < n + 1 /\ i \in DOMAIN t /\ n + 1 \in DOMAIN t /\ t[i] = s[i]
    BY <1>1, <1>2
  <2> QED
    BY <1>1, <1>3, <2>1 DEF Sorted
<1>4. ASSUME \A i \in DOMAIN s : s[i].index = r.index =>
                /\ Rank[s[i].kind] <= Rank[r.kind]
                /\ s[i].kind = r.kind => s[i].id < r.id
      PROVE  Sorted(t)
  <2>1. SUFFICES ASSUME NEW i \in DOMAIN t, NEW j \in DOMAIN t, i < j, t[i].index = t[j].index
                 PROVE  /\ Rank[t[i].kind] <= Rank[t[j].kind]
                        /\ t[i].kind = t[j].kind => t[i].id < t[j].id
    BY DEF Sorted
  <2>2. i \in 1..n /\ t[i] = s[i]
    BY <1>1, <1>2, <2>1
  <2>3. CASE j = n + 1
    BY <1>1, <1>4, <2>1, <2>2, <2>3
  <2>4. CASE j \in 1..n
    BY <1>1, <1>2, <2>1, <2>2, <2>4 DEF Sorted
  <2> QED
    BY <1>1, <2>3, <2>4
<1> QED
  BY <1>3, <1>4

\* Which records bring an id and a key that are new for their kind.
LEMMA UniqueContinues ==
    ASSUME NEW s, NEW t, NEW r, Continues(t, s, r), Unique(s)
    PROVE  Unique(t) <=>
           \A i \in Positions(s, r.kind) : s[i].id # r.id /\ s[i].key # r.key
<1> DEFINE n == Len(s)
<1>1. n \in Nat /\ DOMAIN t = 1..n \cup {n + 1} /\ DOMAIN s = 1..n /\ t[n + 1] = r
  BY DEF Continues
<1>2. \A i \in 1..n : t[i] = s[i]
  BY DEF Continues
<1>3. ASSUME Unique(t), NEW i \in Positions(s, r.kind)
      PROVE  s[i].id # r.id /\ s[i].key # r.key
  <2>1. i # n + 1 /\ i \in DOMAIN t /\ n + 1 \in DOMAIN t /\ t[i] = s[i] /\ s[i].kind = r.kind
    BY <1>1, <1>2, <1>3 DEF Positions
  <2> QED
    BY <1>1, <1>3, <2>1 DEF Unique
<1>4. ASSUME \A i \in Positions(s, r.kind) : s[i].id # r.id /\ s[i].key # r.key
      PROVE  Unique(t)
  <2>1. SUFFICES ASSUME NEW i \in DOMAIN t, NEW j \in DOMAIN t, i # j, t[i].kind = t[j].kind
                 PROVE  t[i].id # t[j].id /\ t[i].key # t[j].key
    BY DEF Unique
  <2>2. CASE i \in 1..n /\ j \in 1..n
    BY <1>1, <1>2, <2>1, <2>2 DEF Unique
  <2>3. CASE i = n + 1
    BY <1>1, <1>2, <1>4, <2>1, <2>3 DEF Positions
  <2>4. CASE j = n + 1
    BY <1>1, <1>2, <1>4, <2>1, <2>4 DEF Positions
  <2> QED
    BY <1>1, <2>2, <2>3, <2>4
<1> QED
  BY <1>3, <1>4

\* RefersWithin by the kind of the record.
LEMMA RefersByKind ==
    ASSUME NEW s, NEW i, s[i].kind \in Kinds
    PROVE  RefersWithin(s, i) <=>
           /\ s[i].kind = "newsletterBatch" => s[i].ref = Site
           /\ s[i].kind = "newsletterNotifications" =>
                \E j \in Positions(s, "newsletterMessages") :
                   s[j].index = s[i].index /\ s[j].key = s[i].ref
           /\ s[i].kind \in {"newsletterMessages", "newsletterErrors"} =>
                \E j \in Positions(s, "newsletterBatch") :
                   s[j].index = s[i].index /\ s[j].id = s[i].ref
<1>1. CASE s[i].kind = "newsletterBatch"
  BY <1>1 DEF RefersWithin
<1>2. CASE s[i].kind = "newsletterNotifications"
  BY <1>2 DEF RefersWithin, Positions
<1>3. CASE s[i].kind = "newsletterMessages"
  BY <1>3 DEF RefersWithin, Positions
<1>4. CASE s[i].kind = "newsletterErrors"
  BY <1>4 DEF RefersWithin, Positions
<1> QED
  BY <1>1, <1>2, <1>3, <1>4 DEF Kinds

\* What r may refer to after the records of s.
RefersInto(s, r) ==
    /\ r.kind = "newsletterBatch" => r.ref = Site
    /\ r.kind = "newsletterNotifications" =>
         \E j \in Positions(s, "newsletterMessages") :
            s[j].index = r.index /\ s[j].key = r.ref
    /\ r.kind \in {"newsletterMessages", "newsletterErrors"} =>
         \E j \in Positions(s, "newsletterBatch") :
            s[j].index = r.index /\ s[j].id = r.ref

\* Earlier references stay good; only that of r is in question.
LEMMA RefersContinues ==
    ASSUME NEW s, NEW t, NEW r, Continues(t, s, r),
           \A i \in DOMAIN s : RefersWithin(s, i)
    PROVE  (\A i \in DOMAIN t : RefersWithin(t, i)) <=> RefersInto(s, r)
<1> DEFINE n == Len(s)
<1>1. n \in Nat /\ DOMAIN t = 1..n \cup {n + 1} /\ DOMAIN s = 1..n /\ t[n + 1] = r
  BY DEF Continues
<1>2. \A i \in 1..n : t[i] = s[i] /\ s[i].kind \in Kinds
  BY RecordFields DEF Continues
<1>3. r.kind \in Kinds
  BY RecordFields DEF Continues
<1>4. ASSUME NEW k, NEW i \in Positions(s, k)
      PROVE  i \in Positions(t, k) /\ t[i] = s[i]
  BY <1>1, <1>2, <1>4 DEF Positions
<1>5. ASSUME NEW i \in DOMAIN s
      PROVE  RefersWithin(t, i)
  <2>1. t[i] = s[i] /\ s[i].kind \in Kinds /\ RefersWithin(s, i)
    BY <1>1, <1>2
  <2>2. /\ s[i].kind = "newsletterBatch" => s[i].ref = Site
        /\ s[i].kind = "newsletterNotifications" =>
             \E j \in Positions(s, "newsletterMessages") :
                s[j].index = s[i].index /\ s[j].key = s[i].ref
        /\ s[i].kind \in {"newsletterMessages", "newsletterErrors"} =>
             \E j \in Positions(s, "newsletterBatch") :
                s[j].index = s[i].index /\ s[j].id = s[i].ref
    BY <2>1, RefersByKind
  <2>3. /\ t[i].kind = "newsletterBatch" => t[i].ref = Site
        /\ t[i].kind = "newsletterNotifications" =>
             \E j \in Positions(t, "newsletterMessages") :
                t[j].index = t[i].index /\ t[j].key = t[i].ref
        /\ t[i].kind \in {"newsletterMessages", "newsletterErrors"} =>
             \E j \in Positions(t, "newsletterBatch") :
                t[j].index = t[i].index /\ t[j].id = t[i].ref
    BY <1>4, <2>1, <2>2
  <2> QED
    BY <2>1, <2>3, RefersByKind
<1>6. RefersWithin(t, n + 1) <=> RefersInto(s, r)
  <2>1. ASSUME NEW k, r.kind # k
        PROVE  Positions(t, k) = Positions(s, k)
    BY <1>1, <1>2, <2>1 DEF Positions
  <2>2. /\ r.kind = "newsletterNotifications" =>
             Positions(t, "newsletterMessages") = Positions(s, "newsletterMessages")
        /\ r.kind \in {"newsletterMessages", "newsletterErrors"} =>
             Positions(t, "newsletterBatch") = Positions(s, "newsletterBatch")
    BY <2>1
  <2>3. RefersWithin(t, n + 1) <=>
          /\ r.kind = "newsletterBatch" => r.ref = Site
          /\ r.kind = "newsletterNotifications" =>
               \E j \in Positions(t, "newsletterMessages") :
                  t[j].index = r.index /\ t[j].key = r.ref
          /\ r.kind \in {"newsletterMessages", "newsletterErrors"} =>
               \E j \in Positions(t, "newsletterBatch") :
                  t[j].index = r.index /\ t[j].id = r.ref
    BY <1>1, <1>3, RefersByKind
  <2> QED
    BY <1>4, <2>2, <2>3 DEF RefersInto
<1> QED
  BY <1>1, <1>5, <1>6

\* Which records the limits leave room for.
LEMMA BoundedContinues ==
    ASSUME NEW s, NEW t, NEW r, Continues(t, s, r), Bounded(s)
    PROVE  Bounded(t) <=>
           /\ Len(s) < RecordLimit
           /\ r.kind = "newsletterBatch" =>
                Cardinality(Positions(s, "newsletterBatch")) < BatchLimit
           /\ r.kind = "newsletterMessages" =>
                Cardinality(Positions(s, "newsletterMessages")) < MessageLimit
<1>1. Len(s) \in Nat /\ Len(t) = Len(s) + 1
  BY DEF Continues
<1>2. RecordLimit \in Nat /\ BatchLimit \in Nat /\ MessageLimit \in Nat
  BY EscrowConstants
<1>3. ASSUME NEW k, NEW m \in Nat, Cardinality(Positions(s, k)) <= m
      PROVE  Cardinality(Positions(t, k)) <= m <=>
             (r.kind = k => Cardinality(Positions(s, k)) < m)
  <2>1. /\ Cardinality(Positions(s, k)) \in Nat
        /\ Cardinality(Positions(t, k)) =
             Cardinality(Positions(s, k)) + (IF r.kind = k THEN 1 ELSE 0)
    BY PositionsContinue
  <2>2. CASE r.kind = k
    <3>1. Cardinality(Positions(t, k)) = Cardinality(Positions(s, k)) + 1
      BY <2>1, <2>2
    <3> QED
      BY <2>1, <2>2, <3>1
  <2>3. CASE r.kind # k
    <3>1. Cardinality(Positions(t, k)) = Cardinality(Positions(s, k)) + 0
      BY <2>1, <2>3
    <3> QED
      BY <1>3, <2>1, <2>3, <3>1
  <2> QED
    BY <2>2, <2>3
<1>4. /\ Cardinality(Positions(t, "newsletterBatch")) <= BatchLimit <=>
           (r.kind = "newsletterBatch" => Cardinality(Positions(s, "newsletterBatch")) < BatchLimit)
      /\ Cardinality(Positions(t, "newsletterMessages")) <= MessageLimit <=>
           (r.kind = "newsletterMessages" =>
              Cardinality(Positions(s, "newsletterMessages")) < MessageLimit)
  BY <1>2, <1>3 DEF Bounded
<1>5. Len(t) <= RecordLimit <=> Len(s) < RecordLimit
  BY <1>1, <1>2
<1> QED
  BY <1>4, <1>5 DEF Bounded

\* The accumulator accepts a record after the header if and only if the records
\* with it are well-formed.
LEMMA AcceptableIsWellFormed ==
    ASSUME AccumulatorInv, header, NEW r \in Records
    PROVE  Acceptable(r) <=> WellFormed(Append(consumed, r))
<1> DEFINE s == consumed
           t == Append(consumed, r)
           n == Len(s)
           Placed == \/ StartsManifest(r)
                     \/ index # -1 /\ r.index = index /\ r.kind # "newsletterBatch"
<1>1. /\ Continues(t, s, r)
      /\ n \in Nat /\ DOMAIN s = 1..n
      /\ \A i \in 1..n : s[i] \in Records
      /\ s = <<>> <=> n = 0
  <2>1. Continues(t, s, r)
    BY AppendContinues DEF AccumulatorInv, AccumulatorTypes
  <2> QED
    BY <2>1 DEF Continues
<1> HIDE DEF s, t
<1>2. /\ Numbered(s) /\ BatchRowFirst(s) /\ Sorted(s) /\ Unique(s) /\ Bounded(s)
      /\ \A i \in DOMAIN s : RefersWithin(s, i)
  BY DEF AccumulatorInv, WellFormed, s
<1>3. /\ r.kind \in Kinds /\ r.index \in Nat /\ r.id \in Nat \ {0}
      /\ \A i \in 1..n : s[i].kind \in Kinds /\ s[i].index \in Nat /\ s[i].id \in Nat
  BY <1>1, RecordFields
<1>4. /\ n = 0 => index = -1 /\ phase = 0
      /\ n # 0 => /\ index = s[n].index
                  /\ phase = IF s[n].kind = "newsletterBatch" THEN 1 ELSE Rank[s[n].kind]
      /\ \A i, j \in 1..n : i <= j => s[i].index <= s[j].index
  BY <1>1 DEF AccumulatorInv, PlaceInv, LastRecord, s
<1>5. /\ n # 0 => index \in Nat /\ phase \in 1..3
      /\ \A i \in 1..n : s[i].index <= index
      /\ index \in Int /\ phase \in Int
  <2>1. n # 0 => n \in 1..n
    BY <1>1
  <2>2. n # 0 => index \in Nat
    BY <1>3, <1>4, <2>1
  <2>3. n # 0 => phase \in 1..3
    BY <1>3, <1>4, <2>1, Ranks
  <2>4. \A i \in 1..n : s[i].index <= index
    BY <1>1, <1>4
  <2> QED
    BY <1>4, <2>2, <2>3, <2>4
<1>6. (Numbered(t) /\ BatchRowFirst(t)) <=> Placed
  <2>1. (Numbered(t) /\ BatchRowFirst(t)) <=>
           IF s = <<>> THEN r.index = 0 /\ r.kind = "newsletterBatch"
           ELSE \/ r.index = s[n].index + 1 /\ r.kind = "newsletterBatch"
                \/ r.index = s[n].index /\ r.kind # "newsletterBatch"
    BY <1>1, <1>2, NumberedContinues DEF LastRecord
  <2>2. CASE n = 0
    BY <1>1, <1>3, <1>4, <2>1, <2>2 DEF StartsManifest
  <2>3. CASE n # 0
    BY <1>1, <1>3, <1>4, <1>5, <2>1, <2>3 DEF StartsManifest
  <2> QED
    BY <2>2, <2>3
<1>7. Placed => InSequence(r)
  BY DEF InSequence
<1>8. InSequence(r) /\ InOrder(r) => Placed
  <2>1. CASE n = 0
    BY <1>4, <2>1 DEF InSequence
  <2>2. CASE n # 0
    <3>1. SUFFICES ASSUME InSequence(r), InOrder(r), ~StartsManifest(r),
                          r.kind = "newsletterBatch"
                   PROVE  FALSE
      BY DEF InSequence
    <3>2. phase = 0
      BY <3>1 DEF InOrder
    <3> QED
      BY <1>5, <2>2, <3>2
  <2> QED
    BY <2>1, <2>2
<1>9. ASSUME Placed
      PROVE  Sorted(t) <=> InOrder(r)
  <2>1. Sorted(t) <=>
           \A i \in 1..n : s[i].index = r.index =>
              /\ Rank[s[i].kind] <= Rank[r.kind]
              /\ s[i].kind = r.kind => s[i].id < r.id
    BY <1>1, <1>2, SortedContinues
  <2>2. CASE StartsManifest(r)
    <3>1. \A i \in 1..n : s[i].index # r.index
      BY <1>3, <1>5, <2>2 DEF StartsManifest
    <3>2. InOrder(r)
      BY <1>3, <2>2 DEF InOrder, StartsManifest
    <3> QED
      BY <2>1, <3>1, <3>2
  <2>3. CASE ~StartsManifest(r)
    <3>1. index # -1 /\ r.index = index /\ r.kind # "newsletterBatch" /\ n # 0 /\ n \in 1..n
      BY <1>1, <1>4, <1>9, <2>3
    <3>2. InOrder(r) <=> Rank[r.kind] >= phase /\ lastIds[r.kind] < r.id
      BY <2>3, <3>1 DEF InOrder
    <3>3. Rank[r.kind] \in 1..3 /\ \A i \in 1..n : Rank[s[i].kind] \in 0..3
      BY <1>3, <3>1, Ranks
    <3>4. ASSUME NEW i \in 1..n, s[i].index = index
          PROVE  Rank[s[i].kind] <= Rank[s[n].kind]
      <4>1. CASE i = n
        BY <3>3, <4>1
      <4>2. CASE i < n
        BY <1>1, <1>2, <1>4, <3>1, <3>4, <4>2 DEF Sorted
      <4>3. i \in 1..n /\ n \in Nat
        BY <1>1, <3>4
      <4>4. i = n \/ i < n
        BY <4>3
      <4> QED
        BY <4>1, <4>2, <4>4
    <3>5. phase >= Rank[s[n].kind] /\ (phase = Rank[s[n].kind] \/ phase = 1)
      BY <1>3, <1>4, <3>1, Ranks
    <3>6. (\A i \in 1..n : s[i].index = r.index => Rank[s[i].kind] <= Rank[r.kind])
            <=> Rank[r.kind] >= phase
      <4>1. ASSUME \A i \in 1..n : s[i].index = r.index => Rank[s[i].kind] <= Rank[r.kind]
            PROVE  Rank[r.kind] >= phase
        <5>1. Rank[s[n].kind] <= Rank[r.kind]
          BY <1>4, <3>1, <4>1
        <5> QED
          BY <3>1, <3>3, <3>5, <5>1
      <4>2. ASSUME Rank[r.kind] >= phase, NEW i \in 1..n, s[i].index = r.index
            PROVE  Rank[s[i].kind] <= Rank[r.kind]
        <5>1. Rank[s[i].kind] <= Rank[s[n].kind]
          BY <3>1, <3>4, <4>2
        <5> QED
          BY <1>5, <3>1, <3>3, <3>5, <4>2, <5>1
      <4> QED
        BY <4>1, <4>2
    <3>7. /\ lastIds[r.kind] \in Nat
          /\ \A i \in 1..n : s[i].kind = r.kind /\ s[i].index = index => s[i].id <= lastIds[r.kind]
          /\ lastIds[r.kind] # 0 =>
                \E i \in 1..n : /\ s[i].kind = r.kind /\ s[i].index = index
                                /\ s[i].id = lastIds[r.kind]
      <4>1. lastIds[r.kind] \in Nat
        <5>1. lastIds \in [Kinds -> Ids \cup {0}]
          BY DEF AccumulatorInv, AccumulatorTypes
        <5> QED
          BY <1>3, <5>1, LastIdIsNatural
      <4>2. Now(r.kind) = {i \in 1..n : s[i].kind = r.kind /\ s[i].index = index}
        BY <1>1 DEF Now, Positions, s
      <4>3. /\ \A i \in Now(r.kind) : s[i].id <= lastIds[r.kind]
            /\ lastIds[r.kind] # 0 => \E i \in Now(r.kind) : s[i].id = lastIds[r.kind]
        BY <1>3 DEF AccumulatorInv, WithinBatchInv, s
      <4> QED
        BY <4>1, <4>2, <4>3
    <3>8. (\A i \in 1..n : s[i].index = r.index /\ s[i].kind = r.kind => s[i].id < r.id)
            <=> lastIds[r.kind] < r.id
      <4>1. ASSUME \A i \in 1..n : s[i].index = r.index /\ s[i].kind = r.kind => s[i].id < r.id
            PROVE  lastIds[r.kind] < r.id
        <5>1. CASE lastIds[r.kind] = 0
          BY <1>3, <5>1
        <5>2. CASE lastIds[r.kind] # 0
          BY <3>1, <3>7, <4>1, <5>2
        <5> QED
          BY <5>1, <5>2
      <4>2. ASSUME lastIds[r.kind] < r.id, NEW i \in 1..n, s[i].index = r.index, s[i].kind = r.kind
            PROVE  s[i].id < r.id
        <5>1. s[i].id <= lastIds[r.kind]
          BY <3>1, <3>7, <4>2
        <5> QED
          BY <1>3, <3>7, <4>2, <5>1
      <4> QED
        BY <4>1, <4>2
    <3> QED
      BY <2>1, <3>2, <3>6, <3>8
  <2> QED
    BY <2>2, <2>3
<1>10. ASSUME Placed
       PROVE  (\A i \in DOMAIN t : RefersWithin(t, i)) <=> RefersToBatch(r)
  <2>1. (\A i \in DOMAIN t : RefersWithin(t, i)) <=> RefersInto(s, r)
    BY <1>1, <1>2, RefersContinues
  <2>2. /\ consumed # <<>> => Now("newsletterBatch") # {}
        /\ \A i \in Now("newsletterBatch") : s[i].id = currentBatch
        /\ messageIds = {s[i].key : i \in Now("newsletterMessages")}
    BY DEF AccumulatorInv, WithinBatchInv, s
  <2>3. \A k : Now(k) = {i \in Positions(s, k) : s[i].index = index}
    BY DEF Now, s
  <2>4. CASE r.kind = "newsletterBatch"
    BY <2>1, <2>4 DEF RefersInto, RefersToBatch
  <2>5. CASE r.kind = "newsletterNotifications"
    <3>1. r.index = index
      BY <1>10, <2>5 DEF StartsManifest
    <3>2. RefersInto(s, r) <=>
             \E j \in Positions(s, "newsletterMessages") : s[j].index = r.index /\ s[j].key = r.ref
      BY <2>5 DEF RefersInto
    <3>3. RefersToBatch(r) <=> r.ref \in messageIds
      BY <2>5 DEF RefersToBatch
    <3> QED
      BY <2>1, <2>2, <2>3, <3>1, <3>2, <3>3
  <2>6. CASE r.kind \in {"newsletterMessages", "newsletterErrors"}
    <3>1. r.index = index /\ index # -1
      BY <1>10, <2>6 DEF StartsManifest
    <3>2. RefersInto(s, r) <=>
             \E j \in Positions(s, "newsletterBatch") : s[j].index = r.index /\ s[j].id = r.ref
      BY <2>6 DEF RefersInto
    <3>3. RefersToBatch(r) <=> r.ref = currentBatch
      BY <2>6 DEF RefersToBatch
    <3>4. Now("newsletterBatch") # {}
      BY <1>1, <1>4, <2>2, <3>1 DEF s
    <3> QED
      BY <2>1, <2>2, <2>3, <3>1, <3>2, <3>3, <3>4
  <2> QED
    BY <1>3, <2>4, <2>5, <2>6 DEF Kinds
<1>11. Unique(t) <=> IsUnique(r)
  <2>1. Unique(t) <=> \A i \in Positions(s, r.kind) : s[i].id # r.id /\ s[i].key # r.key
    BY <1>1, <1>2, UniqueContinues
  <2>2. /\ seenIds[r.kind] = {s[i].id : i \in Positions(s, r.kind)}
        /\ seenKeys[r.kind] = {s[i].key : i \in Positions(s, r.kind)}
    BY <1>3 DEF AccumulatorInv, WholeFileInv, s
  <2> QED
    BY <2>1, <2>2 DEF IsUnique
<1>12. Bounded(t) <=> WithinLimits(r)
  <2>1. \A k \in Kinds : counts[k] = Cardinality(Positions(s, k))
    BY DEF AccumulatorInv, WholeFileInv, s
  <2>2. Bounded(t) <=>
           /\ Len(s) < RecordLimit
           /\ r.kind = "newsletterBatch" =>
                Cardinality(Positions(s, "newsletterBatch")) < BatchLimit
           /\ r.kind = "newsletterMessages" =>
                Cardinality(Positions(s, "newsletterMessages")) < MessageLimit
    BY <1>1, <1>2, BoundedContinues
  <2>3. counts["newsletterBatch"] = Cardinality(Positions(s, "newsletterBatch"))
    BY <2>1 DEF Kinds
  <2>4. counts["newsletterMessages"] = Cardinality(Positions(s, "newsletterMessages"))
    BY <2>1 DEF Kinds
  <2> QED
    BY <2>2, <2>3, <2>4 DEF WithinLimits, s
<1>13. WellFormed(t) <=> /\ Placed /\ InOrder(r) /\ RefersToBatch(r) /\ IsUnique(r)
                         /\ WithinLimits(r)
  BY <1>6, <1>9, <1>10, <1>11, <1>12 DEF WellFormed
<1> QED
  BY <1>7, <1>8, <1>13 DEF Acceptable, t

\* The positions of the batch being consumed once r is accepted: those of a batch
\* that r starts, or one more.
LEMMA NowContinues ==
    ASSUME AccumulatorInv, NEW r \in Records, header, Acceptable(r), index' = r.index,
           consumed' = Append(consumed, r)
    PROVE  /\ Continues(consumed', consumed, r)
           /\ \A i \in DOMAIN consumed : consumed[i].index <= index
           /\ ~StartsManifest(r) => r.index = index /\ r.kind # "newsletterBatch" /\ consumed # <<>>
           /\ StartsManifest(r) => r.index = index + 1 /\ r.kind = "newsletterBatch"
           /\ index \in Int
           /\ \A k : Now(k)' = (IF StartsManifest(r) THEN {} ELSE Now(k)) \cup
                               (IF r.kind = k THEN {Len(consumed) + 1} ELSE {})
<1> DEFINE s == consumed
           n == Len(s)
<1>1. Continues(consumed', consumed, r)
  BY AppendContinues DEF AccumulatorInv, AccumulatorTypes
<1>2. /\ n \in Nat /\ DOMAIN s = 1..n /\ (s = <<>> <=> n = 0)
      /\ \A i \in 1..n : s[i] \in Records /\ s[i].index \in Nat
      /\ r.index \in Nat
  BY <1>1, RecordFields DEF Continues
<1>3. /\ s = <<>> => index = -1
      /\ s # <<>> => index = s[n].index
      /\ \A i, j \in 1..n : i <= j => s[i].index <= s[j].index
  BY <1>2 DEF AccumulatorInv, PlaceInv, LastRecord
<1>4. (\A i \in DOMAIN consumed : consumed[i].index <= index) /\ index \in Int
  <2>1. CASE n = 0
    BY <1>2, <1>3, <2>1
  <2>2. CASE n # 0
    <3>1. n \in 1..n /\ \A i \in 1..n : i <= n
      BY <1>2, <2>2
    <3> QED
      BY <1>2, <1>3, <2>2, <3>1
  <2> QED
    BY <2>1, <2>2
<1>5. Numbered(consumed') /\ BatchRowFirst(consumed') /\ Numbered(s) /\ BatchRowFirst(s)
  BY AcceptableIsWellFormed DEF WellFormed, AccumulatorInv
<1>6. IF s = <<>> THEN r.index = 0 /\ r.kind = "newsletterBatch"
      ELSE \/ r.index = s[n].index + 1 /\ r.kind = "newsletterBatch"
           \/ r.index = s[n].index /\ r.kind # "newsletterBatch"
  BY <1>1, <1>5, NumberedContinues DEF LastRecord
<1>7. /\ ~StartsManifest(r) => r.index = index /\ r.kind # "newsletterBatch" /\ consumed # <<>>
      /\ StartsManifest(r) => r.index = index + 1 /\ r.kind = "newsletterBatch"
  BY <1>3, <1>6 DEF StartsManifest
<1>8. ASSUME NEW k
      PROVE  Now(k)' = (IF StartsManifest(r) THEN {} ELSE Now(k)) \cup
                       (IF r.kind = k THEN {n + 1} ELSE {})
  <2>1. Positions(consumed', k) = Positions(s, k) \cup (IF r.kind = k THEN {n + 1} ELSE {})
    BY <1>1, PositionsContinue
  <2>2. /\ consumed'[n + 1] = r
        /\ \A i \in Positions(s, k) : i \in 1..n /\ consumed'[i] = s[i] /\ s[i].index \in Nat
    BY <1>1, <1>2 DEF Continues, Positions
  <2>3. Now(k)' = {i \in Positions(consumed', k) : consumed'[i].index = r.index}
    BY DEF Now, Positions
  <2>4. CASE StartsManifest(r)
    <3>1. \A i \in Positions(s, k) : consumed'[i].index # r.index
      BY <1>2, <1>4, <1>7, <2>2, <2>4
    <3> QED
      BY <2>1, <2>2, <2>3, <2>4, <3>1
  <2>5. CASE ~StartsManifest(r)
    <3>1. Now(k) = {i \in Positions(s, k) : consumed'[i].index = r.index}
      BY <1>7, <2>2, <2>5 DEF Now
    <3> QED
      BY <2>1, <2>2, <2>3, <2>5, <3>1
  <2> QED
    BY <2>4, <2>5
<1> QED
  BY <1>1, <1>4, <1>7, <1>8

\* A record that is accepted keeps what the accumulator knows.
LEMMA AcceptedKeepsAccumulator ==
    ASSUME AccumulatorInv, NEW r \in Records, status = "reading", Acceptable(r), ConsumeRecord(r)
    PROVE  AccumulatorInv'
<1> DEFINE s == consumed
           n == Len(s)
           Starts == StartsManifest(r)
<1>1. /\ header
      /\ index' = r.index
      /\ phase' = IF r.kind = "newsletterBatch" THEN 1 ELSE Rank[r.kind]
      /\ lastIds' = [k \in Kinds |-> IF k = r.kind THEN r.id ELSE IF Starts THEN 0 ELSE lastIds[k]]
      /\ seenIds' = [seenIds EXCEPT ![r.kind] = @ \cup {r.id}]
      /\ seenKeys' = [seenKeys EXCEPT ![r.kind] = @ \cup {r.key}]
      /\ currentBatch' = IF Starts THEN r.id ELSE currentBatch
      /\ messageIds' = (IF Starts THEN {} ELSE messageIds) \cup
                       (IF r.kind = "newsletterMessages" THEN {r.key} ELSE {})
      /\ counts' = [counts EXCEPT ![r.kind] = @ + 1]
      /\ consumed' = Append(consumed, r)
      /\ status' = status /\ header' = header /\ refused' = refused
  BY DEF ConsumeRecord, Acceptable
<1>2. /\ Continues(consumed', s, r)
      /\ \A i \in DOMAIN s : s[i].index <= index
      /\ ~Starts => r.index = index /\ r.kind # "newsletterBatch" /\ s # <<>>
      /\ Starts => r.index = index + 1 /\ r.kind = "newsletterBatch"
      /\ index \in Int
      /\ \A k : Now(k)' = (IF Starts THEN {} ELSE Now(k)) \cup
                          (IF r.kind = k THEN {n + 1} ELSE {})
  BY <1>1, NowContinues
<1>3. /\ n \in Nat /\ DOMAIN s = 1..n /\ DOMAIN consumed' = 1..(n + 1) /\ Len(consumed') = n + 1
      /\ consumed' \in Seq(Records) /\ consumed' # <<>> /\ consumed'[n + 1] = r
      /\ \A i \in 1..n : consumed'[i] = s[i] /\ s[i] \in Records /\ s[i].index \in Nat
                         /\ s[i].id \in Nat
  BY <1>2, RecordFields DEF Continues
<1>4. /\ r.kind \in Kinds /\ r.index \in Nat /\ r.id \in Nat \ {0}
      /\ r.index \in Indexes /\ r.id \in Ids /\ r.key \in Ids
  BY RecordFields
<1>5. /\ lastIds \in [Kinds -> Ids \cup {0}] /\ seenIds \in [Kinds -> SUBSET Ids]
      /\ seenKeys \in [Kinds -> SUBSET Ids] /\ currentBatch \in Ids \cup {0}
      /\ counts \in [Kinds -> Nat]
  BY DEF AccumulatorInv, AccumulatorTypes
<1>6. AccumulatorTypes'
  <2>1. header' \in BOOLEAN /\ consumed' \in Seq(Records) /\ currentBatch' \in Ids \cup {0}
    BY <1>1, <1>3, <1>4, <1>5
  <2>2. lastIds' \in [Kinds -> Ids \cup {0}]
    BY <1>1, <1>4, <1>5
  <2>3. seenIds' \in [Kinds -> SUBSET Ids] /\ seenKeys' \in [Kinds -> SUBSET Ids]
    BY <1>1, <1>4, <1>5
  <2>4. counts' \in [Kinds -> Nat]
    BY <1>1, <1>4, <1>5
  <2> QED
    BY <2>1, <2>2, <2>3, <2>4 DEF AccumulatorTypes
<1>7. PlaceInv'
  <2>1. LastRecord(consumed)' = r
    BY <1>3 DEF LastRecord
  <2>2. ASSUME NEW i \in 1..(n + 1), NEW j \in 1..(n + 1), i <= j
        PROVE  consumed'[i].index <= consumed'[j].index
    <3>1. CASE j \in 1..n
      <4>1. i \in 1..n /\ s[i].index <= s[j].index
        BY <1>3, <2>2, <3>1 DEF AccumulatorInv, PlaceInv
      <4> QED
        BY <1>3, <3>1, <4>1
    <3>2. CASE j = n + 1 /\ i \in 1..n
      BY <1>2, <1>3, <1>4, <3>2
    <3>3. CASE j = n + 1 /\ i = n + 1
      BY <1>3, <1>4, <3>3
    <3> QED
      BY <1>3, <3>1, <3>2, <3>3
  <2> QED
    BY <1>1, <1>3, <2>1, <2>2 DEF PlaceInv
<1>8. WholeFileInv'
  <2>1. SUFFICES ASSUME NEW k \in Kinds
                 PROVE  /\ seenIds'[k] = {consumed'[i].id : i \in Positions(consumed', k)}
                        /\ seenKeys'[k] = {consumed'[i].key : i \in Positions(consumed', k)}
                        /\ counts'[k] = Cardinality(Positions(consumed', k))
    BY DEF WholeFileInv, Positions
  <2>2. /\ seenIds[k] = {s[i].id : i \in Positions(s, k)}
        /\ seenKeys[k] = {s[i].key : i \in Positions(s, k)}
        /\ counts[k] = Cardinality(Positions(s, k))
    BY DEF AccumulatorInv, WholeFileInv
  <2>3. /\ Positions(consumed', k) = Positions(s, k) \cup (IF r.kind = k THEN {n + 1} ELSE {})
        /\ Cardinality(Positions(s, k)) \in Nat
        /\ Cardinality(Positions(consumed', k)) =
             Cardinality(Positions(s, k)) + (IF r.kind = k THEN 1 ELSE 0)
    BY <1>2, PositionsContinue
  <2>4. consumed'[n + 1] = r /\ \A i \in Positions(s, k) : consumed'[i] = s[i]
    BY <1>3 DEF Positions
  <2>5. CASE r.kind = k
    <3>1. seenIds'[k] = seenIds[k] \cup {r.id}
      BY <1>1, <1>5, <2>5
    <3>2. seenKeys'[k] = seenKeys[k] \cup {r.key}
      BY <1>1, <1>5, <2>5
    <3>3. counts'[k] = counts[k] + 1
      BY <1>1, <1>5, <2>5
    <3>4. Positions(consumed', k) = Positions(s, k) \cup {n + 1}
      BY <2>3, <2>5
    <3>5. {consumed'[i].id : i \in Positions(consumed', k)} =
            {s[i].id : i \in Positions(s, k)} \cup {r.id}
      BY <2>4, <3>4
    <3>6. {consumed'[i].key : i \in Positions(consumed', k)} =
            {s[i].key : i \in Positions(s, k)} \cup {r.key}
      BY <2>4, <3>4
    <3>7. counts'[k] = Cardinality(Positions(consumed', k))
      BY <2>2, <2>3, <2>5, <3>3
    <3> QED
      BY <2>2, <3>1, <3>2, <3>5, <3>6, <3>7
  <2>6. CASE r.kind # k
    <3>1. seenIds'[k] = seenIds[k] /\ seenKeys'[k] = seenKeys[k] /\ counts'[k] = counts[k]
      BY <1>1, <1>5, <2>6
    <3>2. Positions(consumed', k) = Positions(s, k)
      BY <2>3, <2>6
    <3> QED
      BY <2>2, <2>4, <3>1, <3>2
  <2> QED
    BY <2>5, <2>6
<1>9. WithinBatchInv'
  <2>1. \A k : \A i \in Now(k) : i \in 1..n /\ consumed'[i] = s[i]
    BY <1>3 DEF Now, Positions
  <2>2. /\ \A k \in Kinds :
             /\ \A i \in Now(k) : s[i].id <= lastIds[k]
             /\ lastIds[k] # 0 => \E i \in Now(k) : s[i].id = lastIds[k]
        /\ s # <<>> => Now("newsletterBatch") # {}
        /\ \A i \in Now("newsletterBatch") : s[i].id = currentBatch
        /\ messageIds = {s[i].key : i \in Now("newsletterMessages")}
    BY DEF AccumulatorInv, WithinBatchInv
  <2>3. ASSUME NEW k \in Kinds
        PROVE  /\ \A i \in Now(k)' : consumed'[i].id <= lastIds'[k]
               /\ lastIds'[k] # 0 => \E i \in Now(k)' : consumed'[i].id = lastIds'[k]
    <3>1. CASE Starts
      <4>1. Now(k)' = IF r.kind = k THEN {n + 1} ELSE {}
        BY <1>2, <3>1
      <4>2. lastIds'[k] = IF r.kind = k THEN r.id ELSE 0
        BY <1>1, <3>1
      <4> QED
        BY <1>3, <1>4, <4>1, <4>2
    <3>2. CASE ~Starts /\ r.kind = k
      <4>1. Now(k)' = Now(k) \cup {n + 1}
        BY <1>2, <3>2
      <4>2. lastIds'[k] = r.id
        BY <1>1, <3>2
      <4>3. lastIds[k] < r.id /\ lastIds[k] \in Nat
        <5>1. lastIds[k] < r.id
          BY <3>2 DEF Acceptable, InOrder
        <5> QED
          BY <1>5, <5>1, LastIdIsNatural
      <4>4. ASSUME NEW i \in Now(k)
            PROVE  consumed'[i].id <= r.id
        BY <1>3, <1>4, <2>1, <2>2, <4>3
      <4> QED
        BY <1>3, <1>4, <4>1, <4>2, <4>4
    <3>3. CASE ~Starts /\ r.kind # k
      <4>1. Now(k)' = Now(k)
        BY <1>2, <3>3
      <4>2. lastIds'[k] = lastIds[k]
        BY <1>1, <3>3
      <4> QED
        BY <2>1, <2>2, <4>1, <4>2
    <3> QED
      BY <3>1, <3>2, <3>3
  <2>4. /\ Now("newsletterBatch")' # {}
        /\ \A i \in Now("newsletterBatch")' : consumed'[i].id = currentBatch'
    <3>1. CASE Starts
      BY <1>1, <1>2, <1>3, <3>1
    <3>2. CASE ~Starts
      <4>1. Now("newsletterBatch")' = Now("newsletterBatch")
        BY <1>2, <3>2
      <4> QED
        BY <1>1, <1>2, <2>1, <2>2, <3>2, <4>1
    <3> QED
      BY <3>1, <3>2
  <2>5. messageIds' = {consumed'[i].key : i \in Now("newsletterMessages")'}
    <3>1. CASE Starts
      <4>1. Now("newsletterMessages")' = {}
        BY <1>2, <3>1
      <4>2. messageIds' = {}
        BY <1>1, <1>2, <3>1
      <4> QED
        BY <4>1, <4>2
    <3>2. CASE ~Starts /\ r.kind = "newsletterMessages"
      <4>1. Now("newsletterMessages")' = Now("newsletterMessages") \cup {n + 1}
        BY <1>2, <3>2
      <4>2. messageIds' = messageIds \cup {r.key}
        BY <1>1, <3>2
      <4> QED
        BY <1>3, <2>1, <2>2, <4>1, <4>2
    <3>3. CASE ~Starts /\ r.kind # "newsletterMessages"
      <4>1. Now("newsletterMessages")' = Now("newsletterMessages")
        BY <1>2, <3>3
      <4>2. messageIds' = messageIds
        BY <1>1, <3>3
      <4> QED
        BY <2>1, <2>2, <4>1, <4>2
    <3> QED
      BY <3>1, <3>2, <3>3
  <2> QED
    BY <2>3, <2>4, <2>5 DEF WithinBatchInv
<1>10. WellFormed(consumed)'
  <2>1. WellFormed(Append(consumed, r))
    BY <1>1, AcceptableIsWellFormed
  <2> QED
    BY <1>1, <2>1
<1>11. RefusalInv' /\ ResolvedInv'
  BY <1>1 DEF AccumulatorInv, RefusalInv, ResolvedInv
<1> QED
  BY <1>6, <1>7, <1>8, <1>9, <1>10, <1>11 DEF AccumulatorInv

\* Stretches of a sequence.
LEMMA Stretches ==
    ASSUME NEW s \in Seq(Records), NEW f \in Nat, NEW q \in Nat, f <= q, q <= Len(s)
    PROVE  /\ SubSeq(s, f + 1, q) \in Seq(Records)
           /\ f = q => SubSeq(s, f + 1, q) = <<>>
           /\ q < Len(s) => /\ s[q + 1] \in Records
                            /\ Append(SubSeq(s, f + 1, q), s[q + 1]) = SubSeq(s, f + 1, q + 1)
                            /\ SubSeq(s, q + 1, q + 1) = <<s[q + 1]>>
<1>1. Len(s) \in Nat /\ DOMAIN s = 1..Len(s) /\ \A i \in 1..Len(s) : s[i] \in Records
  OBVIOUS
<1>2. SubSeq(s, f + 1, q) \in Seq(Records)
  OBVIOUS
<1>3. f = q => SubSeq(s, f + 1, q) = <<>>
  OBVIOUS
<1>4. ASSUME q < Len(s)
      PROVE  /\ s[q + 1] \in Records
             /\ Append(SubSeq(s, f + 1, q), s[q + 1]) = SubSeq(s, f + 1, q + 1)
             /\ SubSeq(s, q + 1, q + 1) = <<s[q + 1]>>
  <2>1. s[q + 1] \in Records
    BY <1>1, <1>4
  <2>2. SubSeq(s, q + 1, q + 1) = <<s[q + 1]>>
    <3>1. q + 1 \in 1..Len(s) /\ q + 1 \in (q + 1)..Len(s) /\ q + 1 - 1 = q
      BY <1>1, <1>4
    <3>2. SubSeq(s, q + 1, q + 1) = SubSeq(s, q + 1, q) \o <<s[q + 1]>>
      BY <3>1, SubSeqRecursiveSecond
    <3>3. SubSeq(s, q + 1, q) = <<>>
      BY SubSeqEmpty
    <3>4. <<>> \o <<s[q + 1]>> = <<s[q + 1]>>
      BY <2>1
    <3> QED
      BY <3>2, <3>3, <3>4
  <2>3. Append(SubSeq(s, f + 1, q), s[q + 1]) = SubSeq(s, f + 1, q + 1)
    <3>1. f + 1 \in 1..Len(s) /\ q + 1 \in (f + 1)..Len(s) /\ q + 1 - 1 = q
      BY <1>1, <1>4
    <3>2. SubSeq(s, f + 1, q + 1) = SubSeq(s, f + 1, q) \o <<s[q + 1]>>
      BY <3>1, SubSeqRecursiveSecond
    <3>3. Append(SubSeq(s, f + 1, q), s[q + 1]) = SubSeq(s, f + 1, q) \o <<s[q + 1]>>
      BY <1>2, <2>1, AppendIsConcat
    <3> QED
      BY <3>2, <3>3
  <2> QED
    BY <2>1, <2>2, <2>3
<1> QED
  BY <1>2, <1>3, <1>4

----------------------------------------------------------------------------
(***************************************************************************)
(* Reading the verified file. While it is the file that was verified, the  *)
(* records handed out are a prefix of it: the batches returned, then the   *)
(* batch being collected, and at most one record of look-ahead after them, *)
(* which belongs to a later batch. Once the file was rewritten nothing is  *)
(* known of what is collected, but nothing is returned either.             *)
(***************************************************************************)
\* The records handed to the caller or collected for it, and the positions of the
\* batches before the m-th.
Handed == position - Len(pending)
Below(m) == {j \in DOMAIN consumed : consumed[j].index < m}

\* Before the first call.
ReaderStart ==
    /\ position = 0 /\ pending = <<>> /\ reading = Idle /\ returned = <<>> /\ touched = FALSE

ReaderTypes ==
    /\ status \in {"reading", "footed", "verified", "failed"}
    /\ touched \in BOOLEAN
    /\ position \in 0..Len(consumed)
    /\ Len(pending) \in {0, 1}
    /\ pending = <<>> <=> Len(pending) = 0
    /\ returned \in Seq(Seq(Records))
    /\ Len(returned) <= index + 1
    /\ reading # Idle => Len(returned) <= index

\* The batch being collected starts after f records.
Collects(f) ==
    /\ Below(Len(returned)) = 1..f
    /\ reading = [index |-> Len(returned), rows |-> SubSeq(consumed, f + 1, Handed)]
    /\ \A j \in (f + 1)..Handed : consumed[j].index = Len(returned)

ProgressInv ==
    /\ pending # <<>> => position > 0 /\ pending = <<consumed[position]>>
    /\ reading = Idle => Below(Len(returned)) = 1..Handed
    /\ reading # Idle => /\ \E f \in 0..Handed : Collects(f)
                         /\ pending # <<>> => consumed[position].index > Len(returned)

ReaderInv ==
    /\ status \in {"reading", "footed"} => ReaderStart
    /\ ReaderTypes
    /\ ~touched => ProgressInv
    /\ ReturnedIsVerified

\* A reader that has not started is in order whatever the accumulator does.
LEMMA ReaderStarts ==
    ASSUME ReaderStart', consumed' \in Seq(Records), 0 <= index' + 1,
           status' \in {"reading", "footed", "verified", "failed"}
    PROVE  ReaderInv'
<1>1. /\ position' = 0 /\ pending' = <<>> /\ reading' = Idle /\ returned' = <<>> /\ touched' = FALSE
  BY DEF ReaderStart
<1>2. Len(consumed') \in Nat /\ Len(pending') = 0 /\ Len(returned') = 0
  BY <1>1
<1>3. /\ DOMAIN consumed' = 1..Len(consumed')
      /\ \A j \in 1..Len(consumed') : consumed'[j].index \in Nat
  BY RecordFields
<1>4. ReaderTypes'
  <2>1. position' \in 0..Len(consumed')
    BY <1>1, <1>2
  <2>2. Len(pending') \in {0, 1} /\ (pending' = <<>> <=> Len(pending') = 0)
    BY <1>1, <1>2
  <2>3. returned' \in Seq(Seq(Records))
    BY <1>1
  <2>4. Len(returned') <= index' + 1
    <3>1. Len(returned') = 0
      BY <1>2
    <3> QED
      BY <3>1, Zenon
  <2> QED
    BY <1>1, <2>1, <2>2, <2>3, <2>4 DEF ReaderTypes
<1>5. ProgressInv'
  <2>1. Below(Len(returned))' = {}
    BY <1>2, <1>3 DEF Below
  <2>2. Handed' = 0
    <3>1. Handed' = position' - Len(pending')
      BY DEF Handed
    <3>2. position' = 0 /\ Len(pending') = 0
      BY <1>1, <1>2
    <3> QED
      BY <3>1, <3>2
  <2>3. 1..Handed' = {}
    BY <2>2
  <2> QED
    BY <1>1, <2>1, <2>3 DEF ProgressInv
<1>6. ReturnedIsVerified'
  BY <1>1 DEF ReturnedIsVerified
<1> QED
  BY <1>4, <1>5, <1>6 DEF ReaderInv

\* What the numbering says of the records of a verified file.
LEMMA NumberingFacts ==
    ASSUME AccumulatorInv
    PROVE  /\ consumed \in Seq(Records) /\ Len(consumed) \in Nat
           /\ DOMAIN consumed = 1..Len(consumed)
           /\ \A j \in 1..Len(consumed) : consumed[j] \in Records /\ consumed[j].index \in Nat
           /\ \A i, j \in 1..Len(consumed) : i <= j => consumed[i].index <= consumed[j].index
           /\ Len(consumed) > 0 => consumed[1].index = 0
           /\ \A j \in 2..Len(consumed) : consumed[j].index <= consumed[j - 1].index + 1
           /\ index \in Int /\ index + 1 \in Nat
           /\ Len(consumed) = 0 => index = -1
           /\ Len(consumed) > 0 => index = consumed[Len(consumed)].index
<1>1. consumed \in Seq(Records) /\ Len(consumed) \in Nat /\ DOMAIN consumed = 1..Len(consumed)
      /\ (consumed = <<>> <=> Len(consumed) = 0)
  BY DEF AccumulatorInv, AccumulatorTypes
<1>2. \A j \in 1..Len(consumed) : consumed[j] \in Records /\ consumed[j].index \in Nat
  BY <1>1, RecordFields
<1>3. \A i, j \in 1..Len(consumed) : i <= j => consumed[i].index <= consumed[j].index
  BY <1>1 DEF AccumulatorInv, PlaceInv
<1>4. Len(consumed) > 0 => consumed[1].index = 0
  BY <1>1 DEF AccumulatorInv, WellFormed, Numbered
<1>5. ASSUME NEW j \in 2..Len(consumed)
      PROVE  consumed[j].index <= consumed[j - 1].index + 1
  <2>1. j - 1 \in 1..(Len(consumed) - 1) /\ j - 1 + 1 = j
    BY <1>1
  <2>2. consumed[j - 1 + 1].index - consumed[j - 1].index \in {0, 1}
    BY <2>1 DEF AccumulatorInv, WellFormed, Numbered
  <2>3. consumed[j].index \in Nat /\ consumed[j - 1].index \in Nat
    BY <1>1, <1>2
  <2> QED
    BY <2>1, <2>2, <2>3
<1>6. /\ Len(consumed) = 0 => index = -1
      /\ Len(consumed) > 0 => index = consumed[Len(consumed)].index
  BY <1>1 DEF AccumulatorInv, PlaceInv, LastRecord
<1>7. index \in Int /\ index + 1 \in Nat
  <2>1. CASE Len(consumed) = 0
    BY <1>6, <2>1
  <2>2. CASE Len(consumed) > 0
    <3>1. Len(consumed) \in 1..Len(consumed)
      BY <1>1, <2>2
    <3> QED
      BY <1>2, <1>6, <2>2, <3>1
  <2> QED
    BY <1>1, <2>1, <2>2
<1> QED
  BY <1>1, <1>2, <1>3, <1>4, <1>5, <1>6, <1>7

\* Nothing is read: only the status or the file underneath changes.
LEMMA ReaderStays ==
    ASSUME ReaderInv, UNCHANGED <<accumulator, position, pending, reading, returned>>,
           touched' \in BOOLEAN, touched => touched',
           status' \in {"reading", "footed", "verified", "failed"},
           status' \in {"reading", "footed"} => status \in {"reading", "footed"} /\ touched' = touched
    PROVE  ReaderInv'
<1>1. /\ consumed' = consumed /\ index' = index /\ position' = position /\ pending' = pending
      /\ reading' = reading /\ returned' = returned
  BY DEF accumulator
<1>2. status' \in {"reading", "footed"} => ReaderStart'
  BY <1>1 DEF ReaderInv, ReaderStart
<1>3. ReaderTypes'
  BY <1>1 DEF ReaderInv, ReaderTypes
<1>4. ~touched' => ProgressInv'
  <2>1. SUFFICES ASSUME ~touched', ProgressInv
                 PROVE  ProgressInv'
    BY DEF ReaderInv
  <2>2. Handed' = Handed /\ Below(Len(returned))' = Below(Len(returned))
    BY <1>1 DEF Handed, Below
  <2>3. \A f : Collects(f)' <=> Collects(f)
    BY <1>1, <2>2 DEF Collects
  <2> QED
    BY <1>1, <2>1, <2>2, <2>3 DEF ProgressInv
<1>5. ReturnedIsVerified'
  BY <1>1 DEF ReaderInv, ReturnedIsVerified
<1> QED
  BY <1>2, <1>3, <1>4, <1>5 DEF ReaderInv

\* An error ends the reading.
LEMMA ReadFailsKeepsReader ==
    ASSUME ReaderInv, ReadFails
    PROVE  ReaderInv'
<1>1. /\ UNCHANGED <<accumulator, position, pending, reading, returned>> /\ touched' = touched
      /\ status' = "failed"
  BY DEF ReadFails, reader
<1>2. touched' \in BOOLEAN
  BY <1>1 DEF ReaderInv, ReaderTypes
<1> QED
  BY <1>1, <1>2, ReaderStays

\* The reader's position with and without look-ahead.
LEMMA CountsOfReader ==
    ASSUME AccumulatorInv, ReaderInv
    PROVE  /\ position \in Nat /\ position <= Len(consumed)
           /\ Len(pending) \in {0, 1} /\ (pending = <<>> <=> Len(pending) = 0)
           /\ Len(returned) \in Nat
           /\ Handed \in Int
           /\ pending = <<>> => Handed = position
           /\ pending # <<>> => Handed = position - 1
<1>1. Len(consumed) \in Nat
  BY NumberingFacts
<1>2. /\ position \in 0..Len(consumed)
      /\ Len(pending) \in {0, 1}
      /\ pending = <<>> <=> Len(pending) = 0
      /\ returned \in Seq(Seq(Records))
  BY DEF ReaderInv, ReaderTypes
<1>3. Len(returned) \in Nat
  BY <1>2
<1>4. /\ position \in Nat /\ position <= Len(consumed)
      /\ Len(pending) \in Nat
  BY <1>1, <1>2
<1>5. pending = <<>> => Handed = position
  BY <1>2, <1>4 DEF Handed
<1>6. pending # <<>> => Len(pending) = 1
  BY <1>2
<1>7. pending # <<>> => Handed = position - 1
  BY <1>6 DEF Handed
<1>8. Handed \in Int
  BY <1>4 DEF Handed
<1> QED
  BY <1>2, <1>3, <1>4, <1>5, <1>7, <1>8

\* A record of look-ahead is the first one of the batch asked for: no index is
\* skipped, so it cannot belong to a later batch.
LEMMA BeginBatchKeepsReader ==
    ASSUME AccumulatorInv, ReaderInv, BeginBatch
    PROVE  ReaderInv'
<1> DEFINE m == Len(returned)
<1>0. PICK f : f = Handed
  OBVIOUS
<1>1. CASE ~SameIdentity
  BY <1>1, ReadFailsKeepsReader DEF BeginBatch
<1>2. CASE SameIdentity
  <2>1. /\ status = "verified" /\ reading = Idle /\ m <= index /\ ~touched
        /\ reading' = [index |-> m, rows |-> pending]
        /\ pending' = <<>>
        /\ status' = status /\ touched' = touched /\ position' = position
        /\ returned' = returned
        /\ consumed' = consumed /\ index' = index
    BY <1>2 DEF BeginBatch, SameIdentity, accumulator
  <2>2. /\ position \in Nat /\ position <= Len(consumed) /\ m \in Nat /\ f \in Int
        /\ pending = <<>> => f = position
        /\ pending # <<>> => f = position - 1
    BY <1>0, CountsOfReader
  <2>3. /\ pending # <<>> => position > 0 /\ pending = <<consumed[position]>>
        /\ Below(m) = 1..f
    BY <1>0, <2>1 DEF ReaderInv, ProgressInv
  <2>4. Len(pending') = 0 /\ Handed' = position
    <3>1. Len(pending') = 0
      BY <2>1
    <3>2. Handed' = position' - Len(pending')
      BY DEF Handed
    <3> QED
      BY <2>1, <2>2, <3>1, <3>2
  <2>5. reading' # Idle
    BY <2>1 DEF Idle
  <2>6. ReaderTypes'
    BY <2>1, <2>4 DEF ReaderInv, ReaderTypes
  <2>7. ReturnedIsVerified'
    BY <2>1 DEF ReaderInv, ReturnedIsVerified
  <2>8. /\ f \in 0..position
        /\ pending = SubSeq(consumed, f + 1, position)
        /\ \A j \in (f + 1)..position : consumed[j].index = m
    <3>1. CASE pending = <<>>
      <4>1. SubSeq(consumed, f + 1, position) = <<>>
        BY <2>2, <3>1, NumberingFacts, Stretches
      <4> QED
        BY <2>2, <3>1, <4>1
    <3>2. CASE pending # <<>>
      <4>1. f \in Nat /\ f + 1 = position /\ f <= position /\ f < Len(consumed)
            /\ position \in 1..Len(consumed)
        BY <2>2, <2>3, <3>2, NumberingFacts
      <4>2. SubSeq(consumed, f + 1, position) = <<consumed[position]>>
        <5>0. consumed \in Seq(Records) /\ f <= f /\ f <= Len(consumed)
          BY <4>1, NumberingFacts
        <5>1. SubSeq(consumed, f + 1, f + 1) = <<consumed[f + 1]>>
          BY <4>1, <5>0, Stretches
        <5> QED
          BY <4>1, <5>1
      <4>3. consumed[position].index \in Nat
        BY <4>1, NumberingFacts
      <4>4. consumed[position].index >= m
        <5>1. position \notin Below(m)
          BY <2>3, <4>1
        <5> QED
          BY <2>2, <4>1, <4>3, <5>1, NumberingFacts DEF Below
      <4>5. consumed[position].index <= m
        <5>1. CASE position = 1
          BY <2>2, <4>1, <5>1, NumberingFacts
        <5>2. CASE position > 1
          <6>1. position \in 2..Len(consumed) /\ position - 1 \in 1..f
                /\ position - 1 \in 1..Len(consumed)
            BY <4>1, <5>2
          <6>2. consumed[position - 1].index < m /\ consumed[position - 1].index \in Nat
            BY <2>3, <6>1, NumberingFacts DEF Below
          <6>3. consumed[position].index <= consumed[position - 1].index + 1
            BY <6>1, NumberingFacts
          <6> QED
            BY <2>2, <4>3, <6>2, <6>3
        <5> QED
          BY <4>1, <5>1, <5>2
      <4>6. consumed[position].index = m
        BY <2>2, <4>3, <4>4, <4>5
      <4>7. \A j \in (f + 1)..position : j = position
        BY <4>1
      <4> QED
        BY <2>3, <3>2, <4>1, <4>2, <4>6, <4>7
    <3> QED
      BY <3>1, <3>2
  <2>9. Collects(f)'
    <3>1. Below(Len(returned))' = Below(m)
      BY <2>1 DEF Below
    <3> QED
      BY <2>1, <2>3, <2>4, <2>8, <3>1 DEF Collects
  <2>10. ProgressInv'
    <3>1. \E g \in 0..Handed' : Collects(g)'
      BY <2>4, <2>8, <2>9
    <3> QED
      BY <2>1, <2>5, <3>1 DEF ProgressInv
  <2> QED
    BY <2>1, <2>6, <2>7, <2>10 DEF ReaderInv
<1> QED
  BY <1>1, <1>2

\* The next record joins the batch or becomes the look-ahead.
LEMMA NextRecordKeepsReader ==
    ASSUME AccumulatorInv, ReaderInv, NEW r \in Yielded, NextRecord(r)
    PROVE  ReaderInv'
<1> DEFINE m == Len(returned)
<1>1. CASE r.index < reading.index
  BY <1>1, ReadFailsKeepsReader DEF NextRecord
<1>2. CASE ~(r.index < reading.index)
  <2>1. /\ status = "verified" /\ reading # Idle /\ pending = <<>> /\ position < Len(consumed)
        /\ position' = position + 1
        /\ IF r.index > reading.index
             THEN pending' = <<r>> /\ reading' = reading
             ELSE reading' = [reading EXCEPT !.rows = Append(@, r)] /\ pending' = pending
        /\ status' = status /\ touched' = touched /\ returned' = returned
        /\ consumed' = consumed /\ index' = index
    BY <1>2 DEF NextRecord, accumulator
  <2>2. /\ position \in Nat /\ m \in Nat /\ Handed = position
        /\ Len(pending) = 0
    BY <2>1, CountsOfReader
  <2>3. Len(pending') \in {0, 1} /\ (pending' = <<>> <=> Len(pending') = 0)
    BY <2>1, <2>2
  <2>4. position + 1 \in 1..Len(consumed) /\ position' \in 0..Len(consumed')
    BY <2>1, <2>2, NumberingFacts
  <2>5. ReaderTypes'
    <3>1. m <= index
      BY <2>1 DEF ReaderInv, ReaderTypes
    <3> QED
      BY <2>1, <2>3, <2>4, <3>1 DEF ReaderInv, ReaderTypes
  <2>6. ReturnedIsVerified'
    BY <2>1 DEF ReaderInv, ReturnedIsVerified
  <2>7. ASSUME ~touched
        PROVE  ProgressInv'
    <3>1. r = consumed[position + 1]
      BY <2>4, <2>7, NumberingFacts DEF Yielded
    <3>2. PICK f \in 0..position : Collects(f)
      BY <2>1, <2>2, <2>7 DEF ReaderInv, ProgressInv
    <3>3. /\ Below(m) = 1..f
          /\ reading = [index |-> m, rows |-> SubSeq(consumed, f + 1, position)]
          /\ \A j \in (f + 1)..position : consumed[j].index = m
      BY <2>2, <3>2 DEF Collects
    <3>4. Below(Len(returned))' = Below(m)
      BY <2>1 DEF Below
    <3>5. reading.index = m /\ r.index \in Nat
      BY <2>4, <3>1, <3>3, NumberingFacts
    <3>6. CASE r.index > m
      <4>1. pending' = <<r>> /\ reading' = reading /\ Len(pending') = 1
        BY <2>1, <3>5, <3>6
      <4>2. Handed' = position
        <5>1. Handed' = position' - Len(pending')
          BY DEF Handed
        <5> QED
          BY <2>1, <2>2, <4>1, <5>1
      <4>3. Collects(f)'
        BY <2>1, <3>3, <3>4, <4>1, <4>2 DEF Collects
      <4>4. pending' = <<consumed'[position']>> /\ position' > 0
            /\ consumed'[position'].index > Len(returned')
        BY <2>1, <2>2, <3>1, <3>6, <4>1
      <4> QED
        BY <2>1, <4>1, <4>2, <4>3, <4>4 DEF ProgressInv
    <3>7. CASE ~(r.index > m)
      <4>1. reading' = [reading EXCEPT !.rows = Append(@, r)] /\ pending' = <<>>
            /\ Len(pending') = 0
        BY <2>1, <2>2, <3>5, <3>7
      <4>2. Handed' = position + 1
        <5>1. Handed' = position' - Len(pending')
          BY DEF Handed
        <5> QED
          BY <2>1, <2>2, <4>1, <5>1
      <4>3. reading' = [index |-> m, rows |-> SubSeq(consumed, f + 1, position + 1)]
        <5>1. Append(SubSeq(consumed, f + 1, position), consumed[position + 1]) =
                SubSeq(consumed, f + 1, position + 1)
          <6>1. f \in Nat /\ f <= position /\ position <= Len(consumed)
            BY <2>2, <2>4, <3>2
          <6>2. consumed \in Seq(Records)
            BY NumberingFacts
          <6> QED
            BY <2>1, <2>2, <6>1, <6>2, Stretches
        <5> QED
          BY <3>1, <3>3, <4>1, <5>1
      <4>4. r.index = m
        BY <1>2, <2>2, <3>5, <3>7
      <4>5. \A j \in (f + 1)..(position + 1) : consumed[j].index = m
        <5>1. \A j \in (f + 1)..(position + 1) : j \in (f + 1)..position \/ j = position + 1
          BY <2>2
        <5> QED
          BY <3>1, <3>3, <4>4, <5>1
      <4>6. Collects(f)' /\ f \in 0..(position + 1)
        BY <2>1, <2>2, <3>3, <3>4, <4>2, <4>3, <4>5 DEF Collects
      <4>7. reading' # Idle
        BY <4>3 DEF Idle
      <4> QED
        BY <4>1, <4>2, <4>6, <4>7 DEF ProgressInv
    <3> QED
      BY <3>6, <3>7
  <2> QED
    BY <2>1, <2>5, <2>6, <2>7 DEF ReaderInv
<1> QED
  BY <1>1, <1>2

\* What is returned is the whole batch: the records after it have a greater index.
LEMMA EndBatchKeepsReader ==
    ASSUME AccumulatorInv, ReaderInv, EndBatch
    PROVE  ReaderInv'
<1>0. PICK m, n : m = Len(returned) /\ n = Len(consumed)
  OBVIOUS
<1>1. CASE ~SameIdentity
  BY <1>1, ReadFailsKeepsReader DEF EndBatch
<1>2. CASE SameIdentity
  <2>1. /\ status = "verified" /\ reading # Idle /\ ~touched
        /\ pending # <<>> \/ position = n
        /\ returned' = Append(returned, reading.rows) /\ reading' = Idle
        /\ status' = status /\ touched' = touched /\ position' = position /\ pending' = pending
        /\ consumed' = consumed /\ index' = index
    BY <1>0, <1>2 DEF EndBatch, SameIdentity, accumulator
  <2>2. /\ position \in Nat /\ position <= n /\ m \in Nat /\ Handed \in Int
        /\ pending = <<>> => Handed = position
        /\ pending # <<>> => Handed = position - 1
    BY <1>0, CountsOfReader
  <2>3. /\ pending # <<>> => position > 0 /\ pending = <<consumed[position]>>
        /\ pending # <<>> => consumed[position].index > m
        /\ \E f \in 0..Handed : Collects(f)
    BY <1>0, <2>1 DEF ReaderInv, ProgressInv
  <2>4. PICK f \in 0..Handed : Collects(f)
    BY <2>3
  <2>5. PICK q : q = Handed
    OBVIOUS
  <2>6. /\ Below(m) = 1..f
        /\ reading.rows = SubSeq(consumed, f + 1, q)
        /\ \A j \in (f + 1)..q : consumed[j].index = m
    BY <1>0, <2>4, <2>5 DEF Collects
  <2>7. /\ n \in Nat /\ f \in Nat /\ q \in Nat /\ f <= q /\ q <= n
        /\ pending # <<>> => position \in 1..n /\ position = q + 1
        /\ pending = <<>> => q = n
    <3>1. n \in Nat
      BY <1>0, NumberingFacts
    <3>2. q \in Int /\ f \in 0..q
      BY <2>2, <2>4, <2>5
    <3>3. CASE pending = <<>>
      BY <2>1, <2>2, <2>5, <3>1, <3>2, <3>3
    <3>4. CASE pending # <<>>
      BY <2>2, <2>3, <2>5, <3>1, <3>2, <3>4
    <3> QED
      BY <3>3, <3>4
  <2>8. reading.rows \in Seq(Records)
    <3>1. consumed \in Seq(Records)
      BY NumberingFacts
    <3>2. SubSeq(consumed, f + 1, q) \in Seq(Records)
      BY <1>0, <2>7, <3>1, Stretches
    <3> QED
      BY <2>6, <3>2
  <2>9. /\ returned \in Seq(Seq(Records)) /\ returned' \in Seq(Seq(Records))
        /\ Len(returned') = m + 1
        /\ DOMAIN returned = 1..m /\ DOMAIN returned' = 1..(m + 1)
        /\ \A i \in 1..m : returned'[i] = returned[i]
        /\ returned'[m + 1] = reading.rows
    <3>1. returned \in Seq(Seq(Records))
      BY DEF ReaderInv, ReaderTypes
    <3> QED
      BY <1>0, <2>1, <2>2, <2>8, <3>1, AppendProperties
  <2>10. /\ \A j \in 1..n : consumed[j].index \in Nat
         /\ \A i, j \in 1..n : i <= j => consumed[i].index <= consumed[j].index
         /\ DOMAIN consumed = 1..n
    BY <1>0, NumberingFacts
  <2>11. \A j \in 1..n : j > q => consumed[j].index > m
    <3>1. CASE pending = <<>>
      BY <2>7, <3>1
    <3>2. CASE pending # <<>>
      <4>1. SUFFICES ASSUME NEW j \in 1..n, j > q
                     PROVE  consumed[j].index > m
        OBVIOUS
      <4>2. position <= j /\ position \in 1..n
        BY <2>7, <3>2, <4>1
      <4>3. consumed[position].index <= consumed[j].index /\ consumed[position].index > m
        BY <2>3, <2>10, <3>2, <4>2
      <4> QED
        BY <2>2, <2>10, <4>2, <4>3
    <3> QED
      BY <3>1, <3>2
  <2>12. \A j \in 1..n : /\ j <= f <=> consumed[j].index < m
                         /\ j > f /\ j <= q => consumed[j].index = m
    <3>1. ASSUME NEW j \in 1..n
          PROVE  j <= f <=> consumed[j].index < m
      <4>1. j \in Below(m) <=> consumed[j].index < m
        BY <2>10 DEF Below
      <4>2. j \in 1..f <=> j <= f
        BY <2>7
      <4> QED
        BY <2>6, <4>1, <4>2
    <3>2. ASSUME NEW j \in 1..n, j > f, j <= q
          PROVE  consumed[j].index = m
      BY <2>6, <2>7, <3>2
    <3> QED
      BY <3>1, <3>2
  <2>13. {j \in 1..n : consumed[j].index = m} = (f + 1)..q
    <3>1. ASSUME NEW j \in 1..n
          PROVE  consumed[j].index = m <=> j \in (f + 1)..q
      <4>1. CASE j <= f
        BY <2>2, <2>7, <2>10, <2>12, <4>1
      <4>2. CASE j > f /\ j <= q
        BY <2>7, <2>12, <4>2
      <4>3. CASE j > q
        BY <2>2, <2>7, <2>10, <2>11, <4>3
      <4> QED
        BY <2>7, <4>1, <4>2, <4>3
    <3>2. (f + 1)..q \subseteq 1..n
      BY <2>7
    <3> QED
      BY <3>1, <3>2
  <2>14. Below(m + 1) = 1..q
    <3>1. ASSUME NEW j \in 1..n
          PROVE  j <= q <=> consumed[j].index < m + 1
      BY <2>2, <2>7, <2>10, <2>11, <2>12
    <3>2. Below(m + 1) = {j \in 1..n : consumed[j].index < m + 1}
      BY <2>10 DEF Below
    <3>3. 1..q = {j \in 1..n : j <= q}
      BY <2>7
    <3> QED
      BY <3>1, <3>2, <3>3
  <2>15. m <= index
    BY <1>0, <2>1 DEF ReaderInv, ReaderTypes
  <2>16. f < q
    <3>1. SUFFICES ASSUME f = q PROVE FALSE
      BY <2>7
    <3>2. n > 0 /\ consumed[n].index >= m /\ n \in 1..n
      <4>1. /\ n = 0 => index = -1
            /\ n > 0 => index = consumed[n].index
        BY <1>0, NumberingFacts
      <4>2. n > 0
        BY <2>2, <2>7, <2>15, <4>1
      <4> QED
        BY <2>2, <2>7, <2>10, <2>15, <4>1, <4>2
    <3>3. f < n
      BY <2>2, <2>7, <2>10, <2>12, <3>2
    <3>4. f + 1 \in 1..n /\ consumed[f + 1].index > m
      BY <2>7, <2>11, <3>1, <3>3
    <3>5. CASE f = 0
      BY <1>0, <2>2, <3>2, <3>4, <3>5, NumberingFacts
    <3>6. CASE f > 0
      <4>1. f + 1 \in 2..n /\ f + 1 - 1 = f /\ f \in 1..n
        BY <2>7, <3>4, <3>6
      <4>2. consumed[f + 1].index <= consumed[f].index + 1
        BY <1>0, <4>1, NumberingFacts
      <4>3. consumed[f].index < m
        BY <2>7, <2>12, <4>1
      <4> QED
        BY <2>2, <2>10, <3>4, <4>1, <4>2, <4>3
    <3> QED
      BY <2>7, <3>5, <3>6
  <2>17. Handed' = q
    BY <2>1, <2>5 DEF Handed
  <2>18. Below(Len(returned))' = 1..q
    <3>1. Below(Len(returned))' = {j \in DOMAIN consumed : consumed[j].index < m + 1}
      BY <2>1, <2>9 DEF Below
    <3> QED
      BY <2>14, <3>1 DEF Below
  <2>19. ProgressInv'
    BY <2>1, <2>3, <2>17, <2>18 DEF ProgressInv
  <2>20. ReaderTypes'
    <3>1. Len(returned') <= index' + 1
      <4>1. index \in Int
        BY NumberingFacts
      <4>2. m + 1 <= index + 1
        BY <2>2, <2>15, <4>1
      <4> QED
        BY <2>1, <2>9, <4>2
    <3> QED
      BY <2>1, <2>9, <3>1 DEF ReaderInv, ReaderTypes
  <2>21. ReturnedIsVerified'
    <3>1. SUFFICES ASSUME NEW i \in 1..(m + 1)
                   PROVE  \E first, last \in DOMAIN consumed :
                             /\ {j \in DOMAIN consumed : consumed[j].index = i - 1} = first..last
                             /\ returned'[i] = SubSeq(consumed, first, last)
      BY <2>1, <2>9 DEF ReturnedIsVerified
    <3>2. CASE i \in 1..m
      <4>1. \E first, last \in DOMAIN consumed :
               /\ {j \in DOMAIN consumed : consumed[j].index = i - 1} = first..last
               /\ returned[i] = SubSeq(consumed, first, last)
        BY <2>9, <3>2 DEF ReaderInv, ReturnedIsVerified
      <4> QED
        BY <2>9, <3>2, <4>1
    <3>3. CASE i = m + 1
      <4>1. i - 1 = m /\ f + 1 \in DOMAIN consumed /\ q \in DOMAIN consumed
        BY <2>2, <2>7, <2>10, <2>16, <3>3
      <4>2. {j \in DOMAIN consumed : consumed[j].index = i - 1} = (f + 1)..q
        BY <2>10, <2>13, <4>1
      <4>3. returned'[i] = SubSeq(consumed, f + 1, q)
        BY <2>6, <2>9, <3>3
      <4> QED
        BY <4>1, <4>2, <4>3
    <3> QED
      BY <2>2, <3>2, <3>3
  <2> QED
    BY <2>1, <2>19, <2>20, <2>21 DEF ReaderInv
<1> QED
  BY <1>1, <1>2

----------------------------------------------------------------------------
\* The inductive invariant of accumulator and reader.
EscrowInv == AccumulatorInv /\ ReaderInv

\* It holds of the empty stream.
LEMMA StreamStarts == StreamInit => EscrowInv
<1>1. SUFFICES ASSUME StreamInit
               PROVE  EscrowInv
  OBVIOUS
<1>2. /\ consumed = <<>> /\ DOMAIN consumed = {} /\ consumed \in Seq(Records) /\ Len(consumed) = 0
  BY <1>1 DEF StreamInit
<1>3. \A k : Positions(consumed, k) = {} /\ Cardinality(Positions(consumed, k)) = 0 /\ Now(k) = {}
  <2>1. \A k : Positions(consumed, k) = {} /\ Now(k) = {}
    BY <1>2 DEF Positions, Now
  <2> QED
    BY <2>1, FS_EmptySet
<1>4. AccumulatorTypes /\ PlaceInv /\ RefusalInv /\ ResolvedInv
  BY <1>1, <1>2 DEF StreamInit, AccumulatorTypes, PlaceInv, RefusalInv, ResolvedInv
<1>5. WithinBatchInv
  <2>1. /\ lastIds = [k \in Kinds |-> 0] /\ messageIds = {}
    BY <1>1 DEF StreamInit
  <2> QED
    BY <1>2, <1>3, <2>1 DEF WithinBatchInv
<1>6. WholeFileInv
  BY <1>1, <1>3 DEF StreamInit, WholeFileInv
<1>7. WellFormed(consumed)
  <2>1. RecordLimit \in Nat /\ BatchLimit \in Nat /\ MessageLimit \in Nat
    BY EscrowConstants
  <2>2. Bounded(consumed)
    BY <1>2, <1>3, <2>1 DEF Bounded
  <2>3. Numbered(consumed)
    BY <1>2 DEF Numbered
  <2> QED
    BY <1>2, <2>2, <2>3 DEF WellFormed, BatchRowFirst, Sorted, Unique
<1>8. ReaderStart /\ status = "reading" /\ index = -1
  BY <1>1 DEF StreamInit, ReaderStart
<1>9. ReaderTypes
  <2>1. /\ position = 0 /\ pending = <<>> /\ reading = Idle /\ returned = <<>> /\ touched = FALSE
        /\ Len(pending) = 0 /\ Len(returned) = 0
    BY <1>8 DEF ReaderStart
  <2>2. position \in 0..Len(consumed) /\ returned \in Seq(Seq(Records))
    BY <1>2, <2>1
  <2>3. Len(returned) <= index + 1
    BY <1>8, <2>1
  <2> QED
    BY <1>8, <2>1, <2>2, <2>3 DEF ReaderTypes
<1>10. ProgressInv
  <2>1. Below(Len(returned)) = {} /\ 1..0 = {}
    BY <1>2 DEF Below
  <2>2. Handed = 0
    <3>1. position = 0 /\ Len(pending) = 0
      BY <1>8 DEF ReaderStart
    <3> QED
      BY <3>1 DEF Handed
  <2> QED
    BY <1>8, <2>1, <2>2 DEF ProgressInv, ReaderStart
<1>11. ReturnedIsVerified
  BY <1>8 DEF ReturnedIsVerified, ReaderStart
<1> QED
  BY <1>4, <1>5, <1>6, <1>7, <1>8, <1>9, <1>10, <1>11 DEF EscrowInv, AccumulatorInv, ReaderInv

\* Steps that consume no record.
LEMMA AccumulatorStays ==
    ASSUME AccumulatorInv, RefusalInv', ResolvedInv', header' \in BOOLEAN,
           UNCHANGED <<index, phase, lastIds, seenIds, seenKeys, currentBatch, messageIds,
                       counts, consumed>>
    PROVE  AccumulatorInv'
<1>1. AccumulatorTypes'
  BY DEF AccumulatorInv, AccumulatorTypes
<1>2. PlaceInv'
  BY DEF AccumulatorInv, PlaceInv, LastRecord
<1>3. \A k : Now(k)' = Now(k)
  BY DEF Now, Positions
<1>4. WithinBatchInv'
  BY <1>3 DEF AccumulatorInv, WithinBatchInv
<1>5. WholeFileInv'
  BY DEF AccumulatorInv, WholeFileInv, Positions
<1>6. WellFormed(consumed)'
  <2>1. WellFormed(consumed) /\ consumed' = consumed
    BY DEF AccumulatorInv
  <2> QED
    BY <2>1
<1> QED
  BY <1>1, <1>2, <1>4, <1>5, <1>6 DEF AccumulatorInv

\* While the accumulator runs, the reader has not started.
LEMMA AccumulatorStepKeepsReader ==
    ASSUME AccumulatorInv, ReaderInv, status \in {"reading", "footed"}, UNCHANGED reader,
           consumed' \in Seq(Records), index' = index \/ index' \in Nat,
           status' \in {"reading", "footed", "verified", "failed"}
    PROVE  ReaderInv'
<1>1. ReaderStart'
  BY DEF ReaderInv, ReaderStart, reader
<1>2. 0 <= index' + 1
  <2>1. index \in Int /\ index + 1 \in Nat
    BY NumberingFacts
  <2>2. 0 <= index + 1
    BY <2>1
  <2>3. \A i \in Nat : 0 <= i + 1
    OBVIOUS
  <2> QED
    BY <2>2, <2>3, Zenon
<1> QED
  BY <1>1, <1>2, ReaderStarts

\* Every line consumed and every step of reading keep it.
LEMMA EscrowStep == EscrowInv /\ [StreamNext]_streamVars => EscrowInv'
<1>1. SUFFICES ASSUME AccumulatorInv, ReaderInv, [StreamNext]_streamVars
               PROVE  AccumulatorInv' /\ ReaderInv'
  BY DEF EscrowInv
<1>2. /\ consumed \in Seq(Records) /\ status \in {"reading", "footed", "verified", "failed"}
      /\ touched \in BOOLEAN /\ header \in BOOLEAN
  BY <1>1 DEF AccumulatorInv, AccumulatorTypes, ReaderInv, ReaderTypes
<1>3. ASSUME status \in {"reading", "footed"}, NEW r, Reject(r),
             r # NoRecord /\ header => ~WellFormed(Append(consumed, r))
      PROVE  AccumulatorInv' /\ ReaderInv'
  <2>1. /\ UNCHANGED <<header, index, phase, lastIds, seenIds, seenKeys, currentBatch,
                       messageIds, counts, consumed>>
        /\ UNCHANGED reader /\ refused' = r /\ status' = "failed"
    BY <1>3 DEF Reject
  <2>2. RefusalInv' /\ ResolvedInv'
    BY <1>3, <2>1 DEF RefusalInv, ResolvedInv
  <2>3. AccumulatorInv'
    BY <1>1, <1>2, <2>1, <2>2, AccumulatorStays
  <2> QED
    BY <1>1, <1>2, <1>3, <2>1, <2>3, AccumulatorStepKeepsReader
<1>4. ASSUME UNCHANGED accumulator, status \in {"footed", "verified"} \/ status' = status
      PROVE  AccumulatorInv'
  <2>1. UNCHANGED <<header, index, phase, lastIds, seenIds, seenKeys, currentBatch, messageIds,
                    counts, resolved, consumed, refused>>
    BY <1>4 DEF accumulator
  <2>2. RefusalInv' /\ ResolvedInv'
    BY <1>1, <1>4, <2>1 DEF AccumulatorInv, RefusalInv, ResolvedInv
  <2> QED
    BY <1>1, <1>2, <2>1, <2>2, AccumulatorStays
<1>5. CASE ConsumeHeader
  <2>1. CASE header
    BY <1>3, <1>5, <2>1 DEF ConsumeHeader
  <2>2. CASE ~header
    <3>1. /\ status = "reading" /\ header' = TRUE /\ status' = status /\ refused' = refused
          /\ UNCHANGED <<index, phase, lastIds, seenIds, seenKeys, currentBatch, messageIds,
                         counts, consumed>>
          /\ UNCHANGED reader
      BY <1>5, <2>2 DEF ConsumeHeader
    <3>2. RefusalInv' /\ ResolvedInv'
      BY <1>1, <3>1 DEF AccumulatorInv, RefusalInv, ResolvedInv
    <3>3. AccumulatorInv'
      BY <1>1, <3>1, <3>2, AccumulatorStays
    <3> QED
      BY <1>1, <1>2, <3>1, <3>3, AccumulatorStepKeepsReader
  <2> QED
    BY <2>1, <2>2
<1>6. ASSUME NEW r \in Records, ConsumeRecord(r)
      PROVE  AccumulatorInv' /\ ReaderInv'
  <2>1. status = "reading"
    BY <1>6 DEF ConsumeRecord
  <2>2. CASE Acceptable(r)
    <3>1. AccumulatorInv'
      BY <1>1, <1>6, <2>1, <2>2, AcceptedKeepsAccumulator
    <3>2. UNCHANGED reader /\ consumed' = Append(consumed, r) /\ index' = r.index
          /\ status' = status
      BY <1>6, <2>2 DEF ConsumeRecord
    <3>3. consumed' \in Seq(Records) /\ index' \in Nat
      BY <1>2, <3>2, RecordFields
    <3> QED
      BY <1>1, <1>2, <2>1, <3>1, <3>2, <3>3, AccumulatorStepKeepsReader
  <2>3. CASE ~Acceptable(r)
    <3>1. Reject(r)
      BY <1>6, <2>3 DEF ConsumeRecord
    <3>2. header => ~WellFormed(Append(consumed, r))
      BY <1>1, <2>3, AcceptableIsWellFormed
    <3> QED
      BY <1>3, <2>1, <3>1, <3>2
  <2> QED
    BY <2>2, <2>3
<1>7. ASSUME NEW c, NEW h, ConsumeFooter(c, h)
      PROVE  AccumulatorInv' /\ ReaderInv'
  <2>1. status = "reading"
    BY <1>7 DEF ConsumeFooter
  <2>2. CASE header /\ c = counts /\ h
    <3>1. /\ status' = "footed" /\ resolved' = counts /\ UNCHANGED reader
          /\ UNCHANGED <<header, index, phase, lastIds, seenIds, seenKeys, currentBatch,
                         messageIds, counts, consumed, refused>>
      BY <1>7, <2>2 DEF ConsumeFooter
    <3>2. RefusalInv' /\ ResolvedInv'
      BY <1>1, <2>1, <3>1 DEF AccumulatorInv, RefusalInv, ResolvedInv
    <3>3. AccumulatorInv'
      BY <1>1, <1>2, <3>1, <3>2, AccumulatorStays
    <3> QED
      BY <1>1, <1>2, <2>1, <3>1, <3>2, <3>3, AccumulatorStepKeepsReader
  <2>3. CASE ~(header /\ c = counts /\ h)
    <3>1. Reject(NoRecord)
      BY <1>7, <2>3 DEF ConsumeFooter
    <3> QED
      BY <1>3, <2>1, <3>1
  <2> QED
    BY <2>2, <2>3
<1>8. CASE ConsumeMalformed \/ ConsumeAfterFooter
  BY <1>3, <1>8 DEF ConsumeMalformed, ConsumeAfterFooter
<1>9. CASE RewriteFile
  <2>1. /\ status = "verified" /\ touched' = TRUE /\ status' = status /\ UNCHANGED accumulator
        /\ UNCHANGED <<accumulator, position, pending, reading, returned>>
    BY <1>9 DEF RewriteFile
  <2> QED
    BY <1>1, <1>2, <1>4, <2>1, ReaderStays
<1>10. CASE BeginBatch
  <2>1. UNCHANGED accumulator /\ status = "verified"
    BY <1>10 DEF BeginBatch, ReadFails
  <2> QED
    BY <1>1, <1>4, <1>10, <2>1, BeginBatchKeepsReader
<1>11. ASSUME NEW r \in Yielded, NextRecord(r)
       PROVE  AccumulatorInv' /\ ReaderInv'
  <2>1. UNCHANGED accumulator /\ status = "verified"
    BY <1>11 DEF NextRecord, ReadFails
  <2> QED
    BY <1>1, <1>4, <1>11, <2>1, NextRecordKeepsReader
<1>12. CASE NextRecordFails
  <2>1. ReadFails /\ UNCHANGED accumulator /\ status = "verified"
    BY <1>12 DEF NextRecordFails, ReadFails
  <2> QED
    BY <1>1, <1>4, <2>1, ReadFailsKeepsReader
<1>13. CASE EndBatch
  <2>1. UNCHANGED accumulator /\ status = "verified"
    BY <1>13 DEF EndBatch, ReadFails
  <2> QED
    BY <1>1, <1>4, <1>13, <2>1, EndBatchKeepsReader
<1>14. CASE UNCHANGED streamVars
  <2>1. /\ UNCHANGED accumulator /\ status' = status /\ touched' = touched
        /\ UNCHANGED <<accumulator, position, pending, reading, returned>>
    BY <1>14 DEF streamVars, reader
  <2> QED
    BY <1>1, <1>2, <1>4, <2>1, ReaderStays
<1>15. CASE Finalize
  <2>1. CASE status \in {"reading", "footed"} /\ Reject(NoRecord)
    BY <1>3, <2>1
  <2>2. CASE status = "footed" /\ status' = "verified" /\ UNCHANGED <<accumulator, reader>>
    <3>1. consumed' = consumed /\ index' = index
      BY <2>2 DEF accumulator
    <3> QED
      BY <1>1, <1>2, <1>4, <2>2, <3>1, AccumulatorStepKeepsReader
  <2> QED
    BY <1>15, <2>1, <2>2 DEF Finalize
<1> QED
  BY <1>1, <1>5, <1>6, <1>7, <1>8, <1>9, <1>10, <1>11, <1>12, <1>13, <1>14, <1>15
     DEF StreamNext

\* The accumulator's state summarises the lines it consumed, and the reader's the
\* verified records it handed out, at every moment.
THEOREM EscrowIsInvariant == StreamSpec => []EscrowInv
<1>1. StreamInit => EscrowInv
  BY StreamStarts
<1>2. EscrowInv /\ [StreamNext]_streamVars => EscrowInv'
  BY EscrowStep
<1> QED
  BY <1>1, <1>2, PTL DEF StreamSpec

\* Accumulator and reader keep their types, the counts and the file their limits,
\* and no more batches are returned than the file has.
THEOREM StreamTypeCorrect == StreamSpec => []StreamTypeOK
<1>1. ASSUME EscrowInv
      PROVE  StreamTypeOK
  <2>1. AccumulatorInv /\ ReaderInv
    BY <1>1 DEF EscrowInv
  <2>2. /\ AccumulatorTypes /\ ReaderTypes /\ WholeFileInv /\ WithinBatchInv /\ PlaceInv
        /\ WellFormed(consumed)
    BY <2>1 DEF AccumulatorInv, ReaderInv
  <2>3. /\ consumed \in Seq(Records) /\ Len(consumed) \in Nat
        /\ DOMAIN consumed = 1..Len(consumed)
        /\ \A j \in 1..Len(consumed) : consumed[j] \in Records
    BY <2>1, NumberingFacts
  <2>4. Len(consumed) <= RecordLimit /\ RecordLimit \in Nat
    BY <2>2, EscrowConstants DEF WellFormed, Bounded
  <2>5. counts \in [Kinds -> 0..RecordLimit]
    <3>1. ASSUME NEW k \in Kinds
          PROVE  counts[k] \in 0..RecordLimit
      <4>1. Positions(consumed, k) \subseteq 1..Len(consumed)
        BY <2>3 DEF Positions
      <4>2. IsFiniteSet(1..Len(consumed)) /\ Cardinality(1..Len(consumed)) = Len(consumed)
        BY <2>3, InitialSegment
      <4>3. /\ Cardinality(Positions(consumed, k)) \in Nat
            /\ Cardinality(Positions(consumed, k)) <= Len(consumed)
        BY <4>1, <4>2, FS_Subset, FS_CardinalityType
      <4>4. counts[k] = Cardinality(Positions(consumed, k))
        BY <2>2 DEF WholeFileInv
      <4> QED
        BY <2>3, <2>4, <4>3, <4>4
    <3>2. counts \in [Kinds -> Nat]
      BY <2>2 DEF AccumulatorTypes
    <3> QED
      BY <3>1, <3>2
  <2>6. messageIds \subseteq Ids
    <3>1. messageIds = {consumed[i].key : i \in Now("newsletterMessages")}
      BY <2>2 DEF WithinBatchInv
    <3>2. ASSUME NEW i \in Now("newsletterMessages")
          PROVE  consumed[i].key \in Ids
      BY <2>3, RecordFields DEF Now, Positions
    <3> QED
      BY <3>1, <3>2
  <2>7. index \in {-1} \cup Indexes /\ phase \in 0..3
    <3>1. CASE consumed = <<>>
      BY <2>2, <3>1 DEF PlaceInv
    <3>2. CASE consumed # <<>>
      <4>1. Len(consumed) \in 1..Len(consumed)
        BY <2>3, <3>2
      <4>2. LastRecord(consumed) \in Records
        BY <2>3, <4>1 DEF LastRecord
      <4>3. LastRecord(consumed).index \in Indexes /\ LastRecord(consumed).kind \in Kinds
        BY <4>2, RecordFields
      <4> QED
        BY <2>2, <3>2, <4>3, Ranks DEF PlaceInv
    <3> QED
      BY <3>1, <3>2
  <2>8. /\ position \in 0..Len(consumed) /\ Len(pending) <= 1 /\ Len(returned) <= index + 1
        /\ status \in {"reading", "footed", "verified", "failed"} /\ touched \in BOOLEAN
    <3>1. Len(pending) \in {0, 1}
      BY <2>2 DEF ReaderTypes
    <3>2. Len(pending) <= 1
      BY <3>1
    <3> QED
      BY <2>2, <3>2 DEF ReaderTypes
  <2> QED
    BY <2>2, <2>4, <2>5, <2>6, <2>7, <2>8 DEF StreamTypeOK, AccumulatorTypes
<1> QED
  BY <1>1, EscrowIsInvariant, PTL

\* For a file of any length, consume accepts a record if and only if the file is
\* well-formed with it, and counts its rows right.
THEOREM VerdictsAreRight == StreamSpec => []VerdictIsRight
<1>1. ASSUME EscrowInv
      PROVE  VerdictIsRight
  <2>1. /\ WellFormed(consumed) /\ RefusalInv /\ ResolvedInv /\ WholeFileInv
        /\ counts \in [Kinds -> Nat]
    BY <1>1 DEF EscrowInv, AccumulatorInv, AccumulatorTypes
  <2>2. counts = [k \in Kinds |-> Cardinality(Positions(consumed, k))]
    BY <2>1 DEF WholeFileInv
  <2> QED
    BY <2>1, <2>2 DEF WholeFileInv, RefusalInv, ResolvedInv, VerdictIsRight
<1> QED
  BY <1>1, EscrowIsInvariant, PTL

\* readBatchRecords returns every record of a batch, in order, none of another and
\* none of a rewritten file, for any number of batches and rows.
THEOREM OnlyVerifiedIsReturned == StreamSpec => []ReturnedIsVerified
<1>1. EscrowInv => ReturnedIsVerified
  BY DEF EscrowInv, ReaderInv
<1> QED
  BY <1>1, EscrowIsInvariant, PTL

=============================================================================
