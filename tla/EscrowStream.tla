---------------------------- MODULE EscrowStream ----------------------------
(***************************************************************************)
(* The escrow file of newsletter retention as a stream of lines: a header, *)
(* the records of each manifest batch and a footer. The accumulator, which *)
(* the writer runs over its own output and the reader over the file,       *)
(* admits one line at a time. A verified file is then read batch by batch, *)
(* with one record of look-ahead, from an open descriptor while someone    *)
(* may rewrite the file.                                                   *)
(***************************************************************************)
EXTENDS Integers, Sequences, FiniteSets

CONSTANTS
    Ids,           \* row ids, keys and references that lines carry
    Indexes,       \* manifest indexes that lines carry
    Site,          \* the header's siteId, one of the references
    RecordLimit,   \* recordLimit: 250 000
    BatchLimit,    \* batchLimit: 100
    MessageLimit   \* messageLimit: 100 000

Kinds == {"newsletterBatch", "newsletterMessages", "newsletterErrors",
          "newsletterNotifications"}

ASSUME EscrowConstants ==
    /\ Ids \subseteq Nat \ {0}
    /\ Indexes \subseteq Nat
    /\ Site \in Ids
    /\ {RecordLimit, BatchLimit, MessageLimit} \subseteq Nat \ {0}

(***************************************************************************)
(* key is what must be unique besides the id: messageId of an e-mail and   *)
(* of a failure, notificationId of a notification; a batch row has only    *)
(* its id. ref is what the row points to: the siteId of a batch, the batch *)
(* of an e-mail or a failure, the messageId of a notification.             *)
(***************************************************************************)
Records ==
    {r \in [kind : Kinds, index : Indexes, id : Ids, key : Ids, ref : Ids] :
       r.kind = "newsletterBatch" => r.key = r.id}

Rank == [newsletterBatch |-> 0, newsletterMessages |-> 1, newsletterErrors |-> 2,
         newsletterNotifications |-> 3]

VARIABLES
    status,         \* reading, footed (seenFooter), verified, failed
    header,         \* the header was consumed
    index,          \* manifestIndex, -1 before the first batch
    phase,          \* rank of the phase within the batch
    lastIds,        \* lastIdsByKind, 0 if there is none
    seenIds,        \* seenRowIdsByKind
    seenKeys,       \* seenMessageIds, seenErrorMessageIds, seenNotificationIds
    currentBatch,   \* currentBatchId
    messageIds,     \* currentMessageIds
    counts,         \* rows by kind
    resolved,       \* the counts of the verification result, NoFooter before the footer
    consumed,       \* the records consumed so far, and the file's content
    refused,        \* history: the record the accumulator refused
    touched,        \* the file was rewritten after it was verified
    position,       \* records the line iterator has yielded
    pending,        \* records it yielded for a batch not asked for yet
    reading,        \* the batch readBatchRecords is collecting
    returned        \* the batches it returned

accumulator == <<header, index, phase, lastIds, seenIds, seenKeys, currentBatch,
                 messageIds, counts, resolved, consumed, refused>>
reader == <<touched, position, pending, reading, returned>>
streamVars == <<status, accumulator, reader>>

NoRecord == <<>>
NoFooter == <<>>
Idle == <<>>

StreamInit ==
    /\ status = "reading"
    /\ header = FALSE
    /\ index = -1
    /\ phase = 0
    /\ lastIds = [k \in Kinds |-> 0]
    /\ seenIds = [k \in Kinds |-> {}]
    /\ seenKeys = [k \in Kinds |-> {}]
    /\ currentBatch = 0
    /\ messageIds = {}
    /\ counts = [k \in Kinds |-> 0]
    /\ resolved = NoFooter
    /\ consumed = <<>>
    /\ refused = NoRecord
    /\ touched = FALSE
    /\ position = 0
    /\ pending = <<>>
    /\ reading = Idle
    /\ returned = <<>>

----------------------------------------------------------------------------
Reject(r) ==
    /\ status' = "failed"
    /\ refused' = r
    /\ UNCHANGED <<header, index, phase, lastIds, seenIds, seenKeys, currentBatch,
                   messageIds, counts, resolved, consumed, reader>>

ConsumeHeader ==
    /\ status = "reading"
    /\ IF header THEN Reject(NoRecord)
         ELSE /\ header' = TRUE
              /\ UNCHANGED <<status, index, phase, lastIds, seenIds, seenKeys,
                             currentBatch, messageIds, counts, resolved, consumed,
                             refused, reader>>

\* A batch row with the next index starts that manifest batch over.
StartsManifest(r) == r.kind = "newsletterBatch" /\ r.index = index + 1
InSequence(r) == StartsManifest(r) \/ (index # -1 /\ r.index = index)

InOrder_AcrossBatches(r) ==
    /\ IF r.kind = "newsletterBatch" THEN StartsManifest(r) \/ phase = 0
         ELSE Rank[r.kind] >= phase
    /\ lastIds[r.kind] < r.id

InOrder(r) ==
    LET phaseNow == IF StartsManifest(r) THEN 0 ELSE phase
        lastNow == IF StartsManifest(r) THEN 0 ELSE lastIds[r.kind]
    IN  /\ IF r.kind = "newsletterBatch" THEN phaseNow = 0
             ELSE Rank[r.kind] >= phaseNow
        /\ lastNow < r.id

RefersToBatch(r) ==
    CASE r.kind = "newsletterBatch" -> r.ref = Site
      [] r.kind = "newsletterNotifications" -> r.ref \in messageIds
      [] OTHER -> r.ref = currentBatch

IsUnique(r) ==
    /\ r.id \notin seenIds[r.kind]
    /\ r.key \notin seenKeys[r.kind]

WithinLimits(r) ==
    /\ Len(consumed) < RecordLimit
    /\ r.kind = "newsletterBatch" => counts[r.kind] < BatchLimit
    /\ r.kind = "newsletterMessages" => counts[r.kind] < MessageLimit

Acceptable(r) ==
    /\ header
    /\ InSequence(r)
    /\ InOrder(r)
    /\ RefersToBatch(r)
    /\ IsUnique(r)
    /\ WithinLimits(r)

ConsumeRecord(r) ==
    /\ status = "reading"
    /\ IF ~Acceptable(r) THEN Reject(r)
         ELSE /\ index' = r.index
              /\ phase' = IF r.kind = "newsletterBatch" THEN 1 ELSE Rank[r.kind]
              /\ lastIds' = [k \in Kinds |->
                    IF k = r.kind THEN r.id
                    ELSE IF StartsManifest(r) THEN 0 ELSE lastIds[k]]
              /\ seenIds' = [seenIds EXCEPT ![r.kind] = @ \cup {r.id}]
              /\ seenKeys' = [seenKeys EXCEPT ![r.kind] = @ \cup {r.key}]
              /\ currentBatch' = IF StartsManifest(r) THEN r.id ELSE currentBatch
              /\ messageIds' = (IF StartsManifest(r) THEN {} ELSE messageIds) \cup
                               (IF r.kind = "newsletterMessages" THEN {r.key} ELSE {})
              /\ counts' = [counts EXCEPT ![r.kind] = @ + 1]
              /\ consumed' = Append(consumed, r)
              /\ UNCHANGED <<status, header, resolved, refused, reader>>

\* The counts of the footer and the hash over the lines before it.
ConsumeFooter(footerCounts, hashMatches) ==
    /\ status = "reading"
    /\ IF header /\ footerCounts = counts /\ hashMatches
         THEN /\ status' = "footed"
              /\ resolved' = counts
              /\ UNCHANGED <<header, index, phase, lastIds, seenIds, seenKeys, currentBatch,
                             messageIds, counts, consumed, refused, reader>>
         ELSE Reject(NoRecord)

\* Whatever the line after the footer holds.
ConsumeAfterFooter == status = "footed" /\ Reject(NoRecord)

\* Neither header, record nor footer, not canonical, or over a byte limit.
ConsumeMalformed == status = "reading" /\ Reject(NoRecord)

\* The end of the file: finalize resolves if there was a footer, and the file
\* must be the one that was opened, unchanged.
Finalize ==
    \/ /\ status = "footed"
       /\ status' = "verified"
       /\ UNCHANGED <<accumulator, reader>>
    \/ /\ status \in {"reading", "footed"}
       /\ Reject(NoRecord)

----------------------------------------------------------------------------
(***************************************************************************)
(* Reading a verified file. Batches are asked for in order, as the apply   *)
(* loop does; the file's identity is tested before and after each batch. A *)
(* record of a rewritten file is known by its index only.                  *)
(***************************************************************************)
RewriteFile ==
    /\ status = "verified"
    /\ ~touched
    /\ touched' = TRUE
    /\ UNCHANGED <<status, accumulator, position, pending, reading, returned>>

ReadFails ==
    /\ status' = "failed"
    /\ UNCHANGED <<accumulator, reader>>

SameIdentity_Unchecked == TRUE

\* assertEscrowFileIdentity: device, inode, size and times of the open file.
SameIdentity == ~touched

BeginBatch ==
    /\ status = "verified"
    /\ reading = Idle
    /\ Len(returned) <= index
    /\ IF ~SameIdentity THEN ReadFails
         ELSE /\ reading' = [index |-> Len(returned), rows |-> pending]
              /\ pending' = <<>>
              /\ UNCHANGED <<status, accumulator, touched, position, returned>>

\* What the iterator may yield next.
Yielded ==
    {consumed[i] : i \in {position + 1} \cap DOMAIN consumed} \cup
    {[rewritten |-> TRUE, index |-> i] : i \in IF touched THEN Indexes ELSE {}}

NextRecord(r) ==
    /\ status = "verified"
    /\ reading # Idle
    /\ pending = <<>>
    /\ position < Len(consumed)
    /\ IF r.index < reading.index
         THEN ReadFails
         ELSE /\ position' = position + 1
              /\ IF r.index > reading.index
                   THEN pending' = <<r>> /\ UNCHANGED reading
                   ELSE /\ reading' = [reading EXCEPT !.rows = Append(@, r)]
                        /\ UNCHANGED pending
              /\ UNCHANGED <<status, accumulator, touched, returned>>

\* The iterator throws: a read error, or lines that are no framed records.
NextRecordFails ==
    /\ status = "verified"
    /\ reading # Idle
    /\ pending = <<>>
    /\ ReadFails

\* The next batch was met or the file ended, a rewritten one at any point.
EndBatch ==
    /\ status = "verified"
    /\ reading # Idle
    /\ pending # <<>> \/ position = Len(consumed) \/ touched
    /\ IF SameIdentity
         THEN /\ returned' = Append(returned, reading.rows)
              /\ reading' = Idle
              /\ UNCHANGED <<status, accumulator, touched, position, pending>>
         ELSE ReadFails

StreamNext ==
    \/ ConsumeHeader
    \/ \E r \in Records : ConsumeRecord(r)
    \/ \E c \in {counts, [k \in Kinds |-> 0]}, h \in BOOLEAN : ConsumeFooter(c, h)
    \/ ConsumeAfterFooter
    \/ ConsumeMalformed
    \/ Finalize
    \/ RewriteFile
    \/ BeginBatch
    \/ \E r \in Yielded : NextRecord(r)
    \/ NextRecordFails
    \/ EndBatch

StreamSpec == StreamInit /\ [][StreamNext]_streamVars

----------------------------------------------------------------------------
(***************************************************************************)
(* Properties                                                              *)
(***************************************************************************)
Positions(s, k) == {i \in DOMAIN s : s[i].kind = k}

(***************************************************************************)
(* What a well-formed escrow is, stated over the whole sequence: batches   *)
(* numbered from 0, each with exactly one batch row, which comes first;    *)
(* e-mails, failures, notifications in this order and each sorted by id;   *)
(* ids and keys unique in the file; every reference within the batch.      *)
(***************************************************************************)
Numbered(s) ==
    /\ s # <<>> => s[1].index = 0
    /\ \A i \in 1..(Len(s) - 1) : s[i + 1].index - s[i].index \in {0, 1}

BatchRowFirst(s) ==
    \A i \in DOMAIN s :
       s[i].kind = "newsletterBatch" <=> (i = 1 \/ s[i - 1].index # s[i].index)

Sorted(s) ==
    \A i, j \in DOMAIN s : i < j /\ s[i].index = s[j].index =>
       /\ Rank[s[i].kind] <= Rank[s[j].kind]
       /\ s[i].kind = s[j].kind => s[i].id < s[j].id

Unique(s) ==
    \A i, j \in DOMAIN s : i # j /\ s[i].kind = s[j].kind =>
       s[i].id # s[j].id /\ s[i].key # s[j].key

\* The record at i refers to something of its own batch.
RefersWithin(s, i) ==
    LET Peer(k) == {j \in DOMAIN s : s[j].kind = k /\ s[j].index = s[i].index}
    IN  CASE s[i].kind = "newsletterBatch" -> s[i].ref = Site
          [] s[i].kind = "newsletterNotifications" ->
               \E j \in Peer("newsletterMessages") : s[j].key = s[i].ref
          [] OTHER -> \E j \in Peer("newsletterBatch") : s[j].id = s[i].ref

Bounded(s) ==
    /\ Len(s) <= RecordLimit
    /\ Cardinality(Positions(s, "newsletterBatch")) <= BatchLimit
    /\ Cardinality(Positions(s, "newsletterMessages")) <= MessageLimit

WellFormed(s) ==
    /\ Numbered(s)
    /\ BatchRowFirst(s)
    /\ Sorted(s)
    /\ Unique(s)
    /\ \A i \in DOMAIN s : RefersWithin(s, i)
    /\ Bounded(s)

\* Types of the accumulator and the reader.
StreamTypeOK ==
    /\ status \in {"reading", "footed", "verified", "failed"}
    /\ header \in BOOLEAN
    /\ index \in {-1} \cup Indexes
    /\ phase \in 0..3
    /\ lastIds \in [Kinds -> Ids \cup {0}]
    /\ seenIds \in [Kinds -> SUBSET Ids]
    /\ seenKeys \in [Kinds -> SUBSET Ids]
    /\ currentBatch \in Ids \cup {0}
    /\ messageIds \subseteq Ids
    /\ counts \in [Kinds -> 0..RecordLimit]
    /\ Len(consumed) <= RecordLimit
    /\ touched \in BOOLEAN
    /\ position \in 0..Len(consumed)
    /\ Len(pending) <= 1
    /\ Len(returned) <= index + 1

\* The accumulator's verdict, given line by line with a little state, is the
\* verdict on the file as a whole, across batch boundaries too: what it accepted
\* is well-formed, the counts it keeps are the rows read, those it resolves to are
\* the rows of the whole file (nothing follows the footer), and it refuses no
\* record that would have continued a well-formed file, so that what the writer
\* streams for a consistent snapshot is never rejected.
VerdictIsRight ==
    /\ WellFormed(consumed)
    /\ \A k \in Kinds : counts[k] = Cardinality(Positions(consumed, k))
    /\ status = "verified" =>
         resolved = [k \in Kinds |-> Cardinality(Positions(consumed, k))]
    /\ refused # NoRecord /\ header => ~WellFormed(Append(consumed, refused))

\* readBatchRecords returns for each index exactly the verified records of that
\* batch, which are one stretch of the file, whatever the look-ahead has consumed,
\* and nothing from a file that was rewritten between verification and apply.
ReturnedIsVerified ==
    \A i \in DOMAIN returned :
       \E first, last \in DOMAIN consumed :
          /\ {j \in DOMAIN consumed : consumed[j].index = i - 1} = first..last
          /\ returned[i] = SubSeq(consumed, first, last)

=============================================================================
