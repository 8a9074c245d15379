-------------------------- MODULE NewsletterSender --------------------------
(***************************************************************************)
(* The sending path of a newsletter: POST /v3/{siteId}/messages stores the *)
(* batch and queues its id on SQS (addNewsletterToQueue); the              *)
(* newsletter-sender worker of some process receives the id, loads the     *)
(* batch and runs one task per entry of its `to` list (processBatch,       *)
(* sendSingleEmail); the SQS message is deleted only if no task failed.    *)
(*                                                                         *)
(* SQS, SES and MySQL fail one call at a time, a process can die between   *)
(* any two awaits, and a message whose visibility timeout runs out is      *)
(* handed out again, to the same process or to its replacement.            *)
(***************************************************************************)
EXTENDS Naturals, FiniteSets

CONSTANTS
    Batches,        \* NewsletterBatch.id values, one per accepted POST
    EmailIds,       \* Ghost's v:email-id values
    EmailIdOf,      \* the v:email-id stored in each batch's contents
    Tasks,          \* entries of the `to` lists of all batches
    BatchOf,        \* the batch a task belongs to
    Addresses,      \* recipient addresses
    AddressOf,      \* the address of a task
    Poison,         \* batches preparePayload throws on, e.g. for a recipient
                    \* that has no entry in recipient-variables
    Procs,          \* processes that poll the newsletter queue
    None,           \* "no batch held"
    MaxConcurrent,  \* MAX_CONCURRENT of the task queue
    MaxFaults       \* bound: failed calls and process deaths in a behaviour

ASSUME SenderConstants ==
    /\ None \notin Batches
    /\ EmailIdOf \in [Batches -> EmailIds]
    /\ BatchOf \in [Tasks -> Batches]
    /\ AddressOf \in [Tasks -> Addresses]
    /\ Poison \subseteq Batches
    /\ MaxConcurrent \in Nat \ {0}
    /\ MaxFaults \in Nat

\* Batch ids are UUIDs made by Prisma, never the id Ghost puts in v:email-id.
ASSUME EmailIdsAreNotBatchIds == EmailIds \cap Batches = {}

VARIABLES
    request,      \* progress of the POST that creates each batch
    batchRows,    \* table NewsletterBatch
    messageRows,  \* table NewsletterMessages, as <<newsletterBatchId, toEmail>>
    errorRows,    \* table NewsletterErrors, as <<newsletterBatchId, toEmail>>
    msg,          \* the SQS message that carries each batch id
    pc,           \* where each process's newsletter-sender handler is
    holding,      \* the batch each process is handling
    task,         \* progress of each task in each process's task queue
    faults,       \* failures so far
    sends,        \* history: e-mails SES accepted, per batch and address
    lost,         \* history: accepted e-mails no row was written for
    overlapped,   \* history: batches two processes handled at the same time
    sesFailures   \* history: SES failures reported while the database was up

vars == <<request, batchRows, messageRows, errorRows, msg, pc, holding, task,
          faults, sends, lost, overlapped, sesFailures>>

database == <<batchRows, messageRows, errorRows>>
history == <<sends, lost, overlapped, sesFailures>>

Key(t) == <<BatchOf[t], AddressOf[t]>>
Keys == {Key(t) : t \in Tasks}
TasksOf(b) == {t \in Tasks : BatchOf[t] = b}

Unsettled == {"queued", "checked", "accepted", "rejected"}
Running == {"checked", "accepted", "rejected"}

TypeOK ==
    /\ request \in [Batches -> {"idle", "created", "accepted", "failed"}]
    /\ batchRows \subseteq Batches
    /\ messageRows \subseteq Keys
    /\ errorRows \subseteq (Batches \cup EmailIds) \X Addresses
    /\ msg \in [Batches -> {"absent", "visible", "inflight", "deleted"}]
    /\ pc \in [Procs -> {"polling", "loading", "sending", "acking"}]
    /\ holding \in [Procs -> Batches \cup {None}]
    /\ task \in [Procs -> [Tasks -> Unsettled \cup {"none", "done", "failed"}]]
    /\ faults \in 0..MaxFaults
    /\ sends \in [Keys -> Nat]
    /\ lost \in [Keys -> Nat]
    /\ overlapped \subseteq Batches
    /\ sesFailures \subseteq Keys

Init ==
    /\ request = [b \in Batches |-> "idle"]
    /\ batchRows = {}
    /\ messageRows = {}
    /\ errorRows = {}
    /\ msg = [b \in Batches |-> "absent"]
    /\ pc = [p \in Procs |-> "polling"]
    /\ holding = [p \in Procs |-> None]
    /\ task = [p \in Procs |-> [t \in Tasks |-> "none"]]
    /\ faults = 0
    /\ sends = [k \in Keys |-> 0]
    /\ lost = [k \in Keys |-> 0]
    /\ overlapped = {}
    /\ sesFailures = {}

\* One call to SQS, SES or MySQL fails, or one process dies.
Fault == faults < MaxFaults /\ faults' = faults + 1
NoFault == UNCHANGED faults

-----------------------------------------------------------------------------
(* addNewsletterToQueue, run by the HTTP handler.                          *)

CreateBatchEntry(b) ==
    /\ request[b] = "idle"
    /\ batchRows' = batchRows \cup {b}
    /\ request' = [request EXCEPT ![b] = "created"]
    /\ NoFault
    /\ UNCHANGED <<messageRows, errorRows, msg, pc, holding, task, history>>

CreateBatchEntryFails(b) ==
    /\ request[b] = "idle"
    /\ Fault
    /\ request' = [request EXCEPT ![b] = "failed"]
    /\ UNCHANGED <<database, msg, pc, holding, task, history>>

Enqueue(b) ==
    /\ request[b] = "created"
    /\ msg' = [msg EXCEPT ![b] = "visible"]
    /\ request' = [request EXCEPT ![b] = "accepted"]
    /\ NoFault
    /\ UNCHANGED <<database, pc, holding, task, history>>

\* SendMessage fails, or it succeeds and the answer is lost: 500 either way.
EnqueueFails(b) ==
    /\ request[b] = "created"
    /\ Fault
    /\ request' = [request EXCEPT ![b] = "failed"]
    /\ msg' \in {msg, [msg EXCEPT ![b] = "visible"]}
    /\ UNCHANGED <<database, pc, holding, task, history>>

-----------------------------------------------------------------------------
(* The newsletter-sender worker: one poller, one message at a time.        *)

Receive(p, b) ==
    /\ pc[p] = "polling"
    /\ msg[b] = "visible"
    /\ msg' = [msg EXCEPT ![b] = "inflight"]
    /\ pc' = [pc EXCEPT ![p] = "loading"]
    /\ holding' = [holding EXCEPT ![p] = b]
    /\ overlapped' = IF \E q \in Procs : holding[q] = b
                     THEN overlapped \cup {b} ELSE overlapped
    /\ NoFault
    /\ UNCHANGED <<request, database, task, sends, lost, sesFailures>>

\* An empty long poll changes nothing the sending path can see.
IdlePoll(p) ==
    /\ pc[p] = "polling"
    /\ \A b \in Batches : msg[b] # "visible"
    /\ UNCHANGED vars

\* validateAndSend throws or the process is replaced: the SQS message is left
\* alone and the in-memory queue is gone.
LetGo(p) ==
    /\ pc' = [pc EXCEPT ![p] = "polling"]
    /\ holding' = [holding EXCEPT ![p] = None]
    /\ task' = [task EXCEPT ![p] = [t \in Tasks |-> "none"]]

\* getNewsletterContent finds the batch and preparePayload makes its e-mails.
Loadable(p) == holding[p] \in batchRows \ Poison

LoadContent(p) ==
    /\ pc[p] = "loading"
    /\ Loadable(p)
    /\ pc' = [pc EXCEPT ![p] = "sending"]
    /\ task' = [task EXCEPT ![p] =
                  [t \in Tasks |-> IF BatchOf[t] = holding[p] THEN "queued" ELSE "none"]]
    /\ NoFault
    /\ UNCHANGED <<request, database, msg, holding, history>>

\* The query fails, or the batch cannot be loaded at all.
LoadContentFails(p) ==
    /\ pc[p] = "loading"
    /\ IF Loadable(p) THEN Fault ELSE NoFault
    /\ LetGo(p)
    /\ UNCHANGED <<request, database, msg, history>>

-----------------------------------------------------------------------------
(* sendSingleEmail, one step per await.                                    *)

Mailing(p, t, state) == pc[p] = "sending" /\ task[p][t] = state

Move(p, t, state) == task' = [task EXCEPT ![p][t] = state]

\* checkNewsletterAlreadySent. Mutation: the check is dropped.
AlreadySent_Forgotten(t) == FALSE
AlreadySent(t) == Key(t) \in messageRows

\* The task queue's bound on running tasks.
HasSlot(p) == Cardinality({t \in Tasks : task[p][t] \in Running}) < MaxConcurrent

StartTask(p, t) ==
    /\ Mailing(p, t, "queued")
    /\ HasSlot(p)
    /\ Move(p, t, IF AlreadySent(t) THEN "done" ELSE "checked")
    /\ NoFault
    /\ UNCHANGED <<request, database, msg, pc, holding, history>>

StartTaskFails(p, t) ==
    /\ Mailing(p, t, "queued")
    /\ HasSlot(p)
    /\ Fault
    /\ Move(p, t, "failed")
    /\ UNCHANGED <<request, database, msg, pc, holding, history>>

SesAccept(p, t) ==
    /\ Mailing(p, t, "checked")
    /\ sends' = [sends EXCEPT ![Key(t)] = @ + 1]
    /\ Move(p, t, "accepted")
    /\ NoFault
    /\ UNCHANGED <<request, database, msg, pc, holding, lost, overlapped, sesFailures>>

\* SES refuses the e-mail, or accepts it and the answer does not arrive.
SesReject(p, t) ==
    /\ Mailing(p, t, "checked")
    /\ Fault
    /\ Move(p, t, "rejected")
    /\ \/ UNCHANGED <<sends, lost>>
       \/ /\ sends' = [sends EXCEPT ![Key(t)] = @ + 1]
          /\ lost' = [lost EXCEPT ![Key(t)] = @ + 1]
    /\ UNCHANGED <<request, database, msg, pc, holding, overlapped, sesFailures>>

\* The row createNewsletterEntry writes.
SentRow(t) == <<BatchOf[t], AddressOf[t]>>

RecordSent(p, t) ==
    /\ Mailing(p, t, "accepted")
    /\ messageRows' = messageRows \cup {SentRow(t)}
    /\ Move(p, t, "done")
    /\ NoFault
    /\ UNCHANGED <<request, batchRows, errorRows, msg, pc, holding, history>>

\* createNewsletterEntry throws: the insert did not happen, or it did and the
\* connection broke before the answer.
RecordSentFails(p, t) ==
    /\ Mailing(p, t, "accepted")
    /\ Fault
    /\ Move(p, t, "failed")
    /\ \/ /\ messageRows' = messageRows \cup {SentRow(t)}
          /\ UNCHANGED lost
       \/ /\ lost' = [lost EXCEPT ![Key(t)] = @ + 1]
          /\ UNCHANGED messageRows
    /\ UNCHANGED <<request, batchRows, errorRows, msg, pc, holding,
                   sends, overlapped, sesFailures>>

\* The value sendSingleEmail passes for NewsletterErrors.newsletterBatchId.
ErrorEntryBatch(t) == EmailIdOf[BatchOf[t]]

\* createNewsletterErrorEntry: MySQL enforces the foreign key to
\* NewsletterBatch.id; whatever goes wrong is logged and dropped.
RecordError(p, t) ==
    /\ Mailing(p, t, "rejected")
    /\ Move(p, t, "failed")
    /\ \/ /\ errorRows' = IF ErrorEntryBatch(t) \in batchRows
                          THEN errorRows \cup {<<ErrorEntryBatch(t), AddressOf[t]>>}
                          ELSE errorRows
          /\ sesFailures' = sesFailures \cup {Key(t)}
          /\ NoFault
       \/ Fault /\ UNCHANGED <<errorRows, sesFailures>>
    /\ UNCHANGED <<request, batchRows, messageRows, msg, pc, holding,
                   sends, lost, overlapped>>

-----------------------------------------------------------------------------
(* The end of processBatch, and the worker's acknowledgement.              *)

AllSettled(p) == \A t \in TasksOf(holding[p]) : task[p][t] \notin Unsettled

\* Mutation: the failedCount > 0 test is dropped.
NoneFailed_Ignored(p) == TRUE
NoneFailed(p) == \A t \in TasksOf(holding[p]) : task[p][t] # "failed"

BatchResolves(p) ==
    /\ pc[p] = "sending"
    /\ AllSettled(p)
    /\ NoneFailed(p)
    /\ pc' = [pc EXCEPT ![p] = "acking"]
    /\ NoFault
    /\ UNCHANGED <<request, database, msg, holding, task, history>>

BatchThrows(p) ==
    /\ pc[p] = "sending"
    /\ AllSettled(p)
    /\ ~NoneFailed(p)
    /\ LetGo(p)
    /\ NoFault
    /\ UNCHANGED <<request, database, msg, history>>

Acknowledge(p) ==
    /\ pc[p] = "acking"
    /\ msg' = [msg EXCEPT ![holding[p]] = "deleted"]
    /\ LetGo(p)
    /\ NoFault
    /\ UNCHANGED <<request, database, history>>

\* DeleteMessageBatch fails, with or without effect on the queue.
AcknowledgeFails(p) ==
    /\ pc[p] = "acking"
    /\ Fault
    /\ msg' \in {msg, [msg EXCEPT ![holding[p]] = "deleted"]}
    /\ LetGo(p)
    /\ UNCHANGED <<request, database, history>>

\* The visibility timeout runs out, whether or not somebody is still working.
Expire(b) ==
    /\ msg[b] = "inflight"
    /\ msg' = [msg EXCEPT ![b] = "visible"]
    /\ NoFault
    /\ UNCHANGED <<request, database, pc, holding, task, history>>

\* The process dies (a crash, or the forced exit when the shutdown grace runs
\* out) and its replacement starts polling.
Crash(p) ==
    /\ pc[p] # "polling"
    /\ Fault
    /\ lost' = [k \in Keys |-> IF \E t \in Tasks : Key(t) = k /\ task[p][t] = "accepted"
                               THEN lost[k] + 1 ELSE lost[k]]
    /\ LetGo(p)
    /\ UNCHANGED <<request, database, msg, sends, overlapped, sesFailures>>

-----------------------------------------------------------------------------
SendTask(p, t) ==
    \/ StartTask(p, t) \/ StartTaskFails(p, t)
    \/ SesAccept(p, t) \/ SesReject(p, t)
    \/ RecordSent(p, t) \/ RecordSentFails(p, t)
    \/ RecordError(p, t)

Handle(p) ==
    \/ LoadContent(p) \/ LoadContentFails(p)
    \/ BatchResolves(p) \/ BatchThrows(p)
    \/ Acknowledge(p) \/ AcknowledgeFails(p)

Next ==
    \/ \E b \in Batches :
          \/ CreateBatchEntry(b) \/ CreateBatchEntryFails(b)
          \/ Enqueue(b) \/ EnqueueFails(b)
          \/ Expire(b)
    \/ \E p \in Procs, b \in Batches : Receive(p, b)
    \/ \E p \in Procs, t \in Tasks : SendTask(p, t)
    \/ \E p \in Procs : Handle(p) \/ IdlePoll(p) \/ Crash(p)

Spec == Init /\ [][Next]_vars

\* Promises settle, queries and SES calls answer, SQS redelivers and starves no
\* message; nothing is assumed of new requests, faults or crashes.
Fairness ==
    /\ \A b \in Batches : WF_vars(Expire(b)) /\ SF_vars(\E p \in Procs : Receive(p, b))
    /\ \A p \in Procs : WF_vars(Handle(p))
    /\ \A p \in Procs, t \in Tasks : WF_vars(SendTask(p, t))

FairSpec == Spec /\ Fairness

-----------------------------------------------------------------------------
(* Properties.                                                             *)

\* A newsletter whose SQS message is gone has a NewsletterMessages row for
\* every entry of its `to` list: the worker never acknowledges a batch with a
\* recipient that failed (processBatch throws when failedCount > 0).
AckedBatchIsFullySent ==
    \A b \in Batches : msg[b] = "deleted" => \A t \in TasksOf(b) : Key(t) \in messageRows

\* An address listed twice in one `to` list.
Twins(t) == \E u \in Tasks \ {t} : Key(u) = Key(t)

\* The idempotency guard bounds duplicates: a recipient gets at most one e-mail
\* plus one per accepted send whose row was lost, as long as no two processes
\* handled the batch at once and the address is listed once.
DuplicatesBoundedByLostRows ==
    \A t \in Tasks :
        (BatchOf[t] \notin overlapped /\ ~Twins(t)) => sends[Key(t)] <= 1 + lost[Key(t)]

\* Once the row of a recipient is written, no later attempt mails it again
\* (checkNewsletterAlreadySent), under the same two conditions.
NoResendAfterRow ==
    [][\A t \in Tasks :
          (Key(t) \in messageRows /\ BatchOf[t] \notin overlapped /\ ~Twins(t))
             => sends'[Key(t)] = sends[Key(t)]]_vars

\* The worker can always load what it was told to send: the id is queued only
\* after the batch row is written (order of the two calls in addNewsletterToQueue).
QueuedBatchHasRow == \A b \in Batches : msg[b] # "absent" => b \in batchRows

(* The inductive invariant behind the safety properties, part by part.     *)

\* A handler is busy exactly while it holds a batch.
BusyHoldsBatch == \A p \in Procs : holding[p] = None <=> pc[p] = "polling"

\* A batch nobody else was handed while it was in hand has one handler.
HeldAlone ==
    \A p, q \in Procs :
        (holding[p] = holding[q] /\ holding[p] # None /\ holding[p] \notin overlapped) => p = q

\* The task queue of a process has the tasks of the batch it is sending.
TasksOfHeldBatch ==
    \A p \in Procs : \A t \in Tasks :
        task[p][t] # "none" <=> (pc[p] \in {"sending", "acking"} /\ BatchOf[t] = holding[p])

DoneHasRow ==
    \A p \in Procs : \A t \in Tasks : task[p][t] = "done" => Key(t) \in messageRows

AckingIsDone ==
    \A p \in Procs : pc[p] = "acking" => \A t \in TasksOf(holding[p]) : task[p][t] = "done"

CreatedHasRow == \A b \in Batches : request[b] = "created" => b \in batchRows

HeldWasQueued == \A p \in Procs : holding[p] # None => msg[holding[p]] # "absent"

\* The recipients the idempotency guard protects.
Guarded(t) == BatchOf[t] \notin overlapped /\ ~Twins(t)

\* Between its check and its row a guarded task has no row.
SendingHasNoRow ==
    \A p \in Procs : \A t \in Tasks :
        (Guarded(t) /\ task[p][t] \in {"checked", "accepted"}) => Key(t) \notin messageRows

\* Without a row, and with no send in flight, every accepted e-mail was lost.
UnrecordedAreLost ==
    \A t \in Tasks :
        (Guarded(t) /\ Key(t) \notin messageRows /\ \A p \in Procs : task[p][t] # "accepted")
            => sends[Key(t)] <= lost[Key(t)]

SendingInv ==
    /\ TypeOK
    /\ BusyHoldsBatch /\ HeldAlone /\ TasksOfHeldBatch /\ DoneHasRow /\ AckingIsDone
    /\ CreatedHasRow /\ HeldWasQueued /\ QueuedBatchHasRow
    /\ AckedBatchIsFullySent
    /\ SendingHasNoRow /\ UnrecordedAreLost /\ DuplicatesBoundedByLostRows

\* A newsletter Ghost got a 200 for is eventually sent to every recipient and
\* acknowledged, whatever finite number of calls fail and processes die, and
\* although a batch that can never be prepared keeps coming back.
AcceptedIsEventuallySent ==
    \A b \in Batches \ Poison :
        request[b] = "accepted" ~>
            (msg[b] = "deleted" /\ \A t \in TasksOf(b) : Key(t) \in messageRows)

\* A SES failure leaves a row in NewsletterErrors when the database is up
\* ("Records result in DB", comment of sendSingleEmail).
SesFailureIsRecorded ==
    \A k \in sesFailures : \E e \in errorRows : e[2] = k[2]

=============================================================================
