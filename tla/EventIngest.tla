---------------------------- MODULE EventIngest ----------------------------
(***************************************************************************)
(* SES reports what became of an e-mail as an event on an SQS queue; the   *)
(* event processor stores it as a notification of the e-mail's row. The    *)
(* row is written by the sender only after SES accepted the e-mail, may    *)
(* never be written, and is removed by retention: an event whose e-mail    *)
(* has no row goes to the orphan ledger (newsletters) or back to the queue *)
(* (system mail). An operator reconciles an orphan once the row exists.    *)
(***************************************************************************)
EXTENDS Naturals, FiniteSets

CONSTANTS
    Mails,        \* e-mails, by SES messageId
    Newsletter,   \* the ones sent for a newsletter; the rest is system mail
    Events,       \* SQS messages with an event, by MessageId (notificationId)
    MailOf,       \* the e-mail an event is about
    Untracked,    \* events without a ghost-email or transactional-email tag
    Malformed,    \* messages without a body or with one that does not parse
    SesType,      \* the eventType of an event
    Handlers,     \* handler calls that can be under way at the same time
    Reconcilers,  \* runs of the reconciliation script
    None,
    MaxFaults     \* bound: failed database and SQS calls

SesTypes == {"Reject", "Bounce", "Complaint", "Subscription", "Click", "Open",
             "RenderingFailure", "Delivery", "Send", "DeliveryDelay"}

ASSUME IngestConstants ==
    /\ Newsletter \subseteq Mails
    /\ MailOf \in [Events -> Mails]
    /\ Untracked \subseteq Events
    /\ Malformed \subseteq Events
    /\ SesType \in [Events -> SesTypes]
    /\ None \notin Events
    /\ MaxFaults \in Nat

VARIABLES
    mail,           \* each e-mail: sent by SES, and its row in the database
    queue,          \* each event's SQS message
    pc,             \* where each handler call is
    holding,        \* the event each handler call works on
    notifications,  \* NewsletterNotifications and SystemMailNotifications
    orphans,        \* NewsletterNotificationOrphan, by notificationId
    reconciled,     \* the orphans with reconciledAt set
    reconciling,    \* the orphan each run has read, before its writes
    faults,         \* failures so far
    purged          \* history: notifications removed by retention

tables == <<notifications, orphans, reconciled>>
vars == <<mail, queue, pc, holding, tables, reconciling, faults, purged>>

IsNewsletter(e) == MailOf[e] \in Newsletter
HasRow(e) == mail[MailOf[e]] = "recorded"

TypeOK ==
    /\ mail \in [Mails -> {"unsent", "accepted", "recorded", "unrecorded", "retired"}]
    /\ queue \in [Events -> {"absent", "visible", "inflight", "acked"}]
    /\ pc \in [Handlers -> {"idle", "lookup", "saving", "orphaning", "acking"}]
    /\ holding \in [Handlers -> Events \cup {None}]
    /\ notifications \subseteq Events
    /\ orphans \subseteq Events
    /\ reconciled \subseteq orphans
    /\ reconciling \in [Reconcilers -> Events \cup {None}]
    /\ faults \in 0..MaxFaults
    /\ purged \subseteq Events

Init ==
    /\ mail = [m \in Mails |-> "unsent"]
    /\ queue = [e \in Events |-> "absent"]
    /\ pc = [h \in Handlers |-> "idle"]
    /\ holding = [h \in Handlers |-> None]
    /\ notifications = {}
    /\ orphans = {}
    /\ reconciled = {}
    /\ reconciling = [r \in Reconcilers |-> None]
    /\ faults = 0
    /\ purged = {}

Fault == faults < MaxFaults /\ faults' = faults + 1
NoFault == UNCHANGED faults

-----------------------------------------------------------------------------
(* The life of an e-mail's row, and of the queue.                          *)

MailStep(m, from, to) == mail[m] = from /\ mail' = [mail EXCEPT ![m] = to]

SesAccepts(m) ==
    /\ MailStep(m, "unsent", "accepted")
    /\ NoFault
    /\ UNCHANGED <<queue, pc, holding, tables, reconciling, purged>>

\* createNewsletterEntry, or systemMails.create in sendSystemMail.
RecordMail(m) ==
    /\ MailStep(m, "accepted", "recorded")
    /\ NoFault
    /\ UNCHANGED <<queue, pc, holding, tables, reconciling, purged>>

RecordMailFails(m) ==
    /\ MailStep(m, "accepted", "unrecorded")
    /\ Fault
    /\ UNCHANGED <<queue, pc, holding, tables, reconciling, purged>>

\* An operator restores the mapping of a newsletter e-mail by hand.
RestoreMail(m) ==
    /\ m \in Newsletter
    /\ MailStep(m, "unrecorded", "recorded")
    /\ NoFault
    /\ UNCHANGED <<queue, pc, holding, tables, reconciling, purged>>

\* Retention removes the e-mail's notifications and its row in one
\* serializable transaction, unless an open orphan points at it.
RetireMail(m) ==
    /\ m \in Newsletter
    /\ ~ \E e \in orphans \ reconciled : MailOf[e] = m
    /\ MailStep(m, "recorded", "retired")
    /\ LET gone == {e \in notifications : MailOf[e] = m} IN
       /\ notifications' = notifications \ gone
       /\ purged' = purged \cup gone
    /\ NoFault
    /\ UNCHANGED <<queue, pc, holding, orphans, reconciled, reconciling>>

\* SES emits an event any time after it accepted the e-mail.
EmitEvent(e) ==
    /\ queue[e] = "absent"
    /\ mail[MailOf[e]] # "unsent"
    /\ queue' = [queue EXCEPT ![e] = "visible"]
    /\ NoFault
    /\ UNCHANGED <<mail, pc, holding, tables, reconciling, purged>>

Expire(e) ==
    /\ queue[e] = "inflight"
    /\ queue' = [queue EXCEPT ![e] = "visible"]
    /\ NoFault
    /\ UNCHANGED <<mail, pc, holding, tables, reconciling, purged>>

-----------------------------------------------------------------------------
(* createEventProcessor: one handler call per received event.              *)

At(h, place) == pc[h] = place

Goto(h, place) == pc' = [pc EXCEPT ![h] = place] /\ UNCHANGED holding

\* The handler throws: the message stays in the queue.
LetGo(h) ==
    /\ pc' = [pc EXCEPT ![h] = "idle"]
    /\ holding' = [holding EXCEPT ![h] = None]

\* A malformed message is thrown out before the first await.
Receive(h, e) ==
    /\ At(h, "idle")
    /\ queue[e] = "visible"
    /\ queue' = [queue EXCEPT ![e] = "inflight"]
    /\ \/ e \in Malformed /\ UNCHANGED <<pc, holding>>
       \/ /\ e \notin Malformed
          /\ pc' = [pc EXCEPT ![h] = IF e \in Untracked THEN "acking" ELSE "lookup"]
          /\ holding' = [holding EXCEPT ![h] = e]
    /\ NoFault
    /\ UNCHANGED <<mail, tables, reconciling, purged>>

\* Where an event without a parent goes: persistMissingParent. Mutation: it
\* is taken for an event nobody tracks.
MissingParent_Acked(h) == Goto(h, "acking")
MissingParent(h) ==
    \/ IsNewsletter(holding[h]) /\ Goto(h, "orphaning")
    \/ ~IsNewsletter(holding[h]) /\ LetGo(h)

Lookup(h) ==
    /\ At(h, "lookup")
    /\ \/ HasRow(holding[h]) /\ Goto(h, "saving")
       \/ ~HasRow(holding[h]) /\ MissingParent(h)
    /\ NoFault
    /\ UNCHANGED <<mail, queue, tables, reconciling, purged>>

\* The upsert by notificationId. The row can be gone since the lookup: MySQL
\* then reports the foreign key (P2003).
SaveNotification(h) ==
    /\ At(h, "saving")
    /\ \/ /\ HasRow(holding[h])
          /\ notifications' = notifications \cup {holding[h]}
          /\ Goto(h, "acking")
       \/ /\ ~HasRow(holding[h])
          /\ UNCHANGED notifications
          /\ MissingParent(h)
    /\ NoFault
    /\ UNCHANGED <<mail, queue, orphans, reconciled, reconciling, purged>>

\* The upsert into the ledger; reconciledAt is not among its columns.
\* Mutation: a redelivered event opens its orphan again.
UpsertOrphan_Reopens(e) == orphans' = orphans \cup {e} /\ reconciled' = reconciled \ {e}
UpsertOrphan(e) == orphans' = orphans \cup {e} /\ UNCHANGED reconciled

SaveOrphan(h) ==
    /\ At(h, "orphaning")
    /\ UpsertOrphan(holding[h])
    /\ Goto(h, "acking")
    /\ NoFault
    /\ UNCHANGED <<mail, queue, notifications, reconciling, purged>>

\* A query fails; a write may have happened before the connection broke. Also a
\* P2003 that does not name its field, which the handler rethrows.
QueryFails(h) ==
    /\ Fault
    /\ \/ At(h, "lookup") /\ UNCHANGED tables
       \/ /\ At(h, "saving")
          /\ notifications' \in {notifications} \cup
                (IF HasRow(holding[h]) THEN {notifications \cup {holding[h]}} ELSE {})
          /\ UNCHANGED <<orphans, reconciled>>
       \/ /\ At(h, "orphaning")
          /\ \/ UNCHANGED <<orphans, reconciled>>
             \/ UpsertOrphan(holding[h])
          /\ UNCHANGED notifications
    /\ LetGo(h)
    /\ UNCHANGED <<mail, queue, reconciling, purged>>

Acknowledge(h) ==
    /\ At(h, "acking")
    /\ queue' = [queue EXCEPT ![holding[h]] = "acked"]
    /\ LetGo(h)
    /\ NoFault
    /\ UNCHANGED <<mail, tables, reconciling, purged>>

AcknowledgeFails(h) ==
    /\ At(h, "acking")
    /\ Fault
    /\ queue' \in {queue, [queue EXCEPT ![holding[h]] = "acked"]}
    /\ LetGo(h)
    /\ UNCHANGED <<mail, tables, reconciling, purged>>

-----------------------------------------------------------------------------
(* reconcileNewsletterNotificationOrphan, run by an operator: its reads,   *)
(* then its two writes in one transaction.                                 *)

IsOpenOrphan(e) == e \in orphans \ reconciled

\* The answers that write nothing (absent, already_reconciled and
\* parent_missing) leave the state as it is.
ReconcileReads(r, e) ==
    /\ reconciling[r] = None
    /\ IsOpenOrphan(e)
    /\ HasRow(e)
    /\ reconciling' = [reconciling EXCEPT ![r] = e]
    /\ NoFault
    /\ UNCHANGED <<mail, queue, pc, holding, tables, purged>>

\* The row may be gone by now: the upsert fails and all is rolled back.
ReconcileWrites(r) ==
    /\ reconciling[r] # None
    /\ LET e == reconciling[r] IN
       \/ /\ HasRow(e)
          /\ notifications' = notifications \cup {e}
          /\ reconciled' = reconciled \cup {e}
       \/ ~HasRow(e) /\ UNCHANGED <<notifications, reconciled>>
    /\ reconciling' = [reconciling EXCEPT ![r] = None]
    /\ NoFault
    /\ UNCHANGED <<mail, queue, pc, holding, orphans, purged>>

\* A query fails and the transaction is rolled back. Mutation: the two writes
\* are not in one transaction, and the upsert is the one that fails.
ReconcileFails_MarkKept(r) ==
    /\ reconciling[r] # None
    /\ Fault
    /\ reconciled' = reconciled \cup {reconciling[r]}
    /\ reconciling' = [reconciling EXCEPT ![r] = None]
    /\ UNCHANGED <<mail, queue, pc, holding, notifications, orphans, purged>>

ReconcileFails(r) ==
    /\ reconciling[r] # None
    /\ Fault
    /\ reconciling' = [reconciling EXCEPT ![r] = None]
    /\ UNCHANGED <<mail, queue, pc, holding, tables, purged>>

-----------------------------------------------------------------------------
HandlerStep(h) ==
    \/ Lookup(h) \/ SaveNotification(h) \/ SaveOrphan(h) \/ QueryFails(h)
    \/ Acknowledge(h) \/ AcknowledgeFails(h)

\* An empty long poll: nothing to do until SES emits an event.
IdlePoll ==
    /\ \A h \in Handlers : At(h, "idle")
    /\ UNCHANGED vars

Next ==
    \/ \E m \in Mails :
          \/ SesAccepts(m) \/ RecordMail(m) \/ RecordMailFails(m)
          \/ RestoreMail(m) \/ RetireMail(m)
    \/ \E e \in Events : EmitEvent(e) \/ Expire(e)
    \/ \E h \in Handlers : HandlerStep(h) \/ \E e \in Events : Receive(h, e)
    \/ \E r \in Reconcilers :
          \/ \E e \in Events : ReconcileReads(r, e)
          \/ ReconcileWrites(r) \/ ReconcileFails(r)
    \/ IdlePoll

Spec == Init /\ [][Next]_vars

\* The worker keeps polling and its calls settle; SQS redelivers and does not
\* starve an event. Nothing is assumed of senders, operators or retention.
Fairness ==
    /\ \A h \in Handlers : WF_vars(HandlerStep(h))
    /\ \A e \in Events :
          /\ WF_vars(Expire(e))
          /\ SF_vars(\E h \in Handlers : Receive(h, e))

FairSpec == Spec /\ Fairness

-----------------------------------------------------------------------------
(* Properties.                                                             *)

Tracked == Events \ (Untracked \cup Malformed)

\* No tracked event is lost: once it is off the queue it is a notification, an
\* entry of the orphan ledger, or was stored and then removed by retention -
\* however the e-mail's row came and went while the handler was at work.
AckedEventIsDurable ==
    \A e \in Tracked : queue[e] = "acked" => e \in notifications \cup orphans \cup purged

\* An orphan marked reconciled has become a notification, also when two runs
\* of the script and retention race (one transaction for both writes).
ReconciledIsStored == reconciled \subseteq notifications \cup purged

\* Once an orphan is reconciled it stays so: a late redelivery of its event
\* does not open it again ("Re-running an already reconciled ID returns
\* already_reconciled without writing").
ReconciledForGood == [][reconciled \subseteq reconciled']_vars

\* Every tracked event of a newsletter is stored sooner or later, in one table
\* or the other, even if the e-mail's row never appears. A system event that
\* overtook its e-mail's row is retried and stored once the row is there (system
\* events have no ledger: the handler throws).
TrackedEventIsStored ==
    \A e \in Tracked :
        /\ IsNewsletter(e) =>
             ((queue[e] # "absent") ~> (e \in notifications \cup orphans \cup purged))
        /\ ~IsNewsletter(e) =>
             ((queue[e] # "absent" /\ HasRow(e)) ~> (e \in notifications))

-----------------------------------------------------------------------------
(* The type column, and the dashboard's totals.                            *)

\* awsToMailgunType, lower-cased by parseNotificationEvent.
AwsToMailgunType ==
    [Reject |-> "rejected", Bounce |-> "failed", Complaint |-> "complained",
     Subscription |-> "unsubscribed", Click |-> "clicked", Open |-> "opened",
     RenderingFailure |-> "rejected", Delivery |-> "delivered", Send |-> "accepted"]

StoredType(e) ==
    IF SesType[e] \in DOMAIN AwsToMailgunType THEN AwsToMailgunType[SesType[e]] ELSE "unknown"

\* newsletterNotifications.count({ where: { type } }) in the stats route.
CountByType(type) ==
    Cardinality({e \in notifications : IsNewsletter(e) /\ StoredType(e) = type})

TotalDelivered == CountByType("Delivery")
TotalBounced == CountByType("Bounce")
TotalComplaints == CountByType("Complaint")

\* The overview counts what was stored ("Stats Overview: Total batches,
\* messages, errors, delivery rate, bounces, complaints", DASHBOARD.md).
OverviewCountsStoredEvents ==
    LET stored(type) == Cardinality({e \in notifications : IsNewsletter(e) /\ SesType[e] = type}) IN
    /\ TotalDelivered = stored("Delivery")
    /\ TotalBounced = stored("Bounce")
    /\ TotalComplaints = stored("Complaint")

=============================================================================
