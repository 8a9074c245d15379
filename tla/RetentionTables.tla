-------------------------- MODULE RetentionTables --------------------------
(***************************************************************************)
(* The tables newsletter retention reads and deletes from, and the rest of *)
(* the proxy writing to them at the same time: the sender stores e-mails   *)
(* of a batch, event ingestion stores notifications and orphans, an        *)
(* operator reconciles an orphan. NewsletterErrors only has old rows: the  *)
(* sender's insert breaks the foreign key (see SesFailureIsRecorded of     *)
(* NewsletterSender). Rows are never updated in a column retention reads,  *)
(* so a row is its primary key.                                            *)
(***************************************************************************)
EXTENDS Naturals, FiniteSets

CONSTANTS
    Batches,         \* NewsletterBatch rows, by id
    Messages,        \* NewsletterMessages rows, by messageId
    Errors,          \* NewsletterErrors rows
    Notifications,   \* SES events, by notificationId
    SiteOf,          \* a batch's siteId
    BatchIdOf,       \* a batch's public batchId: not unique
    CreatedOf,       \* a batch's creation time
    BatchOf,         \* the batch an e-mail or a failure belongs to
    MessageOf        \* the e-mail an event is about

ASSUME TableConstants ==
    /\ IsFiniteSet(Batches) /\ IsFiniteSet(Messages)
    /\ IsFiniteSet(Errors) /\ IsFiniteSet(Notifications)
    /\ Messages \cap (Batches \cup Errors \cup Notifications) = {}
    /\ Batches \subseteq Nat
    /\ BatchIdOf \in [Batches -> Nat]
    /\ CreatedOf \in [Batches -> Nat]
    /\ DOMAIN SiteOf = Batches
    /\ BatchOf \in [Messages \cup Errors -> Batches]
    /\ MessageOf \in [Notifications -> Messages]

VARIABLES
    batches,         \* NewsletterBatch
    messages,        \* NewsletterMessages
    errors,          \* NewsletterErrors
    notifications,   \* NewsletterNotifications
    orphans,         \* NewsletterNotificationOrphan: absent, open, reconciled
    deleted          \* history: the rows retention deleted

tables == <<batches, messages, errors, notifications, orphans, deleted>>

Rows == Batches \cup Messages \cup Errors \cup Notifications

TablesTypeOK ==
    /\ batches \subseteq Batches
    /\ messages \subseteq Messages
    /\ errors \subseteq Errors
    /\ notifications \subseteq Notifications
    /\ orphans \in [Notifications -> {"absent", "open", "reconciled"}]
    /\ deleted \subseteq Rows

TablesInit ==
    /\ batches = Batches
    /\ messages = {}
    /\ errors = Errors
    /\ notifications = {}
    /\ orphans = [n \in Notifications |-> "absent"]
    /\ deleted = {}

(***************************************************************************)
(* What the loaders select. A batch's notifications are found through the  *)
(* e-mails' foreign key, the open orphans by messageId.                    *)
(***************************************************************************)
MessagesIn(b) == {m \in messages : BatchOf[m] = b}
ErrorsIn(b) == {e \in errors : BatchOf[e] = b}
NotificationsIn(b) == {n \in notifications : BatchOf[MessageOf[n]] = b}
NotificationsOn(ms) == {n \in notifications : MessageOf[n] \in ms}
OpenOrphansOn(ms) ==
    {n \in Notifications : orphans[n] = "open" /\ MessageOf[n] \in ms}

Snapshot(b) ==
    [id |-> b, messages |-> MessagesIn(b), errors |-> ErrorsIn(b),
     notifications |-> NotificationsIn(b)]

RowsIn(rec) == {rec.id} \cup rec.messages \cup rec.errors \cup rec.notifications

----------------------------------------------------------------------------
(***************************************************************************)
(* The other writers. The foreign keys refuse a row without its parent. An *)
(* event that found no e-mail is stored as an orphan, possibly after the   *)
(* e-mail's row was written; a reconciled orphan is not opened again.      *)
(***************************************************************************)
CreateNewsletterEntry(m) ==
    /\ m \notin messages \cup deleted
    /\ BatchOf[m] \in batches
    /\ messages' = messages \cup {m}
    /\ UNCHANGED <<batches, errors, notifications, orphans, deleted>>

SaveNewsletterNotification(n) ==
    /\ n \notin notifications
    /\ MessageOf[n] \in messages
    /\ notifications' = notifications \cup {n}
    /\ UNCHANGED <<batches, messages, errors, orphans, deleted>>

SaveNewsletterNotificationOrphan(n) ==
    /\ orphans[n] = "absent"
    /\ orphans' = [orphans EXCEPT ![n] = "open"]
    /\ UNCHANGED <<batches, messages, errors, notifications, deleted>>

ReconcileNewsletterNotificationOrphan(n) ==
    /\ orphans[n] = "open"
    /\ MessageOf[n] \in messages
    /\ notifications' = notifications \cup {n}
    /\ orphans' = [orphans EXCEPT ![n] = "reconciled"]
    /\ UNCHANGED <<batches, messages, errors, deleted>>

Writers ==
    \/ \E m \in Messages : CreateNewsletterEntry(m)
    \/ \E n \in Notifications :
          \/ SaveNewsletterNotification(n)
          \/ SaveNewsletterNotificationOrphan(n)
          \/ ReconcileNewsletterNotificationOrphan(n)

DeleteBatch_KeepsNotifications(b) ==
    /\ deleted' = deleted \cup {b} \cup MessagesIn(b) \cup ErrorsIn(b)
    /\ errors' = errors \ ErrorsIn(b)
    /\ messages' = messages \ MessagesIn(b)
    /\ batches' = batches \ {b}
    /\ UNCHANGED <<notifications, orphans>>

(***************************************************************************)
(* The deletes of one apply transaction: notifications of the e-mails read *)
(* in it, failures and e-mails by foreign key, then the batch itself.      *)
(***************************************************************************)
DeleteBatch(b) ==
    /\ deleted' = deleted \cup {b} \cup MessagesIn(b) \cup ErrorsIn(b)
                           \cup NotificationsOn(MessagesIn(b))
    /\ notifications' = notifications \ NotificationsOn(MessagesIn(b))
    /\ errors' = errors \ ErrorsIn(b)
    /\ messages' = messages \ MessagesIn(b)
    /\ batches' = batches \ {b}
    /\ UNCHANGED orphans

=============================================================================
