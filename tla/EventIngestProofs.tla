------------------------- MODULE EventIngestProofs -------------------------
(***************************************************************************)
(* Proofs about EventIngest: for any number of e-mails, events, handler    *)
(* calls and reconciliation runs, an event that left the queue is stored   *)
(* somewhere, and an orphan marked reconciled is a notification and stays  *)
(* marked.                                                                 *)
(***************************************************************************)
EXTENDS EventIngest, TLAPS

\* Where an event can be once the processor has dealt with it.
Stored == notifications \cup orphans \cup purged

\* What a handler call knows about its event at each of its awaits: it got past
\* the parser, only a tracked one is looked up, and one about to be
\* acknowledged is stored.
HandlersKnowTheirEvent ==
    \A h \in Handlers :
        /\ pc[h] # "idle" => holding[h] \in Events \ Malformed
        /\ pc[h] \in {"lookup", "saving", "orphaning"} => holding[h] \notin Untracked
        /\ (pc[h] = "acking" /\ holding[h] \notin Untracked) => holding[h] \in Stored

\* A run of the script that is about to write has read an entry of the ledger.
RunsReadTheLedger ==
    \A r \in Reconcilers : reconciling[r] # None => reconciling[r] \in orphans

IndInv ==
    /\ TypeOK
    /\ HandlersKnowTheirEvent
    /\ RunsReadTheLedger
    /\ AckedEventIsDurable
    /\ ReconciledIsStored

\* Before the first event nothing is held, read, acknowledged or stored.
LEMMA InitIndInv == Init => IndInv
<1> SUFFICES ASSUME Init PROVE IndInv
  OBVIOUS
<1>1. TypeOK
  BY IngestConstants DEF Init, TypeOK
<1>2. HandlersKnowTheirEvent /\ RunsReadTheLedger
  BY DEF Init, HandlersKnowTheirEvent, RunsReadTheLedger
<1>3. AckedEventIsDurable /\ ReconciledIsStored
  BY DEF Init, AckedEventIsDurable, ReconciledIsStored, Tracked
<1> QED BY <1>1, <1>2, <1>3 DEF IndInv

-----------------------------------------------------------------------------
(* The three tables and the history of retention.                          *)

\* No step takes an event out of storage: retention moves notifications to the
\* purged ones, every other write adds. Orphans and marks are only added.
LEMMA StorageGrows ==
    ASSUME IndInv, [Next]_vars
    PROVE  /\ Stored \subseteq Stored'
           /\ notifications \cup purged \subseteq (notifications \cup purged)'
           /\ orphans \subseteq orphans'
           /\ reconciled \subseteq reconciled'
<1> DEFINE Goal == /\ Stored \subseteq Stored'
                   /\ notifications \cup purged \subseteq (notifications \cup purged)'
                   /\ orphans \subseteq orphans'
                   /\ reconciled \subseteq reconciled'
<1> USE DEF Stored, tables
<1>1. ASSUME NEW m \in Mails, SesAccepts(m) \/ RecordMail(m) \/ RecordMailFails(m) \/ RestoreMail(m)
      PROVE  Goal
  BY <1>1 DEF SesAccepts, RecordMail, RecordMailFails, RestoreMail
<1>2. ASSUME NEW m \in Mails, RetireMail(m) PROVE Goal
  BY <1>2 DEF RetireMail
<1>3. ASSUME NEW e \in Events, EmitEvent(e) \/ Expire(e) PROVE Goal
  BY <1>3 DEF EmitEvent, Expire
<1>4. ASSUME NEW h \in Handlers, HandlerStep(h) PROVE Goal
  <2>1. CASE Lookup(h)
    BY <2>1 DEF Lookup
  <2>2. CASE SaveNotification(h)
    BY <2>2 DEF SaveNotification
  <2>3. CASE SaveOrphan(h)
    BY <2>3 DEF SaveOrphan, UpsertOrphan
  <2>4. CASE QueryFails(h)
    BY <2>4 DEF QueryFails, UpsertOrphan
  <2>5. CASE Acknowledge(h) \/ AcknowledgeFails(h)
    BY <2>5 DEF Acknowledge, AcknowledgeFails
  <2> QED BY <1>4, <2>1, <2>2, <2>3, <2>4, <2>5 DEF HandlerStep
<1>5. ASSUME NEW h \in Handlers, NEW e \in Events, Receive(h, e) PROVE Goal
  BY <1>5 DEF Receive
<1>6. ASSUME NEW r \in Reconcilers, NEW e \in Events, ReconcileReads(r, e) PROVE Goal
  BY <1>6 DEF ReconcileReads
<1>7. ASSUME NEW r \in Reconcilers, ReconcileWrites(r) \/ ReconcileFails(r) PROVE Goal
  BY <1>7 DEF ReconcileWrites, ReconcileFails
<1>8. CASE IdlePoll \/ UNCHANGED vars
  BY <1>8 DEF IdlePoll, vars
<1> QED BY <1>1, <1>2, <1>3, <1>4, <1>5, <1>6, <1>7, <1>8 DEF Next

-----------------------------------------------------------------------------
(* One step preserves the inductive invariant, part by part.               *)

\* Every variable keeps its type; a mark is only set on an entry of the ledger,
\* which is why the run of the script must have read one.
LEMMA TypeStep == IndInv /\ [Next]_vars => TypeOK'
<1> SUFFICES ASSUME IndInv, [Next]_vars PROVE TypeOK'
  OBVIOUS
<1> USE IngestConstants DEF IndInv, TypeOK, tables
<1>1. ASSUME NEW m \in Mails, SesAccepts(m) \/ RecordMail(m) \/ RecordMailFails(m) \/ RestoreMail(m)
      PROVE  TypeOK'
  BY <1>1 DEF SesAccepts, RecordMail, RecordMailFails, RestoreMail, MailStep, Fault, NoFault
<1>2. ASSUME NEW m \in Mails, RetireMail(m) PROVE TypeOK'
  BY <1>2 DEF RetireMail, MailStep, NoFault
<1>3. ASSUME NEW e \in Events, EmitEvent(e) \/ Expire(e) PROVE TypeOK'
  BY <1>3 DEF EmitEvent, Expire, NoFault
<1>4. ASSUME NEW h \in Handlers, HandlerStep(h) PROVE TypeOK'
  <2>a. pc[h] # "idle" => holding[h] \in Events
    BY DEF HandlersKnowTheirEvent
  <2>1. CASE Lookup(h)
    BY <2>1 DEF Lookup, At, Goto, MissingParent, LetGo, NoFault
  <2>2. CASE SaveNotification(h)
    BY <2>a, <2>2 DEF SaveNotification, At, Goto, MissingParent, LetGo, NoFault
  <2>3. CASE SaveOrphan(h)
    BY <2>a, <2>3 DEF SaveOrphan, UpsertOrphan, At, Goto, NoFault
  <2>4. CASE QueryFails(h)
    BY <2>a, <2>4 DEF QueryFails, UpsertOrphan, At, LetGo, Fault
  <2>5. CASE Acknowledge(h) \/ AcknowledgeFails(h)
    BY <2>a, <2>5 DEF Acknowledge, AcknowledgeFails, At, LetGo, Fault, NoFault
  <2> QED BY <1>4, <2>1, <2>2, <2>3, <2>4, <2>5 DEF HandlerStep
<1>5. ASSUME NEW h \in Handlers, NEW e \in Events, Receive(h, e) PROVE TypeOK'
  BY <1>5 DEF Receive, NoFault
<1>6. ASSUME NEW r \in Reconcilers, NEW e \in Events, ReconcileReads(r, e) PROVE TypeOK'
  BY <1>6 DEF ReconcileReads, NoFault
<1>7. ASSUME NEW r \in Reconcilers, ReconcileWrites(r) \/ ReconcileFails(r) PROVE TypeOK'
  BY <1>7 DEF ReconcileWrites, ReconcileFails, RunsReadTheLedger, Fault, NoFault
<1>8. CASE IdlePoll \/ UNCHANGED vars
  BY <1>8 DEF IdlePoll, vars
<1> QED BY <1>1, <1>2, <1>3, <1>4, <1>5, <1>6, <1>7, <1>8 DEF Next

\* A handler call moves on with what it knows. It reaches the acknowledgement
\* with an untracked event, or right after the write that stored its event, and
\* whatever retention and the script do meanwhile, the event stays stored.
LEMMA HandlersStep == IndInv /\ [Next]_vars => HandlersKnowTheirEvent'
<1> SUFFICES ASSUME IndInv, [Next]_vars PROVE HandlersKnowTheirEvent'
  OBVIOUS
<1>g. Stored \subseteq Stored'
  BY StorageGrows
<1>a. ASSUME UNCHANGED <<pc, holding>> PROVE HandlersKnowTheirEvent'
  BY <1>a, <1>g DEF IndInv, HandlersKnowTheirEvent
<1>b. ASSUME NEW h \in Handlers, LetGo(h) PROVE HandlersKnowTheirEvent'
  BY <1>b, <1>g DEF IndInv, TypeOK, HandlersKnowTheirEvent, LetGo
<1>c. ASSUME NEW h \in Handlers, NEW place \in {"saving", "orphaning"},
             pc[h] \in {"lookup", "saving"}, Goto(h, place)
      PROVE  HandlersKnowTheirEvent'
  BY <1>c, <1>g DEF IndInv, TypeOK, HandlersKnowTheirEvent, Goto
<1>d. ASSUME NEW h \in Handlers, pc[h] \in {"saving", "orphaning"}, Goto(h, "acking"),
             holding[h] \in Stored'
      PROVE  HandlersKnowTheirEvent'
  BY <1>d, <1>g DEF IndInv, TypeOK, HandlersKnowTheirEvent, Goto
<1>1. ASSUME NEW m \in Mails, SesAccepts(m) \/ RecordMail(m) \/ RecordMailFails(m) \/ RestoreMail(m)
                              \/ RetireMail(m)
      PROVE  HandlersKnowTheirEvent'
  BY <1>1, <1>a DEF SesAccepts, RecordMail, RecordMailFails, RestoreMail, RetireMail
<1>2. ASSUME NEW e \in Events, EmitEvent(e) \/ Expire(e) PROVE HandlersKnowTheirEvent'
  BY <1>2, <1>a DEF EmitEvent, Expire
<1>3. ASSUME NEW h \in Handlers, HandlerStep(h) PROVE HandlersKnowTheirEvent'
  <2>1. CASE Lookup(h)
    BY <2>1, <1>b, <1>c DEF Lookup, At, MissingParent
  <2>2. CASE SaveNotification(h)
    BY <2>2, <1>b, <1>c, <1>d DEF SaveNotification, At, MissingParent, Stored
  <2>3. CASE SaveOrphan(h)
    BY <2>3, <1>d DEF SaveOrphan, At, UpsertOrphan, Stored
  <2>4. CASE QueryFails(h)
    BY <2>4, <1>b DEF QueryFails
  <2>5. CASE Acknowledge(h) \/ AcknowledgeFails(h)
    BY <2>5, <1>b DEF Acknowledge, AcknowledgeFails
  <2> QED BY <1>3, <2>1, <2>2, <2>3, <2>4, <2>5 DEF HandlerStep
<1>4. ASSUME NEW h \in Handlers, NEW e \in Events, Receive(h, e) PROVE HandlersKnowTheirEvent'
  <2>1. CASE UNCHANGED <<pc, holding>>
    BY <2>1, <1>a
  <2>2. CASE /\ e \notin Malformed
             /\ pc' = [pc EXCEPT ![h] = IF e \in Untracked THEN "acking" ELSE "lookup"]
             /\ holding' = [holding EXCEPT ![h] = e]
    BY <2>2, <1>g DEF IndInv, TypeOK, HandlersKnowTheirEvent
  <2> QED BY <1>4, <2>1, <2>2 DEF Receive
<1>5. ASSUME NEW r \in Reconcilers, NEW e \in Events, ReconcileReads(r, e)
      PROVE  HandlersKnowTheirEvent'
  BY <1>5, <1>a DEF ReconcileReads
<1>6. ASSUME NEW r \in Reconcilers, ReconcileWrites(r) \/ ReconcileFails(r)
      PROVE  HandlersKnowTheirEvent'
  BY <1>6, <1>a DEF ReconcileWrites, ReconcileFails
<1>7. CASE IdlePoll \/ UNCHANGED vars
  BY <1>7, <1>a DEF IdlePoll, vars
<1> QED BY <1>1, <1>2, <1>3, <1>4, <1>5, <1>6, <1>7 DEF Next

\* Entries of the ledger are never removed, so what a run has read is there
\* when it writes.
LEMMA RunsStep == IndInv /\ [Next]_vars => RunsReadTheLedger'
<1> SUFFICES ASSUME IndInv, [Next]_vars PROVE RunsReadTheLedger'
  OBVIOUS
<1>g. orphans \subseteq orphans'
  BY StorageGrows
<1>a. ASSUME UNCHANGED reconciling PROVE RunsReadTheLedger'
  BY <1>a, <1>g DEF IndInv, RunsReadTheLedger
<1>1. ASSUME NEW m \in Mails, SesAccepts(m) \/ RecordMail(m) \/ RecordMailFails(m) \/ RestoreMail(m)
                              \/ RetireMail(m)
      PROVE  UNCHANGED reconciling
  BY <1>1 DEF SesAccepts, RecordMail, RecordMailFails, RestoreMail, RetireMail
<1>2. ASSUME NEW e \in Events, EmitEvent(e) \/ Expire(e) PROVE UNCHANGED reconciling
  BY <1>2 DEF EmitEvent, Expire
<1>3. ASSUME NEW h \in Handlers, HandlerStep(h) \/ \E e \in Events : Receive(h, e)
      PROVE  UNCHANGED reconciling
  BY <1>3 DEF HandlerStep, Lookup, SaveNotification, SaveOrphan, QueryFails, Acknowledge,
              AcknowledgeFails, Receive
<1>4. ASSUME NEW r \in Reconcilers, NEW e \in Events, ReconcileReads(r, e) PROVE RunsReadTheLedger'
  BY <1>4, <1>g DEF ReconcileReads, IsOpenOrphan, IndInv, TypeOK, RunsReadTheLedger
<1>5. ASSUME NEW r \in Reconcilers, ReconcileWrites(r) \/ ReconcileFails(r)
      PROVE  RunsReadTheLedger'
  BY <1>5, <1>g DEF ReconcileWrites, ReconcileFails, IndInv, TypeOK, RunsReadTheLedger
<1>6. CASE IdlePoll \/ UNCHANGED vars
  BY <1>6, <1>a DEF IdlePoll, vars
<1> QED BY <1>a, <1>1, <1>2, <1>3, <1>4, <1>5, <1>6 DEF Next

\* Only an acknowledgement takes an event off the queue for good, and the
\* handler that sends it knows the event is stored.
LEMMA AckedStep == IndInv /\ [Next]_vars => AckedEventIsDurable'
<1> SUFFICES ASSUME IndInv, [Next]_vars, NEW e \in Tracked, queue'[e] = "acked"
             PROVE  e \in Stored'
  BY DEF AckedEventIsDurable, Stored, Tracked
<1>g. Stored \subseteq Stored'
  BY StorageGrows
<1>a. e \in Events /\ e \notin Untracked /\ e \notin Malformed
  BY DEF Tracked
<1>b. queue[e] = "acked" => e \in Stored
  BY DEF IndInv, AckedEventIsDurable, Stored
<1>c. ASSUME UNCHANGED queue PROVE e \in Stored'
  BY <1>b, <1>c, <1>g
<1>1. ASSUME NEW m \in Mails, SesAccepts(m) \/ RecordMail(m) \/ RecordMailFails(m) \/ RestoreMail(m)
                              \/ RetireMail(m)
      PROVE  UNCHANGED queue
  BY <1>1 DEF SesAccepts, RecordMail, RecordMailFails, RestoreMail, RetireMail
<1>2. ASSUME NEW f \in Events, EmitEvent(f) \/ Expire(f) PROVE queue[e] = "acked"
  BY <1>2, <1>a DEF EmitEvent, Expire, IndInv, TypeOK
<1>3. ASSUME NEW h \in Handlers, HandlerStep(h) PROVE e \in Stored'
  <2>1. CASE Lookup(h) \/ SaveNotification(h) \/ SaveOrphan(h) \/ QueryFails(h)
    BY <2>1, <1>c DEF Lookup, SaveNotification, SaveOrphan, QueryFails
  <2>2. CASE Acknowledge(h) \/ AcknowledgeFails(h)
    <3>1. pc[h] = "acking"
      BY <2>2 DEF Acknowledge, AcknowledgeFails, At
    <3>2. CASE holding[h] = e
      BY <3>1, <3>2, <1>a, <1>g DEF IndInv, HandlersKnowTheirEvent
    <3>3. CASE holding[h] # e
      <4>1. queue'[e] = queue[e]
        BY <2>2, <3>3, <1>a DEF Acknowledge, AcknowledgeFails, IndInv, TypeOK
      <4> QED BY <4>1, <1>b, <1>g
    <3> QED BY <3>2, <3>3
  <2> QED BY <1>3, <2>1, <2>2 DEF HandlerStep
<1>4. ASSUME NEW h \in Handlers, NEW f \in Events, Receive(h, f) PROVE queue[e] = "acked"
  BY <1>4, <1>a DEF Receive, IndInv, TypeOK
<1>5. ASSUME NEW r \in Reconcilers,
             ReconcileWrites(r) \/ ReconcileFails(r) \/ \E f \in Events : ReconcileReads(r, f)
      PROVE  UNCHANGED queue
  BY <1>5 DEF ReconcileWrites, ReconcileFails, ReconcileReads
<1>6. CASE IdlePoll \/ UNCHANGED vars
  BY <1>6, <1>c DEF IdlePoll, vars
<1> QED BY <1>b, <1>c, <1>g, <1>1, <1>2, <1>3, <1>4, <1>5, <1>6 DEF Next

\* The mark and the notification are written in one transaction, and a marked
\* orphan's notification leaves the table only to retention.
LEMMA ReconciledStep == IndInv /\ [Next]_vars => ReconciledIsStored'
<1> SUFFICES ASSUME IndInv, [Next]_vars PROVE ReconciledIsStored'
  OBVIOUS
<1>g. notifications \cup purged \subseteq (notifications \cup purged)'
  BY StorageGrows
<1>a. ASSUME UNCHANGED reconciled PROVE ReconciledIsStored'
  BY <1>a, <1>g DEF IndInv, ReconciledIsStored
<1> USE DEF tables
<1>1. ASSUME NEW m \in Mails, SesAccepts(m) \/ RecordMail(m) \/ RecordMailFails(m) \/ RestoreMail(m)
                              \/ RetireMail(m)
      PROVE  UNCHANGED reconciled
  BY <1>1 DEF SesAccepts, RecordMail, RecordMailFails, RestoreMail, RetireMail
<1>2. ASSUME NEW e \in Events, EmitEvent(e) \/ Expire(e) PROVE UNCHANGED reconciled
  BY <1>2 DEF EmitEvent, Expire
<1>3. ASSUME NEW h \in Handlers, HandlerStep(h) \/ \E e \in Events : Receive(h, e)
      PROVE  UNCHANGED reconciled
  BY <1>3 DEF HandlerStep, Lookup, SaveNotification, SaveOrphan, UpsertOrphan, QueryFails,
              Acknowledge, AcknowledgeFails, Receive
<1>4. ASSUME NEW r \in Reconcilers, ReconcileFails(r) \/ \E e \in Events : ReconcileReads(r, e)
      PROVE  UNCHANGED reconciled
  BY <1>4 DEF ReconcileFails, ReconcileReads
<1>5. ASSUME NEW r \in Reconcilers, ReconcileWrites(r) PROVE ReconciledIsStored'
  BY <1>5 DEF ReconcileWrites, IndInv, ReconciledIsStored
<1>6. CASE IdlePoll \/ UNCHANGED vars
  BY <1>6, <1>a DEF IdlePoll, vars
<1> QED BY <1>a, <1>1, <1>2, <1>3, <1>4, <1>5, <1>6 DEF Next

-----------------------------------------------------------------------------
(* The theorems.                                                           *)

\* The inductive invariant holds in every reachable state.
LEMMA IndInvHolds == Spec => []IndInv
<1>1. Init => IndInv
  BY InitIndInv
<1>2. IndInv /\ [Next]_vars => IndInv'
  BY TypeStep, HandlersStep, RunsStep, AckedStep, ReconciledStep DEF IndInv
<1> QED BY <1>1, <1>2, PTL DEF Spec

\* Every variable of the event pipeline keeps its type; in particular only
\* entries of the ledger carry reconciledAt.
THEOREM IngestTypes == Spec => []TypeOK
<1>1. IndInv => TypeOK
  BY DEF IndInv
<1> QED BY <1>1, IndInvHolds, PTL

\* No tracked event is lost between the queue and the tables, whatever the
\* sender, retention, the other handler calls and failing queries do meanwhile.
THEOREM NoTrackedEventIsLost == Spec => []AckedEventIsDurable
<1>1. IndInv => AckedEventIsDurable
  BY DEF IndInv
<1> QED BY <1>1, IndInvHolds, PTL

\* An orphan with reconciledAt set has become a notification.
THEOREM ReconciledOrphansAreStored == Spec => []ReconciledIsStored
<1>1. IndInv => ReconciledIsStored
  BY DEF IndInv
<1> QED BY <1>1, IndInvHolds, PTL

\* No step clears reconciledAt, the upsert of a redelivered event included.
THEOREM ReconciliationIsForGood == Spec => ReconciledForGood
<1>1. IndInv /\ [Next]_vars => [reconciled \subseteq reconciled']_vars
  BY StorageGrows
<1> QED BY <1>1, IndInvHolds, PTL DEF Spec, ReconciledForGood

=============================================================================
