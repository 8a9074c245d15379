----------------------- MODULE NewsletterSenderProofs -----------------------
(***************************************************************************)
(* Proofs about the sending path, for any batches, recipients, processes,  *)
(* concurrency and number of failures.                                     *)
(***************************************************************************)
EXTENDS NewsletterSender, TLAPS

USE SenderConstants

-----------------------------------------------------------------------------
(* Type correctness.                                                       *)

\* The row of a task is one of the rows the tables range over.
LEMMA KeyOfTask ==
    ASSUME NEW t \in Tasks
    PROVE  /\ Key(t) \in Keys
           /\ SentRow(t) = Key(t)
           /\ BatchOf[t] \in Batches
           /\ AddressOf[t] \in Addresses
    BY DEF Key, Keys, SentRow

\* Initially every variable has its type.
LEMMA TypeInit == Init => TypeOK
    BY DEF Init, TypeOK, Unsettled

\* Letting go of a batch (LetGo) keeps the types of the handler's variables.
LEMMA TypeLetGo ==
    ASSUME TypeOK, NEW p \in Procs, LetGo(p)
    PROVE  /\ pc' \in [Procs -> {"polling", "loading", "sending", "acking"}]
           /\ holding' \in [Procs -> Batches \cup {None}]
           /\ task' \in [Procs -> [Tasks -> Unsettled \cup {"none", "done", "failed"}]]
    BY DEF TypeOK, LetGo

\* Every step keeps the types.
LEMMA TypeStep == TypeOK /\ [Next]_vars => TypeOK'
<1> SUFFICES ASSUME TypeOK, [Next]_vars
             PROVE  TypeOK'
    OBVIOUS
<1>1. CASE UNCHANGED vars
    BY <1>1 DEF TypeOK, vars
<1>2. ASSUME NEW b \in Batches,
             CreateBatchEntry(b) \/ CreateBatchEntryFails(b) \/ Enqueue(b)
                \/ EnqueueFails(b) \/ Expire(b)
      PROVE  TypeOK'
  <2>1. CASE CreateBatchEntry(b)
    BY <2>1 DEF TypeOK, CreateBatchEntry, NoFault, history
  <2>2. CASE CreateBatchEntryFails(b)
    BY <2>2 DEF TypeOK, CreateBatchEntryFails, Fault, database, history
  <2>3. CASE Enqueue(b)
    BY <2>3 DEF TypeOK, Enqueue, NoFault, database, history
  <2>4. CASE EnqueueFails(b)
    BY <2>4 DEF TypeOK, EnqueueFails, Fault, database, history
  <2>5. CASE Expire(b)
    BY <2>5 DEF TypeOK, Expire, NoFault, database, history
  <2> QED BY <1>2, <2>1, <2>2, <2>3, <2>4, <2>5
<1>3. ASSUME NEW p \in Procs, NEW b \in Batches, Receive(p, b)
      PROVE  TypeOK'
    BY <1>3 DEF TypeOK, Receive, NoFault, database
<1>4. ASSUME NEW p \in Procs, NEW t \in Tasks, SendTask(p, t)
      PROVE  TypeOK'
  <2>1. Key(t) \in Keys /\ SentRow(t) \in Keys
    BY KeyOfTask
  <2>2. CASE StartTask(p, t)
    BY <2>2 DEF TypeOK, StartTask, Move, NoFault, database, history, Unsettled
  <2>8. CASE StartTaskFails(p, t)
    BY <2>8 DEF TypeOK, StartTaskFails, Move, Fault, database, history, Unsettled
  <2>3. CASE SesAccept(p, t)
    BY <2>1, <2>3 DEF TypeOK, SesAccept, Move, NoFault, database, Unsettled
  <2>4. CASE SesReject(p, t)
    <3>1. sends' \in [Keys -> Nat] /\ lost' \in [Keys -> Nat]
      <4> [sends EXCEPT ![Key(t)] = @ + 1] \in [Keys -> Nat]
        BY <2>1 DEF TypeOK
      <4> [lost EXCEPT ![Key(t)] = @ + 1] \in [Keys -> Nat]
        BY <2>1 DEF TypeOK
      <4> QED BY <2>4 DEF TypeOK, SesReject
    <3>2. task' \in [Procs -> [Tasks -> Unsettled \cup {"none", "done", "failed"}]]
      BY <2>4 DEF TypeOK, SesReject, Move, Unsettled
    <3> QED BY <2>4, <3>1, <3>2 DEF TypeOK, SesReject, Fault, database
  <2>5. CASE RecordSent(p, t)
    BY <2>1, <2>5 DEF TypeOK, RecordSent, Move, NoFault, history, Unsettled
  <2>6. CASE RecordSentFails(p, t)
    <3>1. messageRows' \subseteq Keys /\ lost' \in [Keys -> Nat]
      BY <2>1, <2>6 DEF TypeOK, RecordSentFails
    <3>2. task' \in [Procs -> [Tasks -> Unsettled \cup {"none", "done", "failed"}]]
      BY <2>6 DEF TypeOK, RecordSentFails, Move, Unsettled
    <3> QED BY <2>6, <3>1, <3>2 DEF TypeOK, RecordSentFails, Fault
  <2>7. CASE RecordError(p, t)
    <3>1. ErrorEntryBatch(t) \in EmailIds /\ AddressOf[t] \in Addresses
      BY KeyOfTask DEF ErrorEntryBatch
    <3> QED BY <2>1, <2>7, <3>1 DEF TypeOK, RecordError, Move, Fault, NoFault, Unsettled
  <2> QED BY <1>4, <2>2, <2>3, <2>4, <2>5, <2>6, <2>7, <2>8 DEF SendTask
<1>5. ASSUME NEW p \in Procs, Handle(p)
      PROVE  TypeOK'
  <2>1. CASE LoadContent(p)
    BY <2>1 DEF TypeOK, LoadContent, NoFault, database, history, Unsettled
  <2>2. CASE LoadContentFails(p)
    BY <2>2, TypeLetGo DEF TypeOK, LoadContentFails, Fault, NoFault, database, history
  <2>3. CASE BatchResolves(p)
    BY <2>3 DEF TypeOK, BatchResolves, NoFault, database, history
  <2>4. CASE BatchThrows(p)
    BY <2>4, TypeLetGo DEF TypeOK, BatchThrows, NoFault, database, history
  <2>5. CASE Acknowledge(p)
    BY <2>5, TypeLetGo DEF TypeOK, Acknowledge, NoFault, database, history
  <2>6. CASE AcknowledgeFails(p)
    <3>1. msg' \in [Batches -> {"absent", "visible", "inflight", "deleted"}]
      BY <2>6 DEF TypeOK, AcknowledgeFails
    <3> QED BY <2>6, <3>1, TypeLetGo DEF TypeOK, AcknowledgeFails, Fault, database, history
  <2> QED BY <1>5, <2>1, <2>2, <2>3, <2>4, <2>5, <2>6 DEF Handle
<1>6. ASSUME NEW p \in Procs, Crash(p)
      PROVE  TypeOK'
    BY <1>6, TypeLetGo DEF TypeOK, Crash, Fault, database
<1> QED BY <1>1, <1>2, <1>3, <1>4, <1>5, <1>6 DEF Next, IdlePoll

\* Type correctness of the sending path: in particular NewsletterMessages only
\* ever holds rows of a batch and one of its recipients, and the failure bound
\* is kept.
THEOREM TypeCorrect == Spec => []TypeOK
    BY TypeInit, TypeStep, PTL DEF Spec

-----------------------------------------------------------------------------
(* The invariant SendingInv: what the two kinds of handler steps do.       *)

\* What a task's own steps do to the task queues.
LEMMA MoveEffect ==
    ASSUME TypeOK, NEW p \in Procs, NEW t \in Tasks, NEW s, Move(p, t, s)
    PROVE  \A q \in Procs : \A u \in Tasks :
              task'[q][u] = IF q = p /\ u = t THEN s ELSE task[q][u]
    BY DEF TypeOK, Move

\* What letting go of a batch does to the handler's variables.
LEMMA LetGoEffect ==
    ASSUME TypeOK, NEW p \in Procs, LetGo(p)
    PROVE  \A q \in Procs :
              /\ pc'[q] = IF q = p THEN "polling" ELSE pc[q]
              /\ holding'[q] = IF q = p THEN None ELSE holding[q]
              /\ \A u \in Tasks : task'[q][u] = IF q = p THEN "none" ELSE task[q][u]
    BY DEF TypeOK, LetGo

\* The part of the invariant that says who works on what.
Control == BusyHoldsBatch /\ HeldAlone /\ TasksOfHeldBatch

\* The part that relates the queue's messages and the tasks to the rows.
Recorded == DoneHasRow /\ AckingIsDone /\ AckedBatchIsFullySent

\* The part that bounds duplicates.
Bounded == SendingHasNoRow /\ UnrecordedAreLost /\ DuplicatesBoundedByLostRows

\* A guarded recipient is worked on by one process at a time.
LEMMA OneSender ==
    ASSUME TypeOK, Control, NEW p \in Procs, NEW q \in Procs, NEW t \in Tasks,
           Guarded(t), task[p][t] # "none", task[q][t] # "none"
    PROVE  p = q
<1>1. holding[p] = BatchOf[t] /\ holding[q] = BatchOf[t]
    BY DEF Control, TasksOfHeldBatch
<1>2. BatchOf[t] # None /\ BatchOf[t] \notin overlapped
    BY KeyOfTask DEF Guarded
<1> QED BY <1>1, <1>2 DEF Control, HeldAlone

\* Two guarded tasks have different rows.
LEMMA GuardedKeys ==
    ASSUME NEW t \in Tasks, NEW u \in Tasks, Guarded(t), Key(u) = Key(t)
    PROVE  u = t
    BY DEF Guarded, Twins

\* A step of a task leaves Control alone.
LEMMA MoveControl ==
    ASSUME TypeOK, Control, NEW p \in Procs, NEW t \in Tasks, NEW s,
           Move(p, t, s), task[p][t] # "none", s # "none",
           UNCHANGED <<pc, holding, overlapped>>
    PROVE  Control'
<1>1. \A q \in Procs : \A u \in Tasks : task'[q][u] # "none" <=> task[q][u] # "none"
    BY MoveEffect
<1> QED BY <1>1 DEF Control, BusyHoldsBatch, HeldAlone, TasksOfHeldBatch

\* A step of a task that has not finished keeps Recorded.
LEMMA MoveRecorded ==
    ASSUME TypeOK, Recorded, NEW p \in Procs, NEW t \in Tasks, NEW s,
           Move(p, t, s), pc[p] = "sending", messageRows \subseteq messageRows',
           s = "done" => Key(t) \in messageRows',
           UNCHANGED <<pc, holding, msg>>
    PROVE  Recorded'
<1>1. \A q \in Procs : \A u \in Tasks :
         task'[q][u] = IF q = p /\ u = t THEN s ELSE task[q][u]
    BY MoveEffect
<1>2. DoneHasRow'
    BY <1>1 DEF Recorded, DoneHasRow, Key
<1>3. AckingIsDone'
    BY <1>1 DEF Recorded, AckingIsDone, TasksOf
<1>4. AckedBatchIsFullySent'
    BY DEF Recorded, AckedBatchIsFullySent, TasksOf, Key
<1> QED BY <1>2, <1>3, <1>4 DEF Recorded

\* A process that lets go of its batch keeps Control.
LEMMA LetGoControl ==
    ASSUME TypeOK, Control, NEW p \in Procs, LetGo(p), UNCHANGED overlapped
    PROVE  Control'
<1>1. \A q \in Procs :
         /\ pc'[q] = IF q = p THEN "polling" ELSE pc[q]
         /\ holding'[q] = IF q = p THEN None ELSE holding[q]
         /\ \A u \in Tasks : task'[q][u] = IF q = p THEN "none" ELSE task[q][u]
    BY LetGoEffect
<1>2. BusyHoldsBatch' /\ HeldAlone'
    BY <1>1 DEF Control, BusyHoldsBatch, HeldAlone
<1>3. TasksOfHeldBatch'
    BY <1>1 DEF Control, TasksOfHeldBatch
<1> QED BY <1>2, <1>3 DEF Control

\* A process that lets go of its batch keeps Recorded, if the message is
\* deleted only after every task of the batch is done.
LEMMA LetGoRecorded ==
    ASSUME TypeOK, Recorded, NEW p \in Procs, LetGo(p), UNCHANGED messageRows,
           \A b \in Batches : msg'[b] = "deleted" =>
              msg[b] = "deleted" \/ (pc[p] = "acking" /\ holding[p] = b)
    PROVE  Recorded'
<1>1. \A q \in Procs :
         /\ pc'[q] = IF q = p THEN "polling" ELSE pc[q]
         /\ holding'[q] = IF q = p THEN None ELSE holding[q]
         /\ \A u \in Tasks : task'[q][u] = IF q = p THEN "none" ELSE task[q][u]
    BY LetGoEffect
<1>2. DoneHasRow'
    BY <1>1 DEF Recorded, DoneHasRow, Key
<1>3. AckingIsDone'
    BY <1>1 DEF Recorded, AckingIsDone, TasksOf
<1>4. AckedBatchIsFullySent'
    BY DEF Recorded, DoneHasRow, AckingIsDone, AckedBatchIsFullySent, TasksOf, Key
<1> QED BY <1>2, <1>3, <1>4 DEF Recorded

\* A step that sends nothing, records nothing and drops no accepted e-mail
\* keeps Bounded.
LEMMA QuietBounded ==
    ASSUME Bounded, UNCHANGED <<messageRows, sends, lost>>, overlapped \subseteq overlapped',
           \A q \in Procs : \A u \in Tasks :
              task'[q][u] \in {"checked", "accepted"} => task[q][u] \in {"checked", "accepted"},
           \A q \in Procs : \A u \in Tasks :
              task[q][u] = "accepted" => task'[q][u] = "accepted"
    PROVE  Bounded'
<1>1. \A u \in Tasks : Guarded(u)' => Guarded(u)
    BY DEF Guarded
<1>2. SendingHasNoRow'
    BY <1>1 DEF Bounded, SendingHasNoRow, Key
<1>3. UnrecordedAreLost'
    BY <1>1 DEF Bounded, UnrecordedAreLost, Key
<1>4. DuplicatesBoundedByLostRows'
    BY <1>1 DEF Bounded, DuplicatesBoundedByLostRows, Guarded, Key
<1> QED BY <1>2, <1>3, <1>4 DEF Bounded

-----------------------------------------------------------------------------
(* The tasks' steps and the bound on duplicates, one lemma per await.      *)

\* The idempotency check: a task goes on only if there is no row.
LEMMA StartTaskBounded ==
    ASSUME TypeOK, Bounded, NEW p \in Procs, NEW t \in Tasks, StartTask(p, t)
    PROVE  Bounded'
<1>1. \A q \in Procs : \A u \in Tasks :
         task'[q][u] = IF q = p /\ u = t
                       THEN IF AlreadySent(t) THEN "done" ELSE "checked" ELSE task[q][u]
    BY MoveEffect DEF StartTask
<1>2. task[p][t] = "queued" /\ UNCHANGED <<messageRows, sends, lost, overlapped>>
    BY DEF StartTask, Mailing, database, history
<1>3. SendingHasNoRow'
    BY <1>1, <1>2 DEF Bounded, SendingHasNoRow, AlreadySent, Guarded, Key
<1>4. UnrecordedAreLost'
  <2>1. \A q \in Procs : \A u \in Tasks : task[q][u] = "accepted" => task'[q][u] = "accepted"
    BY <1>1, <1>2
  <2> QED BY <1>2, <2>1 DEF Bounded, UnrecordedAreLost, Guarded, Key
<1>5. DuplicatesBoundedByLostRows'
    BY <1>2 DEF Bounded, DuplicatesBoundedByLostRows, Key
<1> QED BY <1>3, <1>4, <1>5 DEF Bounded

\* SES accepts an e-mail: for a guarded recipient nothing was in flight and no
\* row written, so all earlier e-mails were lost.
LEMMA SesAcceptBounded ==
    ASSUME TypeOK, Control, Bounded, NEW p \in Procs, NEW t \in Tasks, SesAccept(p, t)
    PROVE  Bounded'
<1>1. \A q \in Procs : \A u \in Tasks :
         task'[q][u] = IF q = p /\ u = t THEN "accepted" ELSE task[q][u]
    BY MoveEffect DEF SesAccept
<1>2. task[p][t] = "checked" /\ UNCHANGED <<messageRows, lost, overlapped>>
    BY DEF SesAccept, Mailing, database
<1>3. \A u \in Tasks : sends'[Key(u)] = IF Key(u) = Key(t) THEN sends[Key(u)] + 1 ELSE sends[Key(u)]
    BY KeyOfTask DEF SesAccept, TypeOK
<1>4. \A u \in Tasks : sends[Key(u)] \in Nat /\ lost[Key(u)] \in Nat
    BY KeyOfTask DEF TypeOK
<1>5. SendingHasNoRow'
    BY <1>1, <1>2 DEF Bounded, SendingHasNoRow, Guarded, Key
<1>6. ASSUME NEW u \in Tasks, Guarded(u), u # t
      PROVE  sends'[Key(u)] = sends[Key(u)]
    BY <1>3, <1>6, GuardedKeys
<1>7. ASSUME Guarded(t)
      PROVE  sends[Key(t)] <= lost[Key(t)]
  <2>1. Key(t) \notin messageRows
    BY <1>2, <1>7 DEF Bounded, SendingHasNoRow
  <2>2. \A q \in Procs : task[q][t] # "accepted"
    BY <1>2, <1>7, OneSender
  <2> QED BY <1>7, <2>1, <2>2 DEF Bounded, UnrecordedAreLost
<1>8. UnrecordedAreLost'
  <2> SUFFICES ASSUME NEW u \in Tasks, Guarded(u), Key(u) \notin messageRows,
                      \A q \in Procs : task'[q][u] # "accepted"
               PROVE  sends'[Key(u)] <= lost[Key(u)]
    BY <1>2 DEF UnrecordedAreLost, Guarded, Key
  <2>1. u # t
    BY <1>1
  <2>2. \A q \in Procs : task[q][u] # "accepted"
    BY <1>1, <2>1
  <2> QED BY <1>6, <2>1, <2>2 DEF Bounded, UnrecordedAreLost
<1>9. DuplicatesBoundedByLostRows'
  <2> SUFFICES ASSUME NEW u \in Tasks, Guarded(u)
               PROVE  sends'[Key(u)] <= 1 + lost[Key(u)]
    BY <1>2 DEF DuplicatesBoundedByLostRows, Guarded, Key
  <2>1. CASE u = t
    BY <1>3, <1>4, <1>7, <2>1
  <2>2. CASE u # t
    BY <1>6, <2>2 DEF Bounded, DuplicatesBoundedByLostRows, Guarded
  <2> QED BY <2>1, <2>2
<1> QED BY <1>5, <1>8, <1>9 DEF Bounded

\* SES answers with an error: if the e-mail went out, it counts as lost.
LEMMA SesRejectBounded ==
    ASSUME TypeOK, Bounded, NEW p \in Procs, NEW t \in Tasks, SesReject(p, t)
    PROVE  Bounded'
<1>1. \A q \in Procs : \A u \in Tasks :
         task'[q][u] = IF q = p /\ u = t THEN "rejected" ELSE task[q][u]
    BY MoveEffect DEF SesReject
<1>2. task[p][t] = "checked" /\ UNCHANGED <<messageRows, overlapped>>
    BY DEF SesReject, Mailing, database
<1>3. \A u \in Tasks : sends[Key(u)] \in Nat /\ lost[Key(u)] \in Nat
    BY KeyOfTask DEF TypeOK
<1>4. \A u \in Tasks :
         \/ sends'[Key(u)] = sends[Key(u)] /\ lost'[Key(u)] = lost[Key(u)]
         \/ sends'[Key(u)] = sends[Key(u)] + 1 /\ lost'[Key(u)] = lost[Key(u)] + 1
    BY KeyOfTask DEF SesReject, TypeOK
<1>5. SendingHasNoRow'
    BY <1>1, <1>2 DEF Bounded, SendingHasNoRow, Guarded, Key
<1>6. UnrecordedAreLost'
  <2> SUFFICES ASSUME NEW u \in Tasks, Guarded(u), Key(u) \notin messageRows,
                      \A q \in Procs : task'[q][u] # "accepted"
               PROVE  sends'[Key(u)] <= lost'[Key(u)]
    BY <1>2 DEF UnrecordedAreLost, Guarded, Key
  <2>1. \A q \in Procs : task[q][u] # "accepted"
    BY <1>1, <1>2
  <2>2. sends[Key(u)] <= lost[Key(u)]
    BY <2>1 DEF Bounded, UnrecordedAreLost
  <2> QED BY <1>3, <1>4, <2>2
<1>7. DuplicatesBoundedByLostRows'
  <2> SUFFICES ASSUME NEW u \in Tasks, Guarded(u)
               PROVE  sends'[Key(u)] <= 1 + lost'[Key(u)]
    BY <1>2 DEF DuplicatesBoundedByLostRows, Guarded, Key
  <2>1. sends[Key(u)] <= 1 + lost[Key(u)]
    BY DEF Bounded, DuplicatesBoundedByLostRows, Guarded
  <2> QED BY <1>3, <1>4, <2>1
<1> QED BY <1>5, <1>6, <1>7 DEF Bounded

\* The row of an accepted e-mail is written: the recipient is recorded from now
\* on, and no other process was about to send to it.
LEMMA RecordSentBounded ==
    ASSUME TypeOK, Control, Bounded, NEW p \in Procs, NEW t \in Tasks, NEW s,
           task[p][t] = "accepted", Move(p, t, s), s \in {"done", "failed"},
           messageRows' = messageRows \cup {SentRow(t)},
           UNCHANGED <<sends, lost, overlapped>>
    PROVE  Bounded'
<1>1. \A q \in Procs : \A u \in Tasks :
         task'[q][u] = IF q = p /\ u = t THEN s ELSE task[q][u]
    BY MoveEffect
<1>2. messageRows' = messageRows \cup {Key(t)}
    BY KeyOfTask
<1>3. SendingHasNoRow'
  <2> SUFFICES ASSUME NEW q \in Procs, NEW u \in Tasks, Guarded(u),
                      task'[q][u] \in {"checked", "accepted"}
               PROVE  Key(u) \notin messageRows'
    BY DEF SendingHasNoRow, Guarded, Key
  <2>1. ~(q = p /\ u = t) /\ task[q][u] \in {"checked", "accepted"}
    BY <1>1
  <2>2. Key(u) \notin messageRows
    BY <2>1 DEF Bounded, SendingHasNoRow
  <2>3. Key(u) # Key(t)
    <3>1. CASE u = t
      BY <2>1, <3>1, OneSender
    <3>2. CASE u # t
      BY <3>2, GuardedKeys
    <3> QED BY <3>1, <3>2
  <2> QED BY <1>2, <2>2, <2>3
<1>4. UnrecordedAreLost'
  <2> SUFFICES ASSUME NEW u \in Tasks, Guarded(u), Key(u) \notin messageRows',
                      \A q \in Procs : task'[q][u] # "accepted"
               PROVE  sends[Key(u)] <= lost[Key(u)]
    BY DEF UnrecordedAreLost, Guarded, Key
  <2>1. u # t /\ Key(u) \notin messageRows
    BY <1>2
  <2>2. \A q \in Procs : task[q][u] # "accepted"
    BY <1>1, <2>1
  <2> QED BY <2>1, <2>2 DEF Bounded, UnrecordedAreLost
<1>5. DuplicatesBoundedByLostRows'
    BY DEF Bounded, DuplicatesBoundedByLostRows, Key
<1> QED BY <1>3, <1>4, <1>5 DEF Bounded

\* The row of an accepted e-mail is not written: one more e-mail is lost.
LEMMA LostRowBounded ==
    ASSUME TypeOK, Bounded, NEW p \in Procs, NEW t \in Tasks,
           task[p][t] = "accepted", Move(p, t, "failed"),
           lost' = [lost EXCEPT ![Key(t)] = @ + 1],
           UNCHANGED <<sends, messageRows, overlapped>>
    PROVE  Bounded'
<1>1. \A q \in Procs : \A u \in Tasks :
         task'[q][u] = IF q = p /\ u = t THEN "failed" ELSE task[q][u]
    BY MoveEffect
<1>2. \A u \in Tasks : sends[Key(u)] \in Nat /\ lost[Key(u)] \in Nat
    BY KeyOfTask DEF TypeOK
<1>3. \A u \in Tasks : lost'[Key(u)] = IF Key(u) = Key(t) THEN lost[Key(u)] + 1 ELSE lost[Key(u)]
    BY KeyOfTask DEF TypeOK
<1>4. \A u \in Tasks : Guarded(u) => sends[Key(u)] <= 1 + lost[Key(u)]
    BY DEF Bounded, DuplicatesBoundedByLostRows, Guarded
<1>5. SendingHasNoRow'
    BY <1>1 DEF Bounded, SendingHasNoRow, Guarded, Key
<1>6. UnrecordedAreLost'
  <2> SUFFICES ASSUME NEW u \in Tasks, Guarded(u), Key(u) \notin messageRows,
                      \A q \in Procs : task'[q][u] # "accepted"
               PROVE  sends[Key(u)] <= lost'[Key(u)]
    BY DEF UnrecordedAreLost, Guarded, Key
  <2>1. CASE u = t
    BY <1>2, <1>3, <1>4, <2>1
  <2>2. CASE u # t
    <3>1. \A q \in Procs : task[q][u] # "accepted"
      BY <1>1, <2>2
    <3>2. sends[Key(u)] <= lost[Key(u)]
      BY <3>1 DEF Bounded, UnrecordedAreLost
    <3> QED BY <1>2, <1>3, <3>2
  <2> QED BY <2>1, <2>2
<1>7. DuplicatesBoundedByLostRows'
  <2> SUFFICES ASSUME NEW u \in Tasks, Guarded(u)
               PROVE  sends[Key(u)] <= 1 + lost'[Key(u)]
    BY DEF DuplicatesBoundedByLostRows, Guarded, Key
  <2> QED BY <1>2, <1>3, <1>4
<1> QED BY <1>5, <1>6, <1>7 DEF Bounded

\* A process dies: what SES had accepted from it, without a row, is lost.
LEMMA CrashBounded ==
    ASSUME TypeOK, Control, Bounded, NEW p \in Procs, Crash(p)
    PROVE  Bounded'
<1>1. \A q \in Procs : \A u \in Tasks :
         task'[q][u] = IF q = p THEN "none" ELSE task[q][u]
    BY LetGoEffect DEF Crash
<1>2. UNCHANGED <<messageRows, sends, overlapped>>
    BY DEF Crash, database
<1>3. \A u \in Tasks : sends[Key(u)] \in Nat /\ lost[Key(u)] \in Nat
    BY KeyOfTask DEF TypeOK
<1>4. \A u \in Tasks :
         /\ lost'[Key(u)] \in {lost[Key(u)], lost[Key(u)] + 1}
         /\ task[p][u] = "accepted" => lost'[Key(u)] = lost[Key(u)] + 1
    BY KeyOfTask DEF Crash, TypeOK
<1>5. \A u \in Tasks : Guarded(u) => sends[Key(u)] <= 1 + lost[Key(u)]
    BY DEF Bounded, DuplicatesBoundedByLostRows, Guarded
<1>6. SendingHasNoRow'
    BY <1>1, <1>2 DEF Bounded, SendingHasNoRow, Guarded, Key
<1>7. UnrecordedAreLost'
  <2> SUFFICES ASSUME NEW u \in Tasks, Guarded(u), Key(u) \notin messageRows,
                      \A q \in Procs : task'[q][u] # "accepted"
               PROVE  sends[Key(u)] <= lost'[Key(u)]
    BY <1>2 DEF UnrecordedAreLost, Guarded, Key
  <2>1. CASE task[p][u] = "accepted"
    BY <1>3, <1>4, <1>5, <2>1
  <2>2. CASE task[p][u] # "accepted"
    <3>1. \A q \in Procs : task[q][u] # "accepted"
      BY <1>1, <2>2
    <3>2. sends[Key(u)] <= lost[Key(u)]
      BY <3>1 DEF Bounded, UnrecordedAreLost
    <3> QED BY <1>3, <1>4, <3>2
  <2> QED BY <2>1, <2>2
<1>8. DuplicatesBoundedByLostRows'
  <2> SUFFICES ASSUME NEW u \in Tasks, Guarded(u)
               PROVE  sends[Key(u)] <= 1 + lost'[Key(u)]
    BY <1>2 DEF DuplicatesBoundedByLostRows, Guarded, Key
  <2> QED BY <1>3, <1>4, <1>5
<1> QED BY <1>6, <1>7, <1>8 DEF Bounded

-----------------------------------------------------------------------------
(* SendingInv is inductive.                                                *)

\* The order of the two calls of addNewsletterToQueue: only a batch with a row
\* is ever queued.
Queued == CreatedHasRow /\ HeldWasQueued /\ QueuedBatchHasRow

\* SendingInv by parts.
LEMMA Parts == SendingInv <=> TypeOK /\ Control /\ Recorded /\ Queued /\ Bounded
    BY DEF SendingInv, Control, Recorded, Queued, Bounded

\* SendingInv holds before the first request.
LEMMA SendingInit == Init => SendingInv
<1> SUFFICES ASSUME Init
             PROVE  Control /\ Recorded /\ Queued /\ Bounded
    BY TypeInit, Parts
<1>1. Control
    BY DEF Init, Control, BusyHoldsBatch, HeldAlone, TasksOfHeldBatch
<1>2. Recorded
    BY DEF Init, Recorded, DoneHasRow, AckingIsDone, AckedBatchIsFullySent
<1>3. Queued
    BY DEF Init, Queued, CreatedHasRow, HeldWasQueued, QueuedBatchHasRow
<1>4. Bounded
  <2>1. \A t \in Tasks : sends[Key(t)] = 0 /\ lost[Key(t)] = 0
    BY KeyOfTask DEF Init
  <2> QED BY <2>1 DEF Init, Bounded, SendingHasNoRow, UnrecordedAreLost, DuplicatesBoundedByLostRows
<1> QED BY <1>1, <1>2, <1>3, <1>4

\* No step of the handlers queues a batch or answers a request.
LEMMA HandlerKeepsQueued ==
    ASSUME Queued, UNCHANGED <<request, batchRows>>,
           \A b \in Batches : msg'[b] # "absent" <=> msg[b] # "absent",
           holding' \in [Procs -> Batches \cup {None}],
           \A q \in Procs : holding'[q] = holding[q] \/ holding'[q] = None
                               \/ msg[holding'[q]] # "absent"
    PROVE  Queued'
    BY DEF Queued, CreatedHasRow, HeldWasQueued, QueuedBatchHasRow

\* The HTTP handler's steps and the visibility timeout.
LEMMA BatchStep ==
    ASSUME SendingInv, NEW b \in Batches,
           CreateBatchEntry(b) \/ CreateBatchEntryFails(b) \/ Enqueue(b)
              \/ EnqueueFails(b) \/ Expire(b)
    PROVE  Control' /\ Recorded' /\ Queued' /\ Bounded'
<1> USE Parts
<1>1. UNCHANGED <<pc, holding, task, messageRows, sends, lost, overlapped>>
    BY DEF CreateBatchEntry, CreateBatchEntryFails, Enqueue, EnqueueFails, Expire, database, history
<1>2. \A c \in Batches : msg'[c] = "deleted" => msg[c] = "deleted"
    BY DEF CreateBatchEntry, CreateBatchEntryFails, Enqueue, EnqueueFails, Expire, TypeOK
<1>3. Control'
    BY <1>1 DEF Control, BusyHoldsBatch, HeldAlone, TasksOfHeldBatch
<1>4. Recorded'
    BY <1>1, <1>2 DEF Recorded, DoneHasRow, AckingIsDone, AckedBatchIsFullySent, TasksOf, Key
<1>5. Queued'
  <2>1. CASE CreateBatchEntry(b)
    BY <2>1 DEF CreateBatchEntry, TypeOK, Queued, CreatedHasRow, HeldWasQueued, QueuedBatchHasRow
  <2>2. CASE CreateBatchEntryFails(b)
    BY <2>2 DEF CreateBatchEntryFails, TypeOK, Queued, CreatedHasRow, HeldWasQueued, QueuedBatchHasRow, database
  <2>3. CASE Enqueue(b)
    BY <2>3 DEF Enqueue, TypeOK, Queued, CreatedHasRow, HeldWasQueued, QueuedBatchHasRow, database
  <2>4. CASE EnqueueFails(b)
    BY <2>4 DEF EnqueueFails, TypeOK, Queued, CreatedHasRow, HeldWasQueued, QueuedBatchHasRow, database
  <2>5. CASE Expire(b)
    BY <2>5 DEF Expire, TypeOK, Queued, CreatedHasRow, HeldWasQueued, QueuedBatchHasRow, database
  <2> QED BY <2>1, <2>2, <2>3, <2>4, <2>5
<1>6. Bounded'
    BY <1>1, QuietBounded
<1> QED BY <1>3, <1>4, <1>5, <1>6

\* A process receives a batch: if another has it in hand, it counts as
\* overlapped from now on.
LEMMA ReceiveStep ==
    ASSUME SendingInv, NEW p \in Procs, NEW b \in Batches, Receive(p, b)
    PROVE  Control' /\ Recorded' /\ Queued' /\ Bounded'
<1> USE Parts
<1>1. UNCHANGED <<task, messageRows, sends, lost, request, batchRows>> /\ overlapped \subseteq overlapped'
    BY DEF Receive, database
<1>2. pc[p] = "polling" /\ holding[p] = None
    BY DEF Receive, Control, BusyHoldsBatch
<1>3. \A q \in Procs : /\ pc'[q] = IF q = p THEN "loading" ELSE pc[q]
                       /\ holding'[q] = IF q = p THEN b ELSE holding[q]
    BY DEF Receive, TypeOK
<1>4. Control'
  <2>1. BusyHoldsBatch'
    BY <1>3 DEF Control, BusyHoldsBatch
  <2>2. HeldAlone'
    BY <1>1, <1>3 DEF Control, HeldAlone, Receive
  <2>3. TasksOfHeldBatch'
    BY <1>1, <1>2, <1>3 DEF Control, TasksOfHeldBatch
  <2> QED BY <2>1, <2>2, <2>3 DEF Control
<1>5. Recorded'
  <2>1. \A c \in Batches : msg'[c] = "deleted" => msg[c] = "deleted"
    BY DEF Receive, TypeOK
  <2> QED BY <1>1, <1>3, <2>1 DEF Recorded, DoneHasRow, AckingIsDone, AckedBatchIsFullySent, TasksOf, Key
<1>6. Queued'
  <2>1. holding' \in [Procs -> Batches \cup {None}]
    BY DEF Receive, TypeOK
  <2> QED BY <1>1, <1>3, <2>1, HandlerKeepsQueued DEF Receive, TypeOK
<1>7. Bounded'
    BY <1>1, QuietBounded
<1> QED BY <1>4, <1>5, <1>6, <1>7

\* One await of sendSingleEmail.
LEMMA SendTaskStep ==
    ASSUME SendingInv, NEW p \in Procs, NEW t \in Tasks, SendTask(p, t)
    PROVE  Control' /\ Recorded' /\ Queued' /\ Bounded'
<1> USE Parts
<1>1. UNCHANGED <<request, batchRows, msg, pc, holding, overlapped>>
    BY DEF SendTask, StartTask, StartTaskFails, SesAccept, SesReject, RecordSent,
           RecordSentFails, RecordError, database, history
<1>2. Queued'
    BY <1>1, HandlerKeepsQueued DEF TypeOK
<1>3. pc[p] = "sending" /\ task[p][t] # "none"
    BY DEF SendTask, StartTask, StartTaskFails, SesAccept, SesReject, RecordSent,
           RecordSentFails, RecordError, Mailing
<1>4. ASSUME NEW s, s # "none", Move(p, t, s), messageRows \subseteq messageRows',
             s = "done" => Key(t) \in messageRows'
      PROVE  Control' /\ Recorded'
    BY <1>1, <1>3, <1>4, MoveControl, MoveRecorded
<1>5. CASE StartTask(p, t)
  <2>1. UNCHANGED messageRows
    BY <1>5 DEF StartTask, database
  <2> QED BY <1>2, <1>4, <1>5, <2>1, StartTaskBounded DEF StartTask, AlreadySent
<1>6. CASE StartTaskFails(p, t)
  <2>1. UNCHANGED <<messageRows, sends, lost>> /\ Move(p, t, "failed") /\ task[p][t] = "queued"
    BY <1>6 DEF StartTaskFails, Mailing, database, history
  <2>2. Bounded'
    BY <1>1, <2>1, MoveEffect, QuietBounded
  <2> QED BY <1>2, <1>4, <2>1, <2>2
<1>7. CASE SesAccept(p, t)
  <2>1. UNCHANGED messageRows
    BY <1>7 DEF SesAccept, database
  <2> QED BY <1>2, <1>4, <1>7, <2>1, SesAcceptBounded DEF SesAccept
<1>8. CASE SesReject(p, t)
  <2>1. UNCHANGED messageRows
    BY <1>8 DEF SesReject, database
  <2> QED BY <1>2, <1>4, <1>8, <2>1, SesRejectBounded DEF SesReject
<1>9. CASE RecordSent(p, t)
  <2>1. /\ Move(p, t, "done") /\ task[p][t] = "accepted"
        /\ messageRows' = messageRows \cup {SentRow(t)}
        /\ UNCHANGED <<sends, lost>>
    BY <1>9 DEF RecordSent, Mailing, history
  <2>2. Bounded'
    BY <1>1, <2>1, RecordSentBounded
  <2> QED BY <1>2, <1>4, <2>1, <2>2, KeyOfTask
<1>10. CASE RecordSentFails(p, t)
  <2>1. Move(p, t, "failed") /\ task[p][t] = "accepted" /\ UNCHANGED sends
    BY <1>10 DEF RecordSentFails, Mailing
  <2>2. \/ messageRows' = messageRows \cup {SentRow(t)} /\ UNCHANGED lost
        \/ lost' = [lost EXCEPT ![Key(t)] = @ + 1] /\ UNCHANGED messageRows
    BY <1>10 DEF RecordSentFails
  <2>3. Bounded'
    BY <1>1, <2>1, <2>2, RecordSentBounded, LostRowBounded
  <2> QED BY <1>2, <1>4, <2>1, <2>2, <2>3
<1>11. CASE RecordError(p, t)
  <2>1. UNCHANGED <<messageRows, sends, lost>> /\ Move(p, t, "failed") /\ task[p][t] = "rejected"
    BY <1>11 DEF RecordError, Mailing
  <2>2. Bounded'
    BY <1>1, <2>1, MoveEffect, QuietBounded
  <2> QED BY <1>2, <1>4, <2>1, <2>2
<1> QED BY <1>5, <1>6, <1>7, <1>8, <1>9, <1>10, <1>11 DEF SendTask

\* A process lets go of a batch none of whose e-mails is between SES and its row.
LEMMA LetGoStep ==
    ASSUME SendingInv, NEW p \in Procs, LetGo(p),
           UNCHANGED <<request, batchRows, messageRows, sends, lost, overlapped>>,
           \A t \in Tasks : task[p][t] # "accepted",
           \A b \in Batches : \/ msg'[b] = msg[b]
                              \/ pc[p] = "acking" /\ holding[p] = b /\ msg'[b] = "deleted"
    PROVE  Control' /\ Recorded' /\ Queued' /\ Bounded'
<1> USE Parts
<1>1. Control' /\ Recorded'
    BY LetGoControl, LetGoRecorded
<1>2. Queued'
  <2>1. \A b \in Batches : msg'[b] # "absent" <=> msg[b] # "absent"
    BY DEF Queued, HeldWasQueued
  <2>2. holding' \in [Procs -> Batches \cup {None}]
    BY TypeLetGo
  <2>3. \A q \in Procs : holding'[q] = holding[q] \/ holding'[q] = None
    BY LetGoEffect
  <2> QED BY <2>1, <2>2, <2>3, HandlerKeepsQueued
<1>3. Bounded'
    BY LetGoEffect, QuietBounded
<1> QED BY <1>1, <1>2, <1>3

\* Loading the batch, the end of processBatch, and the acknowledgement.
LEMMA HandleStep ==
    ASSUME SendingInv, NEW p \in Procs, Handle(p)
    PROVE  Control' /\ Recorded' /\ Queued' /\ Bounded'
<1> USE Parts
<1>1. UNCHANGED <<request, batchRows, messageRows, sends, lost, overlapped>>
    BY DEF Handle, LoadContent, LoadContentFails, BatchResolves, BatchThrows, Acknowledge,
           AcknowledgeFails, database, history
<1>2. CASE LoadContent(p)
  <2>1. pc[p] = "loading" /\ UNCHANGED <<msg, holding>>
    BY <1>2 DEF LoadContent
  <2>2. \A q \in Procs : pc'[q] = IF q = p THEN "sending" ELSE pc[q]
    BY <1>2 DEF LoadContent, TypeOK
  <2>3. \A q \in Procs : \A u \in Tasks :
           task'[q][u] = IF q = p THEN IF BatchOf[u] = holding[p] THEN "queued" ELSE "none"
                         ELSE task[q][u]
    BY <1>2 DEF LoadContent, TypeOK
  <2>4. \A u \in Tasks : task[p][u] = "none"
    BY <2>1 DEF Control, TasksOfHeldBatch
  <2>5. Control'
    <3>1. BusyHoldsBatch' /\ HeldAlone'
      BY <1>1, <2>1, <2>2 DEF Control, BusyHoldsBatch, HeldAlone
    <3>2. TasksOfHeldBatch'
      BY <2>1, <2>2, <2>3 DEF Control, TasksOfHeldBatch
    <3> QED BY <3>1, <3>2 DEF Control
  <2>6. Recorded'
    BY <1>1, <2>1, <2>2, <2>3 DEF Recorded, DoneHasRow, AckingIsDone, AckedBatchIsFullySent, TasksOf, Key
  <2>7. Queued'
    BY <1>1, <2>1, HandlerKeepsQueued DEF TypeOK
  <2>8. Bounded'
    BY <1>1, <2>3, <2>4, QuietBounded
  <2> QED BY <2>5, <2>6, <2>7, <2>8
<1>3. CASE LoadContentFails(p)
  <2>1. \A u \in Tasks : task[p][u] = "none"
    BY <1>3 DEF LoadContentFails, Control, TasksOfHeldBatch
  <2> QED BY <1>1, <1>3, <2>1, LetGoStep DEF LoadContentFails
<1>4. CASE BatchResolves(p)
  <2>1. pc[p] = "sending" /\ UNCHANGED <<msg, holding, task>>
    BY <1>4 DEF BatchResolves
  <2>2. \A q \in Procs : pc'[q] = IF q = p THEN "acking" ELSE pc[q]
    BY <1>4 DEF BatchResolves, TypeOK
  <2>3. \A u \in TasksOf(holding[p]) : task[p][u] = "done"
    <3> SUFFICES ASSUME NEW u \in TasksOf(holding[p])
                 PROVE  task[p][u] = "done"
      OBVIOUS
    <3>1. task[p][u] \notin Unsettled /\ task[p][u] # "failed"
      BY <1>4 DEF BatchResolves, AllSettled, NoneFailed
    <3>2. task[p][u] # "none"
      BY <2>1 DEF TasksOf, Control, TasksOfHeldBatch
    <3> QED BY <3>1, <3>2 DEF TypeOK, TasksOf
  <2>4. Control'
    BY <1>1, <2>1, <2>2 DEF Control, BusyHoldsBatch, HeldAlone, TasksOfHeldBatch
  <2>5. Recorded'
    BY <1>1, <2>1, <2>2, <2>3 DEF Recorded, DoneHasRow, AckingIsDone, AckedBatchIsFullySent, TasksOf, Key
  <2>6. Queued'
    BY <1>1, <2>1, HandlerKeepsQueued DEF TypeOK
  <2>7. Bounded'
    BY <1>1, <2>1, QuietBounded
  <2> QED BY <2>4, <2>5, <2>6, <2>7
<1>5. CASE BatchThrows(p)
  <2>1. \A u \in Tasks : task[p][u] # "accepted"
    BY <1>5 DEF BatchThrows, AllSettled, TasksOf, Unsettled, Control, TasksOfHeldBatch
  <2> QED BY <1>1, <1>5, <2>1, LetGoStep DEF BatchThrows
<1>6. CASE Acknowledge(p) \/ AcknowledgeFails(p)
  <2>1. pc[p] = "acking" /\ LetGo(p)
    BY <1>6 DEF Acknowledge, AcknowledgeFails
  <2>2. \A b \in Batches : msg'[b] = msg[b] \/ (holding[p] = b /\ msg'[b] = "deleted")
    BY <1>6 DEF Acknowledge, AcknowledgeFails, TypeOK
  <2>3. \A u \in Tasks : task[p][u] # "accepted"
    BY <2>1 DEF Recorded, AckingIsDone, TasksOf, Control, TasksOfHeldBatch
  <2> QED BY <1>1, <2>1, <2>2, <2>3, LetGoStep
<1> QED BY <1>2, <1>3, <1>4, <1>5, <1>6 DEF Handle

\* A process dies with a batch in hand.
LEMMA CrashStep ==
    ASSUME SendingInv, NEW p \in Procs, Crash(p)
    PROVE  Control' /\ Recorded' /\ Queued' /\ Bounded'
<1> USE Parts
<1>1. LetGo(p) /\ UNCHANGED <<request, batchRows, messageRows, msg, overlapped>>
    BY DEF Crash, database
<1>2. Control' /\ Recorded'
    BY <1>1, LetGoControl, LetGoRecorded
<1>3. Queued'
    BY <1>1, TypeLetGo, LetGoEffect, HandlerKeepsQueued
<1>4. Bounded'
    BY CrashBounded
<1> QED BY <1>2, <1>3, <1>4

\* Every step keeps SendingInv.
LEMMA SendingStep == SendingInv /\ [Next]_vars => SendingInv'
<1> SUFFICES ASSUME SendingInv, [Next]_vars
             PROVE  SendingInv'
    OBVIOUS
<1>1. TypeOK'
    BY TypeStep DEF SendingInv
<1>2. Control' /\ Recorded' /\ Queued' /\ Bounded'
  <2>1. CASE UNCHANGED vars
    BY <2>1, Parts DEF vars, Control, BusyHoldsBatch, HeldAlone, TasksOfHeldBatch,
        Recorded, DoneHasRow, AckingIsDone, AckedBatchIsFullySent, Queued, CreatedHasRow,
        HeldWasQueued, QueuedBatchHasRow, Bounded, SendingHasNoRow, UnrecordedAreLost,
        DuplicatesBoundedByLostRows, Guarded, Key, TasksOf
  <2> QED BY <2>1, BatchStep, ReceiveStep, SendTaskStep, HandleStep, CrashStep DEF Next, IdlePoll
<1>3. (TypeOK /\ Control /\ Recorded /\ Queued /\ Bounded)' => SendingInv'
    BY DEF SendingInv, Control, Recorded, Queued, Bounded
<1> QED BY <1>1, <1>2, <1>3

\* SendingInv holds in every reachable state.
THEOREM SendingInvariant == Spec => []SendingInv
    BY SendingInit, SendingStep, PTL DEF Spec

-----------------------------------------------------------------------------
(* The properties.                                                         *)

\* No batch is acknowledged with a recipient left out, for any number of
\* recipients, processes and failures: when its SQS message is deleted there is
\* a NewsletterMessages row for every entry of `to`.
THEOREM AckedIsSent == Spec => []AckedBatchIsFullySent
<1>1. SendingInv => AckedBatchIsFullySent
    BY DEF SendingInv
<1> QED BY <1>1, SendingInvariant, PTL

\* A recipient listed once, of a batch never handled by two processes at once,
\* gets at most one e-mail more than the number of its lost rows.
THEOREM DuplicatesAreBounded == Spec => []DuplicatesBoundedByLostRows
<1>1. SendingInv => DuplicatesBoundedByLostRows
    BY DEF SendingInv
<1> QED BY <1>1, SendingInvariant, PTL

\* A worker is never told to send a batch that is not in the database.
THEOREM QueuedIsStored == Spec => []QueuedBatchHasRow
<1>1. SendingInv => QueuedBatchHasRow
    BY DEF SendingInv
<1> QED BY <1>1, SendingInvariant, PTL

\* Under the same conditions a recipient with a row is never mailed again.
THEOREM RowStopsSending == Spec => NoResendAfterRow
<1> DEFINE Row(t) == Key(t) \in messageRows /\ BatchOf[t] \notin overlapped /\ ~Twins(t)
           Quiet == \A t \in Tasks : Row(t) => sends'[Key(t)] = sends[Key(t)]
<1>1. ASSUME SendingInv, [Next]_vars
      PROVE  [Quiet]_vars
  <2> SUFFICES ASSUME NEW u \in Tasks, Row(u)
               PROVE  sends'[Key(u)] = sends[Key(u)]
    OBVIOUS
  <2>1. ASSUME NEW p \in Procs, NEW t \in Tasks, SesAccept(p, t) \/ SesReject(p, t)
        PROVE  sends'[Key(u)] = sends[Key(u)]
    <3>1. task[p][t] = "checked"
      BY <2>1 DEF SesAccept, SesReject, Mailing
    <3>2. Key(u) # Key(t)
      <4>1. CASE u = t
        BY <1>1, <3>1, <4>1 DEF SendingInv, SendingHasNoRow, Guarded
      <4>2. CASE u # t
        BY <4>2, GuardedKeys DEF Guarded
      <4> QED BY <4>1, <4>2
    <3>3. Key(u) \in Keys /\ Key(t) \in Keys
      BY KeyOfTask
    <3> QED BY <1>1, <2>1, <3>2, <3>3 DEF SesAccept, SesReject, SendingInv, TypeOK
  <2>2. CASE UNCHANGED sends
    BY <2>2
  <2> QED BY <1>1, <2>1, <2>2 DEF Next, IdlePoll, vars, history, CreateBatchEntry,
        CreateBatchEntryFails, Enqueue, EnqueueFails, Expire, Receive, SendTask, StartTask,
        StartTaskFails, RecordSent, RecordSentFails, RecordError, Handle, LoadContent,
        LoadContentFails, BatchResolves, BatchThrows, Acknowledge, AcknowledgeFails, Crash
<1>2. [Quiet]_vars => [\A t \in Tasks :
          (Key(t) \in messageRows /\ BatchOf[t] \notin overlapped /\ ~Twins(t))
             => sends'[Key(t)] = sends[Key(t)]]_vars
    OBVIOUS
<1> QED BY <1>1, <1>2, SendingInvariant, PTL DEF Spec, NoResendAfterRow

\* The safety core of AcceptedIsEventuallySent: while a newsletter Ghost got a
\* 200 for lacks the row of a recipient, SQS still has its message and will hand
\* it out again. Failures, process deaths and lost answers never drop it.
AcceptedIsOwed ==
    \A b \in Batches :
        (request[b] = "accepted" /\ \E t \in TasksOf(b) : Key(t) \notin messageRows)
            => msg[b] \in {"visible", "inflight"}

\* A 200 means the id was queued, and nothing takes it out of SQS but a delete.
AcceptedWasQueued == \A b \in Batches : request[b] = "accepted" => msg[b] # "absent"

\* For any batches, processes and failures: an accepted newsletter with a
\* recipient that has no row is still in SQS.
THEOREM AcceptedStaysOwed == Spec => []AcceptedIsOwed
<1>1. Init => AcceptedWasQueued
    BY DEF Init, AcceptedWasQueued
<1>2. ASSUME SendingInv, AcceptedWasQueued, [Next]_vars PROVE AcceptedWasQueued'
  <2> USE <1>2 DEF SendingInv, TypeOK
  <2>1. ASSUME NEW c \in Batches, CreateBatchEntry(c) \/ CreateBatchEntryFails(c) \/ EnqueueFails(c)
        PROVE  AcceptedWasQueued'
    <3>1. /\ \A b \in Batches : request'[b] = "accepted" => request[b] = "accepted"
          /\ \A b \in Batches : msg[b] # "absent" => msg'[b] # "absent"
      BY <2>1 DEF CreateBatchEntry, CreateBatchEntryFails, EnqueueFails
    <3> QED BY <3>1 DEF AcceptedWasQueued
  <2>2. ASSUME NEW c \in Batches, Enqueue(c) PROVE AcceptedWasQueued'
    BY <2>2 DEF Enqueue, AcceptedWasQueued
  <2>3. ASSUME NEW c \in Batches, Expire(c) PROVE AcceptedWasQueued'
    BY <2>3 DEF Expire, AcceptedWasQueued
  <2>4. ASSUME NEW p \in Procs, NEW c \in Batches, Receive(p, c) PROVE AcceptedWasQueued'
    BY <2>4 DEF Receive, AcceptedWasQueued
  <2>5. ASSUME NEW p \in Procs, Acknowledge(p) \/ AcknowledgeFails(p) PROVE AcceptedWasQueued'
    <3>1. request' = request /\ \A b \in Batches : msg[b] # "absent" => msg'[b] # "absent"
      BY <2>5 DEF Acknowledge, AcknowledgeFails
    <3> QED BY <3>1 DEF AcceptedWasQueued
  <2>6. CASE UNCHANGED <<request, msg>>
    BY <2>6 DEF AcceptedWasQueued
  <2> QED BY <2>1, <2>2, <2>3, <2>4, <2>5, <2>6 DEF Next, IdlePoll, vars, SendTask, StartTask,
        StartTaskFails, SesAccept, SesReject, RecordSent, RecordSentFails, RecordError, Handle,
        LoadContent, LoadContentFails, BatchResolves, BatchThrows, Crash
<1>3. SendingInv /\ AcceptedWasQueued => AcceptedIsOwed
    BY DEF SendingInv, TypeOK, AckedBatchIsFullySent, AcceptedWasQueued, AcceptedIsOwed
<1> QED BY <1>1, <1>2, <1>3, SendingInvariant, PTL DEF Spec

=============================================================================
