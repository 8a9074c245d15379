-------------------------- MODULE SqsWorkerProofs --------------------------
(***************************************************************************)
(* Proofs about SqsWorker: for any number of pollers and messages, only    *)
(* messages that a handler call finished leave the queue, a worker whose   *)
(* promise settled does nothing more, a failure reaches every sibling, and *)
(* to the rest of the process the pollers are a WorkerGroup.               *)
(***************************************************************************)
EXTENDS SqsWorker, FiniteSetTheorems, TLAPS

Places == {"yielding", "receiving", "handling", "acking", "backoff"} \cup Ended
Progress == {"none", "queued", "ok", "failed"} \cup Occupying

\* What a handler call resolved for was handled: what the poller filters by when
\* it acknowledges its batch.
FinishedIsHandled ==
    \A p \in Pollers, m \in Messages : item[p][m] \in {"ok", "late"} => m \in handled

\* A poller that goes on is below the limit of the breaker.
BelowLimit == \A p \in Pollers : pc[p] \notin Ended => errors[p] < MaxErrors

\* Between two batches, and after a regular end, no lane of the poller has work.
QuietOutsideBatch ==
    \A p \in Pollers : pc[p] \in {"yielding", "receiving", "backoff", "stopped"} =>
        \A m \in Messages : item[p][m] \notin Occupying /\ item[p][m] # "queued"

\* While it deletes, no handler of its batch runs, and none can start.
QuietWhileAcking ==
    \A p \in Pollers : pc[p] = "acking" =>
        \A m \in Messages : item[p][m] \notin Occupying /\ (item[p][m] = "queued" => shutdown)

IndInv ==
    /\ TypeOK
    /\ FinishedIsHandled
    /\ BelowLimit
    /\ QuietOutsideBatch
    /\ QuietWhileAcking
    /\ DeletedWasHandled
    /\ SettledIsOver

\* A worker starts with nothing received, handled or deleted.
LEMMA InitIndInv == Init => IndInv
<1> SUFFICES ASSUME Init PROVE IndInv
  OBVIOUS
<1>1. TypeOK
  <2>1. shutdown \in BOOLEAN /\ groupAborted \in BOOLEAN /\ alive \in BOOLEAN
    BY DEF Init
  <2>2. faults \in 0..MaxFaults /\ errors \in [Pollers -> 0..MaxErrors]
    BY WorkerConstants DEF Init
  <2>3. aborted \in [Pollers -> BOOLEAN]
    BY DEF Init
  <2> QED BY <2>1, <2>2, <2>3 DEF Init, TypeOK
<1>2. FinishedIsHandled /\ BelowLimit /\ QuietOutsideBatch /\ QuietWhileAcking
  BY WorkerConstants DEF Init, FinishedIsHandled, BelowLimit, QuietOutsideBatch,
                         QuietWhileAcking, Occupying, Ended
<1>3. DeletedWasHandled /\ SettledIsOver
  BY DEF Init, DeletedWasHandled, SettledIsOver
<1> QED BY <1>1, <1>2, <1>3 DEF IndInv

-----------------------------------------------------------------------------
(* What the steps of a poller have in common.                              *)

\* Where a poller is after an await: it moves alone, into the loop again, into
\* the next receive, into the back-off or out of the loop.
Leaves(p) == \E to \in {"yielding", "receiving", "backoff"} \cup Ended : pc' = [pc EXCEPT ![p] = to]

\* The end of a poller moves it to "stopped" or "failed" and leaves the types of
\* the signals alone.
LEMMA EndPollerLeaves ==
    ASSUME TypeOK, NEW p \in Pollers, EndPoller(p)
    PROVE  /\ \E to \in Ended : pc' = [pc EXCEPT ![p] = to]
           /\ groupAborted' \in BOOLEAN
           /\ aborted' \in [Pollers -> BOOLEAN]
<1>1. \E to \in Ended : pc' = [pc EXCEPT ![p] = to]
  BY DEF EndPoller, Ended
<1>2. groupAborted' \in BOOLEAN /\ aborted' \in [Pollers -> BOOLEAN]
  BY DEF EndPoller, AbortGroup, TypeOK
<1> QED BY <1>1, <1>2

\* The same for the loop's condition.
LEMMA ContinueLeaves ==
    ASSUME TypeOK, NEW p \in Pollers, Continue(p)
    PROVE  /\ Leaves(p)
           /\ groupAborted' \in BOOLEAN
           /\ aborted' \in [Pollers -> BOOLEAN]
<1>1. CASE EndPoller(p)
  BY <1>1, EndPollerLeaves DEF Leaves
<1>2. CASE pc' = [pc EXCEPT ![p] = "yielding"] /\ UNCHANGED <<groupAborted, aborted>>
  BY <1>2 DEF Leaves, TypeOK
<1> QED BY <1>1, <1>2 DEF Continue

\* A failure below the limit lets the poller go on with a smaller count, and at
\* the limit the poller ends.
LEMMA FailureLeaves ==
    ASSUME TypeOK, BelowLimit, NEW p \in Pollers, pc[p] \notin Ended,
           Failure(p, BackOff(p)) \/ Failure(p, Continue(p))
    PROVE  /\ Leaves(p)
           /\ groupAborted' \in BOOLEAN
           /\ aborted' \in [Pollers -> BOOLEAN]
           /\ alive' \in BOOLEAN
           /\ errors' \in [Pollers -> 0..MaxErrors]
           /\ errors' = [errors EXCEPT ![p] = @ + 1]
           /\ pc'[p] \notin Ended => errors'[p] < MaxErrors
<1>1. errors' = [errors EXCEPT ![p] = @ + 1]
  BY DEF Failure
<1>2. errors[p] \in Nat /\ errors[p] < MaxErrors /\ MaxErrors \in Nat
  BY WorkerConstants DEF TypeOK, BelowLimit
<1>3. errors' \in [Pollers -> 0..MaxErrors]
  BY <1>1, <1>2 DEF TypeOK
<1>4. CASE AtLimit(errors[p] + 1) /\ alive' = FALSE /\ EndPoller(p)
  <2>1. PICK to \in Ended : pc' = [pc EXCEPT ![p] = to]
    BY <1>4, EndPollerLeaves
  <2>2. pc'[p] \in Ended
    BY <2>1 DEF TypeOK
  <2> QED BY <1>1, <1>3, <1>4, <2>1, <2>2, EndPollerLeaves DEF Leaves
<1>5. CASE ~AtLimit(errors[p] + 1) /\ UNCHANGED alive /\ (BackOff(p) \/ Continue(p))
  <2>1. Leaves(p) /\ groupAborted' \in BOOLEAN /\ aborted' \in [Pollers -> BOOLEAN]
    <3>1. CASE BackOff(p)
      BY <3>1 DEF BackOff, Leaves, TypeOK
    <3>2. CASE Continue(p)
      BY <3>2, ContinueLeaves
    <3> QED BY <1>5, <3>1, <3>2
  <2>2. errors'[p] < MaxErrors
    BY <1>1, <1>2, <1>5 DEF AtLimit, TypeOK
  <2>3. alive' \in BOOLEAN
    BY <1>5 DEF TypeOK
  <2> QED BY <1>1, <1>3, <2>1, <2>2, <2>3
<1> QED BY <1>4, <1>5 DEF Failure

\* A message that is handed out changes nothing about the deleted ones.
LEMMA HandingOut ==
    ASSUME TypeOK, DeletedWasHandled, NEW batch \in SUBSET Visible, UNCHANGED handled,
           msg' = [m \in Messages |-> IF m \in batch THEN "inflight" ELSE msg[m]]
    PROVE  msg' \in [Messages -> {"visible", "inflight", "deleted"}] /\ DeletedWasHandled'
BY DEF TypeOK, DeletedWasHandled, Visible

-----------------------------------------------------------------------------
(* One step per action.                                                    *)

\* A step of poller p between two batches: the batch and the history stay, the
\* poller moves, and no other poller is concerned.
LEMMA MoveStep ==
    ASSUME IndInv, NEW p \in Pollers, Leaves(p),
           pc[p] \in {"yielding", "receiving", "backoff"},
           UNCHANGED <<shutdown, outcome, item, handled>>,
           errors' \in [Pollers -> 0..MaxErrors],
           \A q \in Pollers : q # p => errors'[q] = errors[q],
           pc'[p] \notin Ended => errors'[p] < MaxErrors
    PROVE  /\ pc' \in [Pollers -> Places]
           /\ FinishedIsHandled' /\ BelowLimit' /\ QuietOutsideBatch' /\ QuietWhileAcking'
           /\ SettledIsOver'
<1>1. PICK to \in {"yielding", "receiving", "backoff"} \cup Ended : pc' = [pc EXCEPT ![p] = to]
  BY DEF Leaves
<1>2. pc' \in [Pollers -> Places]
  BY <1>1 DEF IndInv, TypeOK, Places
<1>3. FinishedIsHandled'
  BY DEF IndInv, FinishedIsHandled
<1>4. BelowLimit'
  BY <1>1 DEF IndInv, TypeOK, BelowLimit
<1>5. QuietOutsideBatch'
  BY <1>1 DEF IndInv, TypeOK, QuietOutsideBatch
<1>6. QuietWhileAcking'
  BY <1>1 DEF IndInv, TypeOK, QuietWhileAcking, Ended
<1>7. SettledIsOver'
  <2>1. outcome = "pending"
    BY DEF IndInv, SettledIsOver, Settled, Ended
  <2> QED BY <2>1 DEF SettledIsOver
<1> QED BY <1>2, <1>3, <1>4, <1>5, <1>6, <1>7

\* A poller that is still at work is a reason for the promise to be pending.
LEMMA WorkingIsPending ==
    ASSUME IndInv, NEW p \in Pollers, pc[p] \notin Ended
    PROVE  outcome = "pending"
BY DEF IndInv, SettledIsOver, Settled

\* The steps of a poller around its receive, other than a batch for the lanes.
LEMMA IdlePollerStep ==
    ASSUME IndInv, NEW p \in Pollers,
           \/ StartReceive(p) \/ ReceiveNothing(p) \/ ReceiveAborted(p) \/ ReceiveFails(p)
           \/ BackoffEnds(p)
    PROVE  IndInv'
<1> USE DEF IndInv
<1>t. TypeOK /\ BelowLimit /\ DeletedWasHandled
  OBVIOUS
<1>l. ASSUME UNCHANGED errors, pc[p] \notin Ended
      PROVE  /\ errors' \in [Pollers -> 0..MaxErrors]
             /\ \A q \in Pollers : q # p => errors'[q] = errors[q]
             /\ pc'[p] \notin Ended => errors'[p] < MaxErrors
  BY <1>l DEF TypeOK, BelowLimit
<1>p. pc[p] \in {"yielding", "receiving", "backoff"} /\ pc[p] \notin Ended
  BY DEF StartReceive, ReceiveNothing, ReceiveAborted, ReceiveFails, BackoffEnds, Ended
<1>a. UNCHANGED <<shutdown, outcome, item, handled>>
  BY DEF StartReceive, ReceiveNothing, ReceiveAborted, ReceiveFails, BackoffEnds
<1>f. faults' \in 0..MaxFaults
  BY WorkerConstants DEF StartReceive, ReceiveNothing, ReceiveAborted, ReceiveFails, BackoffEnds,
                         TypeOK, Fault, NoFault
<1>m. msg' \in [Messages -> {"visible", "inflight", "deleted"}] /\ DeletedWasHandled'
  <2>1. CASE UNCHANGED msg
    BY <2>1, <1>a DEF TypeOK, DeletedWasHandled
  <2>2. CASE ReceiveAborted(p)
    <3>1. PICK gone \in SUBSET Visible :
             msg' = [m \in Messages |-> IF m \in gone THEN "inflight" ELSE msg[m]]
      BY <2>2 DEF ReceiveAborted
    <3> QED BY <3>1, <1>a, <1>t, HandingOut
  <2> QED BY <2>1, <2>2 DEF StartReceive, ReceiveNothing, ReceiveFails, BackoffEnds
<1>s. /\ Leaves(p)
      /\ groupAborted' \in BOOLEAN /\ aborted' \in [Pollers -> BOOLEAN] /\ alive' \in BOOLEAN
      /\ errors' \in [Pollers -> 0..MaxErrors]
      /\ \A q \in Pollers : q # p => errors'[q] = errors[q]
      /\ pc'[p] \notin Ended => errors'[p] < MaxErrors
  <2>1. CASE StartReceive(p)
    <3>1. groupAborted' \in BOOLEAN /\ alive' \in BOOLEAN
      BY <2>1, Zenon DEF StartReceive, TypeOK
    <3>2. aborted' \in [Pollers -> BOOLEAN]
      BY <2>1 DEF StartReceive, TypeOK
    <3>3. Leaves(p) /\ UNCHANGED errors
      BY <2>1 DEF StartReceive, Leaves
    <3> QED BY <3>1, <3>2, <3>3, <1>l, <1>p
  <2>2. CASE ReceiveNothing(p)
    <3>1. CASE EndPoller(p) /\ UNCHANGED alive
      BY <2>2, <3>1, <1>t, <1>l, <1>p, EndPollerLeaves DEF ReceiveNothing, Leaves, TypeOK
    <3>2. CASE Continue(p) /\ alive' = TRUE
      BY <2>2, <3>2, <1>t, <1>l, <1>p, ContinueLeaves DEF ReceiveNothing
    <3> QED BY <2>2, <3>1, <3>2 DEF ReceiveNothing
  <2>3. CASE ReceiveAborted(p)
    BY <2>3, <1>t, <1>l, <1>p, EndPollerLeaves DEF ReceiveAborted, Leaves, TypeOK
  <2>4. CASE ReceiveFails(p)
    <3>1. Failure(p, BackOff(p))
      BY <2>4 DEF ReceiveFails
    <3>2. \A q \in Pollers : q # p => errors'[q] = errors[q]
      BY <3>1, <1>t, <1>p, FailureLeaves DEF TypeOK
    <3> QED BY <3>1, <3>2, <1>t, <1>p, FailureLeaves
  <2>5. CASE BackoffEnds(p)
    BY <2>5, <1>t, <1>l, <1>p, ContinueLeaves DEF BackoffEnds, TypeOK
  <2> QED BY <2>1, <2>2, <2>3, <2>4, <2>5
<1>1. /\ pc' \in [Pollers -> Places]
      /\ FinishedIsHandled' /\ BelowLimit' /\ QuietOutsideBatch' /\ QuietWhileAcking'
      /\ SettledIsOver'
  BY <1>s, <1>a, <1>p, MoveStep
<1>2. TypeOK'
  <2>1. shutdown' \in BOOLEAN
    BY <1>a, Zenon DEF TypeOK
  <2>2. /\ outcome' \in {"pending", "resolved", "rejected"}
        /\ item' \in [Pollers -> [Messages -> Progress]]
        /\ handled' \subseteq Messages
    BY <1>a DEF TypeOK, Progress
  <2> QED BY <2>1, <2>2, <1>1, <1>s, <1>m, <1>f DEF TypeOK, Places, Progress
<1> QED BY <1>1, <1>2, <1>m

\* A batch goes to the lanes, or is dropped because shutdown came first.
LEMMA ReceiveStep ==
    ASSUME IndInv, NEW p \in Pollers, Receive(p)
    PROVE  IndInv'
<1> USE DEF IndInv
<1>1. PICK batch \in SUBSET Visible : ReceiveBatch(p, batch)
  BY DEF Receive
<1>t. TypeOK /\ BelowLimit /\ DeletedWasHandled
  OBVIOUS
<1>p. pc[p] = "receiving" /\ pc[p] \notin Ended
  BY <1>1 DEF ReceiveBatch, Ended
<1>a. UNCHANGED <<shutdown, outcome, errors, handled, faults>>
  BY <1>1 DEF ReceiveBatch, NoFault
<1>m. msg' \in [Messages -> {"visible", "inflight", "deleted"}] /\ DeletedWasHandled'
  BY <1>1, <1>a, <1>t, HandingOut DEF ReceiveBatch
<1>s. shutdown' \in BOOLEAN
  BY <1>a, Zenon DEF TypeOK
<1>2. CASE EndPoller(p) /\ UNCHANGED <<item, alive>>
  <2>1. Leaves(p) /\ groupAborted' \in BOOLEAN /\ aborted' \in [Pollers -> BOOLEAN]
    BY <1>2, <1>t, EndPollerLeaves DEF Leaves
  <2>2. /\ errors' \in [Pollers -> 0..MaxErrors]
        /\ \A q \in Pollers : q # p => errors'[q] = errors[q]
        /\ pc'[p] \notin Ended => errors'[p] < MaxErrors
    BY <1>a, <1>p DEF TypeOK, BelowLimit
  <2>3. /\ pc' \in [Pollers -> Places]
        /\ FinishedIsHandled' /\ BelowLimit' /\ QuietOutsideBatch' /\ QuietWhileAcking'
        /\ SettledIsOver'
    BY <2>1, <2>2, <1>2, <1>a, <1>p, MoveStep
  <2>4. alive' \in BOOLEAN
    BY <1>2, Zenon DEF TypeOK
  <2>5. /\ outcome' \in {"pending", "resolved", "rejected"}
        /\ item' \in [Pollers -> [Messages -> Progress]]
        /\ faults' \in 0..MaxFaults /\ handled' \subseteq Messages
    BY <1>a, <1>2 DEF TypeOK, Progress
  <2> QED BY <2>1, <2>2, <2>3, <2>4, <2>5, <1>m, <1>s DEF TypeOK, Places, Progress
<1>3. CASE /\ ~shutdown
           /\ pc' = [pc EXCEPT ![p] = "handling"]
           /\ item' = [item EXCEPT ![p] =
                         [m \in Messages |-> IF m \in batch THEN "queued" ELSE "none"]]
           /\ alive' = TRUE
           /\ UNCHANGED <<groupAborted, aborted>>
  <2>1. outcome = "pending"
    BY <1>p, WorkingIsPending
  <2>2. TypeOK'
    <3>1. groupAborted' \in BOOLEAN /\ aborted' \in [Pollers -> BOOLEAN] /\ alive' \in BOOLEAN
      BY <1>3, Zenon DEF TypeOK
    <3>2. pc' \in [Pollers -> Places] /\ item' \in [Pollers -> [Messages -> Progress]]
      BY <1>3 DEF TypeOK, Places, Progress
    <3>3. /\ outcome' \in {"pending", "resolved", "rejected"}
          /\ errors' \in [Pollers -> 0..MaxErrors]
          /\ faults' \in 0..MaxFaults /\ handled' \subseteq Messages
      BY <1>a DEF TypeOK
    <3> QED BY <3>1, <3>2, <3>3, <1>m, <1>s DEF TypeOK, Places, Progress
  <2>3. FinishedIsHandled'
    BY <1>3, <1>a DEF FinishedIsHandled, TypeOK
  <2>4. BelowLimit'
    BY <1>3, <1>a, <1>p DEF BelowLimit, TypeOK
  <2>5. QuietOutsideBatch' /\ QuietWhileAcking'
    BY <1>3, <1>a DEF QuietOutsideBatch, QuietWhileAcking, TypeOK
  <2>6. SettledIsOver'
    BY <2>1, <1>a DEF SettledIsOver
  <2> QED BY <2>2, <2>3, <2>4, <2>5, <2>6, <1>m
<1> QED BY <1>1, <1>2, <1>3 DEF ReceiveBatch

\* Handler calls start only for messages a lane has queued, which a poller that
\* deletes, waits or stopped has not; a resolved call is what "handled" records.
LEMMA HandlersRun ==
    ASSUME IndInv, NEW p \in Pollers, NEW m \in Messages, HandlerStep(p, m)
    PROVE  IndInv'
<1> USE DEF IndInv
<1>i. item[p][m] \in Progress
  BY DEF TypeOK, Progress
<1>a. UNCHANGED <<shutdown, outcome, errors, msg, alive>>
  BY DEF HandlerStep, StartHandler, HandlerSucceeds, HandlerThrows, HandlerOverruns
<1>b. shutdown' \in BOOLEAN /\ alive' \in BOOLEAN
  BY <1>a, Zenon DEF TypeOK
<1>c. faults' \in 0..MaxFaults
  BY WorkerConstants DEF HandlerStep, StartHandler, HandlerSucceeds, HandlerThrows,
                         HandlerOverruns, TypeOK, Fault, NoFault
<1>h. handled \subseteq handled' /\ handled' \subseteq Messages
  BY DEF HandlerStep, StartHandler, HandlerSucceeds, HandlerThrows, HandlerOverruns, TypeOK
<1>d. DeletedWasHandled'
  BY <1>a, <1>h DEF DeletedWasHandled
<1>n. PICK next \in {"running", "ok", "late", "failed", "overdue"} :
         /\ item' = [item EXCEPT ![p][m] = next]
         /\ next \in {"ok", "late"} => m \in handled'
  BY <1>i DEF HandlerStep, StartHandler, HandlerSucceeds, HandlerThrows, HandlerOverruns
<1>e. \A q \in Pollers, k \in Messages :
         item'[q][k] = IF q = p /\ k = m THEN next ELSE item[q][k]
  BY <1>n DEF TypeOK
<1>f. item' \in [Pollers -> [Messages -> Progress]]
  BY <1>n DEF TypeOK, Progress, Occupying
<1>g. FinishedIsHandled'
  BY <1>n, <1>e, <1>h DEF FinishedIsHandled
<1>o. item[p][m] \in {"queued", "running", "overdue"} /\ (item[p][m] = "queued" => ~shutdown)
  BY DEF HandlerStep, StartHandler, HandlerSucceeds, HandlerThrows, HandlerOverruns
<1>q. pc[p] \in {"handling", "failed"}
  BY <1>o DEF QuietOutsideBatch, QuietWhileAcking, TypeOK, Occupying, Ended
<1>1. CASE UNCHANGED <<groupAborted, pc, aborted>>
  <2>1. TypeOK'
    <3>1. groupAborted' \in BOOLEAN /\ aborted' \in [Pollers -> BOOLEAN]
      BY <1>1, Zenon DEF TypeOK
    <3> QED BY <3>1, <1>1, <1>a, <1>b, <1>c, <1>f, <1>h DEF TypeOK, Progress
  <2>2. BelowLimit'
    BY <1>1, <1>a DEF BelowLimit
  <2>3. QuietOutsideBatch' /\ QuietWhileAcking'
    BY <1>1, <1>a, <1>e, <1>q DEF QuietOutsideBatch, QuietWhileAcking
  <2>4. SettledIsOver'
    BY <1>1, <1>a, <1>e, <1>q DEF SettledIsOver, Settled, Holds
  <2> QED BY <2>1, <2>2, <2>3, <2>4, <1>d, <1>g
<1>2. CASE HandlerOverruns(p, m)
  <2>0. pc[p] = "handling" /\ pc' = [pc EXCEPT ![p] = "failed"] /\ outcome = "pending"
    BY <1>2, WorkingIsPending DEF HandlerOverruns, Ended
  <2>1. TypeOK'
    <3>1. groupAborted' \in BOOLEAN /\ aborted' \in [Pollers -> BOOLEAN]
      BY <1>2 DEF HandlerOverruns, AbortGroup, TypeOK
    <3>2. pc' \in [Pollers -> Places]
      BY <2>0 DEF TypeOK, Places, Ended
    <3> QED BY <3>1, <3>2, <1>a, <1>b, <1>c, <1>f, <1>h DEF TypeOK, Progress, Places
  <2>2. BelowLimit'
    BY <2>0, <1>a DEF BelowLimit, TypeOK, Ended
  <2>3. QuietOutsideBatch' /\ QuietWhileAcking'
    BY <2>0, <1>a, <1>e DEF QuietOutsideBatch, QuietWhileAcking, TypeOK
  <2>4. SettledIsOver'
    BY <2>0, <1>a DEF SettledIsOver
  <2> QED BY <2>1, <2>2, <2>3, <2>4, <1>d, <1>g
<1> QED BY <1>1, <1>2 DEF HandlerStep, StartHandler, HandlerSucceeds, HandlerThrows

\* The lanes are done: what the poller deletes from now on cannot change.
LEMMA BatchSettlesStep ==
    ASSUME IndInv, NEW p \in Pollers, BatchSettles(p)
    PROVE  IndInv'
<1> USE DEF IndInv, BatchSettles
<1>0. outcome = "pending"
  BY WorkingIsPending DEF Ended
<1>1. TypeOK'
  <2>1. shutdown' \in BOOLEAN /\ groupAborted' \in BOOLEAN /\ alive' \in BOOLEAN
    BY Zenon DEF TypeOK
  <2> QED BY <2>1 DEF TypeOK, NoFault
<1>2. FinishedIsHandled' /\ DeletedWasHandled'
  BY DEF FinishedIsHandled, DeletedWasHandled
<1>3. BelowLimit'
  BY DEF BelowLimit, TypeOK, Ended
<1>4. QuietOutsideBatch'
  BY DEF QuietOutsideBatch, TypeOK
<1>5. QuietWhileAcking'
  BY DEF QuietWhileAcking, TypeOK, LanesDone, Holds
<1>6. SettledIsOver'
  BY <1>0 DEF SettledIsOver
<1> QED BY <1>1, <1>2, <1>3, <1>4, <1>5, <1>6

\* The delete: only entries of handlers that resolved are sent, and the poller
\* leaves its batch behind.
LEMMA DeleteStep ==
    ASSUME IndInv, NEW p \in Pollers, NEW deleted \in SUBSET Ackable(p), NEW confirmed,
           DeleteBatch(p, deleted, confirmed), faults' \in 0..MaxFaults
    PROVE  IndInv'
<1> USE DEF IndInv
<1>t. TypeOK /\ BelowLimit
  OBVIOUS
<1>p. pc[p] = "acking" /\ pc[p] \notin Ended
  BY DEF DeleteBatch, Ended
<1>a. UNCHANGED <<shutdown, outcome, handled>>
  BY DEF DeleteBatch
<1>m. msg' \in [Messages -> {"visible", "inflight", "deleted"}]
  BY DEF DeleteBatch, TypeOK
<1>d. DeletedWasHandled'
  BY <1>a DEF DeleteBatch, DeletedWasHandled, Ackable, Holds, FinishedIsHandled
<1>i. item' = [item EXCEPT ![p] = [m \in Messages |-> IF item[p][m] \in Occupying THEN item[p][m] ELSE "none"]]
  BY DEF DeleteBatch
<1>j. /\ item' \in [Pollers -> [Messages -> Progress]]
      /\ \A m \in Messages : item'[p][m] = "none"
      /\ \A q \in Pollers : q # p => item'[q] = item[q]
  <2>1. \A m \in Messages : item[p][m] \notin Occupying
    BY <1>p DEF QuietWhileAcking
  <2> QED BY <1>i, <2>1 DEF TypeOK, Progress
<1>s. /\ Leaves(p)
      /\ groupAborted' \in BOOLEAN /\ aborted' \in [Pollers -> BOOLEAN] /\ alive' \in BOOLEAN
      /\ errors' \in [Pollers -> 0..MaxErrors]
      /\ \A q \in Pollers : q # p => errors'[q] = errors[q]
      /\ pc'[p] \notin Ended => errors'[p] < MaxErrors
  <2>1. CASE errors' = [errors EXCEPT ![p] = 0] /\ alive' = TRUE /\ Continue(p)
    <3>1. /\ errors' \in [Pollers -> 0..MaxErrors]
          /\ \A q \in Pollers : q # p => errors'[q] = errors[q]
          /\ errors'[p] < MaxErrors
      BY <2>1, WorkerConstants DEF TypeOK
    <3> QED BY <2>1, <3>1, <1>t, ContinueLeaves
  <2>2. CASE Failure(p, Continue(p))
    <3>1. \A q \in Pollers : q # p => errors'[q] = errors[q]
      BY <2>2, <1>t, <1>p, FailureLeaves DEF TypeOK
    <3> QED BY <2>2, <3>1, <1>t, <1>p, FailureLeaves
  <2> QED BY <2>1, <2>2 DEF DeleteBatch
<1>l. PICK to \in {"yielding", "receiving", "backoff"} \cup Ended : pc' = [pc EXCEPT ![p] = to]
  BY <1>s DEF Leaves
<1>1. TypeOK'
  <2>1. shutdown' \in BOOLEAN
    BY <1>a, Zenon DEF TypeOK
  <2>2. pc' \in [Pollers -> Places]
    BY <1>l DEF TypeOK, Places
  <2>3. outcome' \in {"pending", "resolved", "rejected"} /\ handled' \subseteq Messages
    BY <1>a DEF TypeOK
  <2> QED BY <2>1, <2>2, <2>3, <1>j, <1>m, <1>s DEF TypeOK, Places, Progress
<1>2. FinishedIsHandled'
  BY <1>a, <1>j DEF FinishedIsHandled
<1>3. BelowLimit'
  BY <1>l, <1>s DEF BelowLimit, TypeOK
<1>4. QuietOutsideBatch' /\ QuietWhileAcking'
  BY <1>l, <1>j, <1>a DEF QuietOutsideBatch, QuietWhileAcking, TypeOK, Occupying
<1>5. SettledIsOver'
  BY <1>p, <1>a, WorkingIsPending DEF SettledIsOver
<1> QED BY <1>1, <1>2, <1>3, <1>4, <1>5, <1>d

\* The end of the worker: the promise settles once every poller has ended, and
\* a regular end of all of them leaves no handler behind.
LEMMA SettleStep ==
    ASSUME IndInv, Settle
    PROVE  IndInv'
<1> USE DEF IndInv, Settle
<1>1. TypeOK'
  <2>1. shutdown' \in BOOLEAN /\ groupAborted' \in BOOLEAN /\ alive' \in BOOLEAN
    BY Zenon DEF TypeOK, MarkWorkerDead
  <2> QED BY <2>1 DEF TypeOK, NoFault
<1>2. FinishedIsHandled' /\ BelowLimit' /\ QuietOutsideBatch' /\ QuietWhileAcking' /\ DeletedWasHandled'
  BY DEF FinishedIsHandled, BelowLimit, QuietOutsideBatch, QuietWhileAcking, DeletedWasHandled
<1>3. Settled' /\ ~alive'
  BY DEF ReadyToSettle, Settled, MarkWorkerDead
<1>4. outcome' = "resolved" => \A p \in Pollers : pc'[p] = "stopped"
  BY DEF ReadyToSettle, Settled, Ended
<1>5. \A p \in Pollers : pc[p] = "stopped" => Holds(p, {"running", "overdue"})' = {}
  BY DEF QuietOutsideBatch, Holds, Occupying
<1> QED BY <1>1, <1>2, <1>3, <1>4, <1>5 DEF SettledIsOver

\* A shutdown request and the visibility timeout of SQS only touch the flag, the
\* signals and the message.
LEMMA EnvironmentStep ==
    ASSUME IndInv, RequestShutdown \/ (\E m \in Messages : Expire(m)) \/ Done \/ UNCHANGED vars
    PROVE  IndInv'
<1> USE DEF IndInv
<1>1. CASE RequestShutdown
  <2> USE <1>1 DEF RequestShutdown
  <2>1. TypeOK'
    <3>1. shutdown' \in BOOLEAN /\ groupAborted' \in BOOLEAN /\ alive' \in BOOLEAN
      BY Zenon DEF TypeOK
    <3>2. aborted' \in [Pollers -> BOOLEAN]
      BY DEF TypeOK
    <3> QED BY <3>1, <3>2 DEF TypeOK, NoFault
  <2>2. FinishedIsHandled' /\ BelowLimit' /\ QuietOutsideBatch' /\ QuietWhileAcking' /\ DeletedWasHandled'
    BY DEF FinishedIsHandled, BelowLimit, QuietOutsideBatch, QuietWhileAcking, DeletedWasHandled
  <2>3. SettledIsOver'
    BY DEF SettledIsOver, Settled, Holds
  <2> QED BY <2>1, <2>2, <2>3
<1>2. ASSUME NEW m \in Messages, Expire(m) PROVE IndInv'
  <2> USE <1>2 DEF Expire
  <2>1. TypeOK'
    <3>1. shutdown' \in BOOLEAN /\ groupAborted' \in BOOLEAN /\ alive' \in BOOLEAN
      BY Zenon DEF TypeOK
    <3> QED BY <3>1 DEF TypeOK, NoFault
  <2>2. FinishedIsHandled' /\ BelowLimit' /\ QuietOutsideBatch' /\ QuietWhileAcking'
    BY DEF FinishedIsHandled, BelowLimit, QuietOutsideBatch, QuietWhileAcking
  <2>3. DeletedWasHandled'
    BY DEF DeletedWasHandled, TypeOK
  <2>4. SettledIsOver'
    BY DEF SettledIsOver, Settled, Holds
  <2> QED BY <2>1, <2>2, <2>3, <2>4
<1>3. CASE UNCHANGED vars
  <2> USE <1>3 DEF vars
  <2>1. TypeOK'
    <3>1. shutdown' \in BOOLEAN /\ groupAborted' \in BOOLEAN /\ alive' \in BOOLEAN
      BY Zenon DEF TypeOK
    <3> QED BY <3>1 DEF TypeOK
  <2>2. FinishedIsHandled' /\ BelowLimit' /\ QuietOutsideBatch' /\ QuietWhileAcking' /\ DeletedWasHandled'
    BY DEF FinishedIsHandled, BelowLimit, QuietOutsideBatch, QuietWhileAcking, DeletedWasHandled
  <2>3. SettledIsOver'
    BY DEF SettledIsOver, Settled, Holds
  <2> QED BY <2>1, <2>2, <2>3
<1> QED BY <1>1, <1>2, <1>3 DEF Done

-----------------------------------------------------------------------------
(* The theorems.                                                           *)

\* The inductive invariant holds in every reachable state.
LEMMA IndInvHolds == Spec => []IndInv
<1>1. Init => IndInv
  BY InitIndInv
<1>2. IndInv /\ [Next]_vars => IndInv'
  <2> SUFFICES ASSUME IndInv, [Next]_vars PROVE IndInv'
    OBVIOUS
  <2>1. ASSUME NEW p \in Pollers, PollStep(p) PROVE IndInv'
    <3>1. CASE Acknowledge(p)
      <4>1. faults' \in 0..MaxFaults
        BY <3>1 DEF Acknowledge, NoFault, IndInv, TypeOK
      <4> QED BY <3>1, <4>1, DeleteStep DEF Acknowledge
    <3>2. CASE AcknowledgeFails(p)
      <4>1. faults' \in 0..MaxFaults
        BY <3>2, WorkerConstants DEF AcknowledgeFails, Fault, IndInv, TypeOK
      <4> QED BY <3>2, <4>1, DeleteStep DEF AcknowledgeFails
    <3> QED BY <2>1, <3>1, <3>2, IdlePollerStep, ReceiveStep, BatchSettlesStep DEF PollStep
  <2>2. ASSUME NEW p \in Pollers, NEW m \in Messages, HandlerStep(p, m) PROVE IndInv'
    BY <2>2, HandlersRun
  <2>3. CASE Settle
    BY <2>3, SettleStep
  <2>4. CASE RequestShutdown \/ (\E m \in Messages : Expire(m)) \/ Done \/ UNCHANGED vars
    BY <2>4, EnvironmentStep
  <2> QED BY <2>1, <2>2, <2>3, <2>4 DEF Next
<1> QED BY <1>1, <1>2, PTL DEF Spec

\* Whichever pollers received a message and however often, it leaves the queue
\* only after a handler call for it resolved.
THEOREM OnlyHandledMessagesAreDeleted == Spec => []DeletedWasHandled
<1>1. IndInv => DeletedWasHandled
  BY DEF IndInv
<1> QED BY <1>1, IndInvHolds, PTL

\* When startWorker's promise settles every poller has ended and the registry
\* says so, for good; if it resolves, none failed and no handler still runs.
THEOREM SettledWorkerIsOver == Spec => []SettledIsOver
<1>1. IndInv => SettledIsOver
  BY DEF IndInv
<1> QED BY <1>1, IndInvHolds, PTL

-----------------------------------------------------------------------------
(* The safety core of WorkerSettles and MessagesAreWorkedOff: the signals  *)
(* reach every poller, and no lane waits for nothing.                      *)

\* A poller that failed has aborted the group, and a group that is aborted has
\* aborted every receive that is open, also one opened after the abort.
SignalsArrive ==
    /\ \A p \in Pollers : pc[p] = "failed" => groupAborted
    /\ groupAborted => \A p \in Pollers : pc[p] = "receiving" => aborted[p]

\* No lane of a batch in progress is lost to a handler that overran: the first
\* one that does ends the poller.
LanesAreKept ==
    \A p \in Pollers : pc[p] = "handling" =>
        \A m \in Messages : item[p][m] \notin {"overdue", "late"}

ProgressInv == SignalsArrive /\ LanesAreKept

\* Once a poller has failed no sibling enters its loop again or waits for an
\* answer of SQS that the abort cannot cut short, and a poller that counted to
\* the limit of the breaker has ended.
FailureReachesSiblings ==
    /\ \A p \in Pollers : errors[p] = MaxErrors => pc[p] \in Ended
    /\ (\E p \in Pollers : pc[p] = "failed") =>
          /\ ~LoopAgain
          /\ \A p \in Pollers : pc[p] = "receiving" => aborted[p]

\* A batch in progress is done, or a handler of it runs, or a lane is free to
\* take the next message.
NoLaneIsLost ==
    \A p \in Pollers : pc[p] = "handling" =>
        \/ LanesDone(p)
        \/ Holds(p, {"running"}) # {}
        \/ ~shutdown /\ Holds(p, {"queued"}) # {} /\ LaneFree(p)

\* The ways a step of poller p touches the signals: it fails and aborts the
\* group, it opens a receive under the group's signal, or it goes elsewhere.
SignalsAfter(p) ==
    \/ pc' = [pc EXCEPT ![p] = "failed"] /\ AbortGroup
    \/ /\ pc' = [pc EXCEPT ![p] = "receiving"]
       /\ groupAborted' = groupAborted /\ aborted' = [aborted EXCEPT ![p] = groupAborted]
    \/ /\ \E to \in {"yielding", "handling", "acking", "backoff", "stopped"} : pc' = [pc EXCEPT ![p] = to]
       /\ groupAborted' = groupAborted /\ aborted' = aborted

LEMMA SignalsKeep ==
    ASSUME TypeOK, SignalsArrive, NEW p \in Pollers, SignalsAfter(p)
    PROVE  SignalsArrive'
<1>1. CASE pc' = [pc EXCEPT ![p] = "failed"] /\ AbortGroup
  BY <1>1 DEF AbortGroup, SignalsArrive, TypeOK
<1>2. CASE /\ pc' = [pc EXCEPT ![p] = "receiving"]
           /\ groupAborted' = groupAborted /\ aborted' = [aborted EXCEPT ![p] = groupAborted]
  BY <1>2 DEF SignalsArrive, TypeOK
<1>3. ASSUME NEW to \in {"yielding", "handling", "acking", "backoff", "stopped"},
             pc' = [pc EXCEPT ![p] = to], groupAborted' = groupAborted, aborted' = aborted
      PROVE  SignalsArrive'
  BY <1>3 DEF SignalsArrive, TypeOK
<1> QED BY <1>1, <1>2, <1>3 DEF SignalsAfter

LEMMA EndPollerSignals == ASSUME NEW p \in Pollers, EndPoller(p) PROVE SignalsAfter(p)
  BY DEF EndPoller, SignalsAfter

LEMMA ContinueSignals == ASSUME NEW p \in Pollers, Continue(p) PROVE SignalsAfter(p)
  BY EndPollerSignals DEF Continue, SignalsAfter

LEMMA FailureSignals ==
    ASSUME NEW p \in Pollers, Failure(p, BackOff(p)) \/ Failure(p, Continue(p))
    PROVE  SignalsAfter(p)
<1>1. EndPoller(p) \/ Continue(p) \/ BackOff(p)
  BY DEF Failure
<1>2. CASE BackOff(p)
  BY <1>2 DEF BackOff, SignalsAfter
<1> QED BY <1>1, <1>2, EndPollerSignals, ContinueSignals

LEMMA PollStepSignals == ASSUME NEW p \in Pollers, PollStep(p) PROVE SignalsAfter(p)
<1>1. CASE StartReceive(p)
  BY <1>1 DEF StartReceive, SignalsAfter
<1>2. CASE Receive(p)
  <2>1. PICK batch \in SUBSET Visible : ReceiveBatch(p, batch)
    BY <1>2 DEF Receive
  <2> QED BY <2>1, EndPollerSignals DEF ReceiveBatch, SignalsAfter
<1>3. CASE ReceiveNothing(p)
  BY <1>3, EndPollerSignals, ContinueSignals DEF ReceiveNothing
<1>4. CASE ReceiveAborted(p)
  BY <1>4, EndPollerSignals DEF ReceiveAborted
<1>5. CASE ReceiveFails(p)
  BY <1>5, FailureSignals DEF ReceiveFails
<1>6. CASE BackoffEnds(p)
  BY <1>6, ContinueSignals DEF BackoffEnds
<1>7. CASE BatchSettles(p)
  BY <1>7 DEF BatchSettles, SignalsAfter
<1>8. CASE Acknowledge(p) \/ AcknowledgeFails(p)
  <2>1. Continue(p) \/ Failure(p, Continue(p))
    BY <1>8 DEF Acknowledge, AcknowledgeFails, DeleteBatch
  <2> QED BY <2>1, ContinueSignals, FailureSignals
<1> QED BY <1>1, <1>2, <1>3, <1>4, <1>5, <1>6, <1>7, <1>8 DEF PollStep

\* Only a new batch takes a poller into "handling", and it fills every lane anew.
LEMMA PollStepLanes == ASSUME IndInv, LanesAreKept, NEW p \in Pollers, PollStep(p) PROVE LanesAreKept'
<1>1. CASE Receive(p) /\ pc'[p] = "handling"
  <2>1. PICK batch \in SUBSET Visible : ReceiveBatch(p, batch)
    BY <1>1 DEF Receive
  <2>2. ~EndPoller(p)
    BY <1>1 DEF EndPoller, IndInv, TypeOK
  <2> QED BY <2>1, <2>2 DEF ReceiveBatch, LanesAreKept, IndInv, TypeOK
<1>2. CASE Receive(p) /\ pc'[p] # "handling"
  <2>1. PICK batch \in SUBSET Visible : ReceiveBatch(p, batch)
    BY <1>2 DEF Receive
  <2>2. EndPoller(p) /\ UNCHANGED item
    BY <1>2, <2>1 DEF ReceiveBatch, IndInv, TypeOK
  <2> QED BY <2>2, <1>2, EndPollerLeaves DEF LanesAreKept, IndInv, TypeOK
<1>3. CASE ~Receive(p)
  <2>1. \A q \in Pollers : q # p => item'[q] = item[q]
    BY <1>3 DEF PollStep, StartReceive, ReceiveNothing, ReceiveAborted, ReceiveFails, BackoffEnds,
                BatchSettles, Acknowledge, AcknowledgeFails, DeleteBatch, IndInv, TypeOK
  <2>2. PICK to \in {"yielding", "receiving", "acking", "backoff"} \cup Ended : pc' = [pc EXCEPT ![p] = to]
    <3>1. CASE StartReceive(p)
      BY <3>1 DEF StartReceive
    <3>2. CASE BatchSettles(p)
      BY <3>2 DEF BatchSettles
    <3>3. CASE ReceiveNothing(p) \/ ReceiveAborted(p) \/ BackoffEnds(p)
      <4>1. EndPoller(p) \/ Continue(p)
        BY <3>3 DEF ReceiveNothing, ReceiveAborted, BackoffEnds
      <4> QED BY <4>1, EndPollerLeaves, ContinueLeaves DEF IndInv, Leaves
    <3>4. CASE ReceiveFails(p) \/ Acknowledge(p) \/ AcknowledgeFails(p)
      <4>1. EndPoller(p) \/ Continue(p) \/ BackOff(p)
        BY <3>4 DEF ReceiveFails, Acknowledge, AcknowledgeFails, DeleteBatch, Failure
      <4> QED BY <4>1, EndPollerLeaves, ContinueLeaves DEF IndInv, Leaves, BackOff
    <3> QED BY <1>3, <3>1, <3>2, <3>3, <3>4 DEF PollStep
  <2>3. pc'[p] # "handling" /\ \A q \in Pollers : q # p => pc'[q] = pc[q]
    BY <2>2 DEF IndInv, TypeOK, Ended
  <2> QED BY <2>1, <2>3 DEF LanesAreKept
<1> QED BY <1>1, <1>2, <1>3

LEMMA HandlersProgress ==
    ASSUME IndInv, ProgressInv, NEW p \in Pollers, NEW m \in Messages, HandlerStep(p, m)
    PROVE  ProgressInv'
<1>1. CASE HandlerOverruns(p, m)
  <2>1. SignalsAfter(p) /\ pc' = [pc EXCEPT ![p] = "failed"] /\ item' = [item EXCEPT ![p][m] = "overdue"]
    BY <1>1 DEF HandlerOverruns, SignalsAfter
  <2>2. LanesAreKept'
    BY <2>1 DEF ProgressInv, LanesAreKept, IndInv, TypeOK
  <2> QED BY <2>1, <2>2, SignalsKeep DEF ProgressInv, IndInv
<1>2. CASE ~HandlerOverruns(p, m)
  <2>1. UNCHANGED <<groupAborted, pc, aborted>>
    BY <1>2 DEF HandlerStep, StartHandler, HandlerSucceeds, HandlerThrows
  <2>2. PICK next \in Progress : /\ item' = [item EXCEPT ![p][m] = next]
                                 /\ next \in {"overdue", "late"} => item[p][m] = "overdue"
    BY <1>2 DEF HandlerStep, StartHandler, HandlerSucceeds, HandlerThrows, Progress, Occupying, IndInv, TypeOK
  <2>3. LanesAreKept'
    BY <2>1, <2>2 DEF ProgressInv, LanesAreKept, IndInv, TypeOK
  <2> QED BY <2>1, <2>3 DEF ProgressInv, SignalsArrive
<1> QED BY <1>1, <1>2

\* The remaining steps move no poller and withdraw no signal.
LEMMA OthersProgress ==
    ASSUME IndInv, ProgressInv,
           Settle \/ RequestShutdown \/ (\E m \in Messages : Expire(m)) \/ Done \/ UNCHANGED vars
    PROVE  ProgressInv'
<1>1. UNCHANGED <<pc, groupAborted, item>>
  BY DEF Settle, RequestShutdown, Expire, Done, vars
<1>2. \A p \in Pollers : aborted[p] => aborted'[p]
  <2>1. CASE RequestShutdown
    BY <2>1 DEF RequestShutdown
  <2>2. CASE UNCHANGED aborted
    BY <2>2
  <2> QED BY <2>1, <2>2 DEF Settle, Expire, Done, vars
<1> QED BY <1>1, <1>2 DEF ProgressInv, SignalsArrive, LanesAreKept

LEMMA ProgressInvHolds == Spec => [](IndInv /\ ProgressInv)
<1>1. Init => ProgressInv
  BY DEF Init, ProgressInv, SignalsArrive, LanesAreKept
<1>2. IndInv /\ ProgressInv /\ [Next]_vars => ProgressInv'
  <2>1. ASSUME IndInv, ProgressInv, NEW p \in Pollers, PollStep(p) PROVE ProgressInv'
    BY <2>1, PollStepSignals, PollStepLanes, SignalsKeep DEF ProgressInv, IndInv
  <2> QED BY <2>1, HandlersProgress, OthersProgress DEF Next
<1> QED BY <1>1, <1>2, IndInvHolds, PTL DEF Spec

\* A failed poller takes its siblings along wherever they are, and none counts
\* past the limit: nothing is left that could keep the promise from settling but
\* the steps already under way.
THEOREM FailuresReachSiblings == Spec => []FailureReachesSiblings
<1>1. IndInv /\ ProgressInv => FailureReachesSiblings
  <2> SUFFICES ASSUME IndInv, ProgressInv PROVE FailureReachesSiblings
    OBVIOUS
  <2>1. \A p \in Pollers : errors[p] = MaxErrors => pc[p] \in Ended
    BY WorkerConstants DEF IndInv, BelowLimit
  <2>2. (\E p \in Pollers : pc[p] = "failed") => ~LoopAgain /\ \A p \in Pollers : pc[p] = "receiving" => aborted[p]
    BY DEF ProgressInv, SignalsArrive, LoopAgain
  <2> QED BY <2>1, <2>2 DEF FailureReachesSiblings
<1> QED BY <1>1, ProgressInvHolds, PTL

\* Whatever handlers fail, a batch in progress can always go on.
THEOREM BatchesGoOn == Spec => []NoLaneIsLost
<1>1. IndInv /\ ProgressInv => NoLaneIsLost
  <2> SUFFICES ASSUME IndInv, ProgressInv, NEW p \in Pollers, pc[p] = "handling",
                      ~LanesDone(p), Holds(p, {"running"}) = {}
               PROVE  ~shutdown /\ Holds(p, {"queued"}) # {} /\ LaneFree(p)
    BY DEF NoLaneIsLost
  <2>1. Holds(p, Occupying) = {}
    BY DEF ProgressInv, LanesAreKept, Holds, Occupying
  <2>2. Cardinality(Holds(p, Occupying)) = 0
    BY <2>1, FS_EmptySet
  <2>3. LaneFree(p)
    BY <2>2, WorkerConstants DEF LaneFree
  <2> QED BY <2>1, <2>3 DEF LanesDone
<1> QED BY <1>1, ProgressInvHolds, PTL

-----------------------------------------------------------------------------
(* The pollers implement WorkerGroup.                                      *)

\* The signals say what became of the pollers: the group is aborted because one
\* failed, a poller stopped because of a shutdown request, and a receive is
\* aborted for one of the two reasons.
SignalsHaveCause ==
    /\ groupAborted => \E p \in Pollers : pc[p] = "failed"
    /\ \A p \in Pollers : pc[p] = "stopped" => shutdown
    /\ \A p \in Pollers : aborted[p] => shutdown \/ groupAborted

\* A step of a poller that goes elsewhere keeps the reasons.
LEMMA CausesKeep ==
    ASSUME TypeOK, SignalsHaveCause, NEW p \in Pollers, pc[p] # "failed", SignalsAfter(p),
           shutdown' = shutdown, pc'[p] = "stopped" => shutdown
    PROVE  SignalsHaveCause'
<1>1. CASE pc' = [pc EXCEPT ![p] = "failed"] /\ AbortGroup
  BY <1>1 DEF AbortGroup, SignalsHaveCause, TypeOK
<1>2. CASE /\ pc' = [pc EXCEPT ![p] = "receiving"]
           /\ groupAborted' = groupAborted /\ aborted' = [aborted EXCEPT ![p] = groupAborted]
  BY <1>2 DEF SignalsHaveCause, TypeOK
<1>3. ASSUME NEW to \in {"yielding", "handling", "acking", "backoff", "stopped"},
             pc' = [pc EXCEPT ![p] = to], groupAborted' = groupAborted, aborted' = aborted
      PROVE  SignalsHaveCause'
  BY <1>3 DEF SignalsHaveCause, TypeOK
<1> QED BY <1>1, <1>2, <1>3 DEF SignalsAfter

\* A poller stops only after a shutdown request.
LEMMA StopsOnRequest ==
    ASSUME TypeOK, NEW p \in Pollers, PollStep(p)
    PROVE  pc[p] \notin Ended /\ shutdown' = shutdown /\ (pc'[p] = "stopped" => shutdown)
<1>1. pc[p] \notin Ended /\ shutdown' = shutdown
  BY DEF PollStep, StartReceive, Receive, ReceiveBatch, ReceiveNothing, ReceiveAborted, ReceiveFails,
         BackoffEnds, BatchSettles, Acknowledge, AcknowledgeFails, DeleteBatch, Ended
<1>2. ASSUME ~shutdown PROVE pc'[p] # "stopped"
  <2>1. ASSUME EndPoller(p) \/ Continue(p) \/ BackOff(p) PROVE pc'[p] # "stopped"
    BY <1>2, <2>1 DEF EndPoller, Continue, BackOff, TypeOK
  <2>2. CASE StartReceive(p) \/ BatchSettles(p)
    BY <2>2 DEF StartReceive, BatchSettles, TypeOK
  <2>3. CASE Receive(p)
    BY <1>2, <2>3 DEF Receive, ReceiveBatch, TypeOK
  <2>4. CASE ReceiveNothing(p) \/ ReceiveAborted(p) \/ BackoffEnds(p)
    BY <2>1, <2>4 DEF ReceiveNothing, ReceiveAborted, BackoffEnds
  <2>5. CASE ReceiveFails(p) \/ Acknowledge(p) \/ AcknowledgeFails(p)
    BY <2>1, <2>5 DEF ReceiveFails, Acknowledge, AcknowledgeFails, DeleteBatch, Failure
  <2> QED BY <2>2, <2>3, <2>4, <2>5, <1>1 DEF PollStep
<1> QED BY <1>1, <1>2

LEMMA CausesStep == IndInv /\ SignalsHaveCause /\ [Next]_vars => SignalsHaveCause'
<1> SUFFICES ASSUME IndInv, SignalsHaveCause, [Next]_vars PROVE SignalsHaveCause'
  OBVIOUS
<1>1. ASSUME NEW p \in Pollers, PollStep(p) PROVE SignalsHaveCause'
  BY <1>1, PollStepSignals, StopsOnRequest, CausesKeep DEF IndInv, Ended
<1>2. ASSUME NEW p \in Pollers, NEW m \in Messages, HandlerOverruns(p, m) PROVE SignalsHaveCause'
  <2>1. SignalsAfter(p) /\ pc[p] = "handling" /\ pc'[p] = "failed" /\ shutdown' = shutdown
    BY <1>2 DEF HandlerOverruns, SignalsAfter, IndInv, TypeOK
  <2> QED BY <2>1, CausesKeep DEF IndInv
<1>3. CASE RequestShutdown
  BY <1>3 DEF RequestShutdown, SignalsHaveCause
<1>4. CASE UNCHANGED <<shutdown, groupAborted, pc, aborted>>
  BY <1>4 DEF SignalsHaveCause
<1> QED BY <1>1, <1>2, <1>3, <1>4 DEF Next, HandlerStep, StartHandler, HandlerSucceeds, HandlerThrows,
           Expire, Settle, Done, vars

\* What the refinement needs to know of a state.
GroupInv == IndInv /\ SignalsArrive /\ SignalsHaveCause

LEMMA GroupInvHolds == Spec => []GroupInv
<1>1. Init => SignalsHaveCause
  BY DEF Init, SignalsHaveCause
<1>2. IndInv /\ ProgressInv => SignalsArrive
  BY DEF ProgressInv
<1> QED BY <1>1, <1>2, CausesStep, ProgressInvHolds, PTL DEF Spec, GroupInv

LEMMA PlaceIs ==
    /\ Place("yielding") = "receiving" /\ Place("receiving") = "receiving"
    /\ Place("handling") = "handling" /\ Place("acking") = "handling"
    /\ Place("backoff") = "backoff"
    /\ Place("stopped") = "ended" /\ Place("failed") = "ended"
  BY DEF Place, Ended

\* One poller moves, in the words of the group.
LEMMA MoveIs ==
    ASSUME TypeOK, NEW p \in Pollers, NEW there, NEW mark, pc' = [pc EXCEPT ![p] = there], alive' = mark,
           UNCHANGED <<shutdown, outcome>>
    PROVE  Group!Move(p, Place(pc[p]), Place(there), mark)
<1>1. [q \in Pollers |-> Place(pc'[q])] = [[q \in Pollers |-> Place(pc[q])] EXCEPT ![p] = Place(there)]
  BY DEF TypeOK
<1>2. [w \in {"worker"} |-> alive'] =
         [[w \in {"worker"} |-> alive] EXCEPT ![[q \in Pollers |-> "worker"][p]] = mark]
  OBVIOUS
<1>3. [q \in Pollers |-> Place(pc[q])][p] = Place(pc[p])
  OBVIOUS
<1> QED BY <1>1, <1>2, <1>3 DEF Group!Move

LEMMA MarkIs == ASSUME NEW p \in Pollers PROVE Group!Mark(p) = alive
  BY DEF Group!Mark

\* The condition of the loop is the group's: the abort signal and the flag know
\* of every poller that ended.
LEMMA AgainIs ==
    ASSUME GroupInv, NEW p \in Pollers
    PROVE  Group!Again(p) = IF LoopAgain THEN "receiving" ELSE "ended"
<1>1. Group!PollersOf([q \in Pollers |-> "worker"][p]) = Pollers
  BY DEF Group!PollersOf
<1>2. \A q \in Pollers : Place(pc[q]) = "ended" <=> pc[q] \in Ended
  BY PlaceIs DEF GroupInv, IndInv, TypeOK, Ended
<1>3. (\E q \in Pollers : [r \in Pollers |-> Place(pc[r])][q] = "ended") <=> \E q \in Pollers : pc[q] \in Ended
  BY <1>2
<1>4. (shutdown \/ \E q \in Pollers : pc[q] \in Ended) <=> ~LoopAgain
  BY DEF GroupInv, SignalsArrive, SignalsHaveCause, LoopAgain, Ended
<1> QED BY <1>1, <1>3, <1>4 DEF Group!Again

\* The two ways out of an await.
LEMMA EndMoves ==
    ASSUME GroupInv, NEW p \in Pollers, EndPoller(p), NEW mark, alive' = mark, UNCHANGED <<shutdown, outcome>>
    PROVE  Group!Move(p, Place(pc[p]), "ended", mark)
<1>1. PICK to \in Ended : pc' = [pc EXCEPT ![p] = to]
  BY EndPollerLeaves DEF GroupInv, IndInv
<1>2. Place(to) = "ended"
  BY PlaceIs DEF Ended
<1> QED BY <1>1, <1>2, MoveIs DEF GroupInv, IndInv

LEMMA ContinueMoves ==
    ASSUME GroupInv, NEW p \in Pollers, Continue(p), NEW mark, alive' = mark, UNCHANGED <<shutdown, outcome>>
    PROVE  Group!Move(p, Place(pc[p]), Group!Again(p), mark)
<1>1. CASE LoopAgain
  <2>1. Group!Move(p, Place(pc[p]), "receiving", mark)
    BY <1>1, PlaceIs, MoveIs DEF Continue, GroupInv, IndInv
  <2> QED BY <1>1, <2>1, AgainIs
<1>2. CASE ~LoopAgain
  <2>1. Group!Move(p, Place(pc[p]), "ended", mark)
    BY <1>2, EndMoves DEF Continue
  <2> QED BY <1>2, <2>1, AgainIs
<1> QED BY <1>1, <1>2

\* The steps of a poller around its receive.
LEMMA ReceivesAreMoves ==
    ASSUME GroupInv, NEW p \in Pollers,
           Receive(p) \/ ReceiveNothing(p) \/ ReceiveAborted(p) \/ ReceiveFails(p)
    PROVE  Group!Answer(p) \/ Group!Fail(p) \/ Group!Abort(p) \/ Group!GiveUp(p)
<1>0. /\ pc[p] = "receiving" /\ Place(pc[p]) = "receiving"
      /\ UNCHANGED <<shutdown, outcome>> /\ Group!Mark(p) = alive
  BY MarkIs, PlaceIs DEF Receive, ReceiveBatch, ReceiveNothing, ReceiveAborted, ReceiveFails
<1>1. ASSUME shutdown \/ aborted[p], EndPoller(p), UNCHANGED alive PROVE Group!Abort(p)
  <2>1. Group!Again(p) = "ended"
    BY <1>1, AgainIs DEF GroupInv, SignalsHaveCause, LoopAgain
  <2> QED BY <1>0, <1>1, <2>1, EndMoves DEF Group!Abort
<1>2. CASE Receive(p)
  <2>1. PICK batch \in SUBSET Visible : ReceiveBatch(p, batch)
    BY <1>2 DEF Receive
  <2>2. CASE shutdown
    BY <1>1, <2>1, <2>2 DEF ReceiveBatch
  <2>3. CASE ~shutdown
    <3>1. Group!Move(p, "receiving", "handling", TRUE)
      <4>1. TypeOK /\ pc' = [pc EXCEPT ![p] = "handling"] /\ alive' = TRUE /\ Place("handling") = "handling"
        BY <2>1, <2>3, PlaceIs DEF ReceiveBatch, GroupInv, IndInv
      <4> QED BY <1>0, <4>1, MoveIs
    <3> QED BY <2>3, <3>1 DEF Group!Answer
  <2> QED BY <2>2, <2>3
<1>3. CASE ReceiveNothing(p)
  <2>2. CASE shutdown
    BY <1>1, <1>3, <2>2 DEF ReceiveNothing
  <2>3. CASE ~shutdown
    <3>1. Group!Move(p, "receiving", Group!Again(p), TRUE)
      BY <1>0, <1>3, <2>3, ContinueMoves DEF ReceiveNothing
    <3> QED BY <2>3, <3>1 DEF Group!Answer
  <2> QED BY <2>2, <2>3
<1>4. CASE ReceiveAborted(p)
  BY <1>1, <1>4 DEF ReceiveAborted
<1>5. CASE ReceiveFails(p)
  <2>1. CASE alive' = FALSE /\ EndPoller(p)
    BY <1>0, <2>1, EndMoves DEF Group!GiveUp
  <2>2. CASE UNCHANGED alive /\ BackOff(p)
    <3>1. Group!Move(p, "receiving", "backoff", alive)
      BY <1>0, <2>2, MoveIs, PlaceIs DEF BackOff, GroupInv, IndInv
    <3> QED BY <1>0, <3>1 DEF Group!Fail
  <2> QED BY <1>5, <2>1, <2>2 DEF ReceiveFails, Failure
<1> QED BY <1>2, <1>3, <1>4, <1>5

\* The end of a batch, and of a back-off.
LEMMA DeletesAreMoves ==
    ASSUME GroupInv, NEW p \in Pollers, NEW deleted, NEW confirmed, DeleteBatch(p, deleted, confirmed)
    PROVE  Group!Confirm(p) \/ Group!Fail(p) \/ Group!GiveUp(p)
<1>0. /\ Place(pc[p]) = "handling"
      /\ UNCHANGED <<shutdown, outcome>> /\ Group!Mark(p) = alive
  BY MarkIs, PlaceIs DEF DeleteBatch
<1>1. CASE alive' = TRUE /\ Continue(p)
  BY <1>0, <1>1, ContinueMoves DEF Group!Confirm
<1>2. CASE alive' = FALSE /\ EndPoller(p)
  BY <1>0, <1>2, EndMoves DEF Group!GiveUp
<1>3. CASE UNCHANGED alive /\ Continue(p)
  BY <1>0, <1>3, ContinueMoves DEF Group!Fail
<1> QED BY <1>1, <1>2, <1>3 DEF DeleteBatch, Failure

LEMMA BackoffEndsIsMove ==
    ASSUME GroupInv, NEW p \in Pollers, BackoffEnds(p)
    PROVE  Group!BackoffEnds(p)
<1>0. Place(pc[p]) = "backoff" /\ UNCHANGED <<shutdown, outcome, alive>> /\ Group!Mark(p) = alive /\ Continue(p)
  BY MarkIs, PlaceIs DEF BackoffEnds
<1> QED BY <1>0, ContinueMoves DEF Group!BackoffEnds

LEMMA OverrunIsGiveUp ==
    ASSUME GroupInv, NEW p \in Pollers, NEW m \in Messages, HandlerOverruns(p, m)
    PROVE  Group!GiveUp(p)
<1>0. /\ Place(pc[p]) = "handling" /\ pc' = [pc EXCEPT ![p] = "failed"] /\ Place("failed") = "ended"
      /\ UNCHANGED <<shutdown, outcome, alive>> /\ Group!Mark(p) = alive
  BY MarkIs, PlaceIs DEF HandlerOverruns
<1>1. Group!Move(p, "handling", "ended", alive)
  BY <1>0, MoveIs DEF GroupInv, IndInv
<1> QED BY <1>0, <1>1 DEF Group!GiveUp

LEMMA SettleIsSettle == ASSUME GroupInv, Settle PROVE Group!Settle("worker")
<1>1. outcome = "pending" /\ outcome' # "pending" /\ pc' = pc /\ alive' = FALSE /\ shutdown' = shutdown
  BY DEF Settle, MarkWorkerDead
<1>2. \A p \in Pollers : [q \in Pollers |-> Place(pc[q])][p] = "ended"
  BY PlaceIs DEF Settle, ReadyToSettle, Settled, Ended
<1> QED BY <1>1, <1>2 DEF Group!Settle, Group!PollersOf

\* Steps inside a receive or a batch are none of the group.
LEMMA InsideIsNothing ==
    ASSUME GroupInv, UNCHANGED <<shutdown, outcome, alive>>,
           \/ UNCHANGED pc
           \/ \E p \in Pollers : pc[p] = "yielding" /\ pc' = [pc EXCEPT ![p] = "receiving"]
           \/ \E p \in Pollers : pc[p] = "handling" /\ pc' = [pc EXCEPT ![p] = "acking"]
    PROVE  UNCHANGED Group!vars
<1>1. \A q \in Pollers : Place(pc'[q]) = Place(pc[q])
  BY PlaceIs DEF GroupInv, IndInv, TypeOK
<1>2. [q \in Pollers |-> Place(pc'[q])] = [q \in Pollers |-> Place(pc[q])]
  BY <1>1
<1> QED BY <1>2 DEF Group!vars

\* The pollers in full, with their lanes, error counts, abort signals and batches,
\* are the worker that Process supervises and whose registry entry it reads.
THEOREM WorkerImplementsGroup == Spec => ImplementsGroup
<1>1. Init => Group!Init
  <2> SUFFICES ASSUME Init PROVE Group!Init
    OBVIOUS
  <2>1. \A p \in Pollers : Place(pc[p]) = "receiving"
    BY PlaceIs DEF Init
  <2> QED BY <2>1 DEF Init, Group!Init
<1>2. GroupInv /\ [Next]_vars => [Group!Next]_(Group!vars)
  <2> SUFFICES ASSUME GroupInv, [Next]_vars PROVE Group!Next \/ UNCHANGED Group!vars
    OBVIOUS
  <2>1. ASSUME NEW p \in Pollers, PollStep(p) PROVE Group!Next \/ UNCHANGED Group!vars
    <3>1. CASE StartReceive(p) \/ BatchSettles(p)
      BY <3>1, InsideIsNothing DEF StartReceive, BatchSettles
    <3>2. CASE Receive(p) \/ ReceiveNothing(p) \/ ReceiveAborted(p) \/ ReceiveFails(p)
      BY <3>2, ReceivesAreMoves DEF Group!Next
    <3>3. CASE Acknowledge(p) \/ AcknowledgeFails(p)
      BY <3>3, DeletesAreMoves DEF Acknowledge, AcknowledgeFails, Group!Next
    <3>4. CASE BackoffEnds(p)
      BY <3>4, BackoffEndsIsMove DEF Group!Next
    <3> QED BY <2>1, <3>1, <3>2, <3>3, <3>4 DEF PollStep
  <2>2. ASSUME NEW p \in Pollers, NEW m \in Messages, HandlerOverruns(p, m) PROVE Group!Next
    BY <2>2, OverrunIsGiveUp DEF Group!Next
  <2>3. CASE Settle
    BY <2>3, SettleIsSettle DEF Group!Next
  <2>4. CASE RequestShutdown
    <3>1. Group!RequestShutdown
      BY <2>4 DEF RequestShutdown, Group!RequestShutdown
    <3> QED BY <3>1 DEF Group!Next
  <2>5. CASE UNCHANGED <<shutdown, outcome, alive, pc>>
    BY <2>5, InsideIsNothing
  <2> QED BY <2>1, <2>2, <2>3, <2>4, <2>5 DEF Next, HandlerStep, StartHandler, HandlerSucceeds, HandlerThrows,
             Expire, Done, vars
<1> QED BY <1>1, <1>2, GroupInvHolds, PTL DEF Spec, ImplementsGroup, Group!Spec

=============================================================================
