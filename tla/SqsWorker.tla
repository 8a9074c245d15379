----------------------------- MODULE SqsWorker -----------------------------
(***************************************************************************)
(* startWorker: the pollers of one background worker, from the start of    *)
(* the loop to the settlement of the worker's promise. Every poller        *)
(* repeats ReceiveMessage, runs the handler on the batch with a bounded    *)
(* number of lanes, and deletes from SQS what the handlers finished. The   *)
(* pollers share the shutdown flag, the abort signal of their group and    *)
(* one entry of the worker registry, of which only the mark of life counts *)
(* here (the rest is in WorkerHealth).                                     *)
(*                                                                         *)
(* JavaScript runs one callback at a time: an action is what happens       *)
(* between two awaits.                                                     *)
(***************************************************************************)
EXTENDS Naturals, FiniteSets

CONSTANTS
    Pollers,          \* pollConcurrency ReceiveMessage loops
    Messages,         \* SQS messages
    BatchSize,        \* MaxNumberOfMessages of one receive
    Concurrency,      \* simultaneous handler calls of one poller
    HandlerDeadline,  \* whether handlerTimeoutMs is set
    MaxErrors,        \* MAX_CONSECUTIVE_ERRORS, 50 in the code
    MaxFaults         \* bound: failed polls, handlers and deletes

ASSUME WorkerConstants ==
    /\ IsFiniteSet(Pollers) /\ Pollers # {}
    /\ IsFiniteSet(Messages)
    /\ BatchSize \in Nat \ {0}
    /\ Concurrency \in Nat \ {0}
    /\ HandlerDeadline \in BOOLEAN
    /\ MaxErrors \in Nat \ {0}
    /\ MaxFaults \in Nat

VARIABLES
    shutdown,         \* _shutdownRequested
    groupAborted,     \* pollerGroup.signal.aborted
    outcome,          \* the promise startWorker returned
    pc,               \* where each poller is
    aborted,          \* the abort signal of each poller's open receive
    errors,           \* consecutiveErrors of each poller
    item,             \* progress of each message in each poller's batch
    msg,              \* the queue: visible, in flight or deleted
    alive,            \* registry: alive
    faults,           \* failures so far
    handled           \* history: messages some handler call finished

vars == <<shutdown, groupAborted, outcome, pc, aborted, errors, item, msg,
          alive, faults, handled>>

Ended == {"stopped", "failed"}

\* A lane of processWithConcurrency is taken by a running handler, and lost
\* for good to one that overran its deadline: the lane rejects, the handler
\* goes on behind the worker's back.
Occupying == {"running", "overdue", "late"}

TypeOK ==
    /\ shutdown \in BOOLEAN
    /\ groupAborted \in BOOLEAN
    /\ outcome \in {"pending", "resolved", "rejected"}
    /\ pc \in [Pollers -> {"yielding", "receiving", "handling", "acking", "backoff"} \cup Ended]
    /\ aborted \in [Pollers -> BOOLEAN]
    /\ errors \in [Pollers -> 0..MaxErrors]
    /\ item \in [Pollers -> [Messages -> {"none", "queued", "ok", "failed"} \cup Occupying]]
    /\ msg \in [Messages -> {"visible", "inflight", "deleted"}]
    /\ alive \in BOOLEAN
    /\ faults \in 0..MaxFaults
    /\ handled \subseteq Messages

Init ==
    /\ shutdown = FALSE
    /\ groupAborted = FALSE
    /\ outcome = "pending"
    /\ pc = [p \in Pollers |-> "yielding"]
    /\ aborted = [p \in Pollers |-> FALSE]
    /\ errors = [p \in Pollers |-> 0]
    /\ item = [p \in Pollers |-> [m \in Messages |-> "none"]]
    /\ msg = [m \in Messages |-> "visible"]
    /\ alive = FALSE
    /\ faults = 0
    /\ handled = {}

Fault == faults < MaxFaults /\ faults' = faults + 1
NoFault == UNCHANGED faults

Visible == {m \in Messages : msg[m] = "visible"}
Holds(p, states) == {m \in Messages : item[p][m] \in states}
Settled == \A p \in Pollers : pc[p] \in Ended

-----------------------------------------------------------------------------
(* Where a poller goes next.                                               *)

\* The first poller to fail aborts the group, and with it every open receive.
AbortGroup ==
    /\ groupAborted' = TRUE
    /\ aborted' = [q \in Pollers |-> aborted[q] \/ pc[q] = "receiving"]

\* runPoller returns: normal after a shutdown request, an error before it.
EndPoller(p) ==
    \/ /\ shutdown
       /\ pc' = [pc EXCEPT ![p] = "stopped"]
       /\ UNCHANGED <<groupAborted, aborted>>
    \/ /\ ~shutdown
       /\ pc' = [pc EXCEPT ![p] = "failed"]
       /\ AbortGroup

\* The condition of the poll loop. Mutation: the group's signal is not tested.
LoopAgain_IgnoresGroup == ~shutdown
LoopAgain == ~shutdown /\ ~groupAborted

Continue(p) ==
    \/ /\ LoopAgain
       /\ pc' = [pc EXCEPT ![p] = "yielding"]
       /\ UNCHANGED <<groupAborted, aborted>>
    \/ ~LoopAgain /\ EndPoller(p)

AtLimit(count) == count >= MaxErrors

\* consecutiveFailure: one more error; at the limit the worker is marked dead
\* and the poller returns, below it the poller goes on with "next".
Failure(p, next) ==
    /\ errors' = [errors EXCEPT ![p] = @ + 1]
    /\ \/ /\ AtLimit(errors[p] + 1)
          /\ alive' = FALSE
          /\ EndPoller(p)
       \/ /\ ~AtLimit(errors[p] + 1)
          /\ UNCHANGED alive
          /\ next

-----------------------------------------------------------------------------
(* ReceiveMessage.                                                         *)

\* receiveSqsMessages, after setImmediate: the controller is new, so only the
\* group's signal can abort it from the start.
StartReceive(p) ==
    /\ pc[p] = "yielding"
    /\ pc' = [pc EXCEPT ![p] = "receiving"]
    /\ aborted' = [aborted EXCEPT ![p] = groupAborted]
    /\ NoFault
    /\ UNCHANGED <<shutdown, groupAborted, outcome, errors, item, msg, alive, handled>>

\* A batch arrives: dropped if shutdown came first, else handed to the lanes.
ReceiveBatch(p, batch) ==
    /\ pc[p] = "receiving"
    /\ msg' = [m \in Messages |-> IF m \in batch THEN "inflight" ELSE msg[m]]
    /\ \/ /\ shutdown
          /\ EndPoller(p)
          /\ UNCHANGED <<item, alive>>
       \/ /\ ~shutdown
          /\ pc' = [pc EXCEPT ![p] = "handling"]
          /\ item' = [item EXCEPT ![p] =
                        [m \in Messages |-> IF m \in batch THEN "queued" ELSE "none"]]
          /\ alive' = TRUE
          /\ UNCHANGED <<groupAborted, aborted>>
    /\ NoFault
    /\ UNCHANGED <<shutdown, outcome, errors, handled>>

Receive(p) ==
    \E batch \in SUBSET Visible :
        /\ batch # {} /\ Cardinality(batch) <= BatchSize
        /\ ReceiveBatch(p, batch)

\* An empty long poll proves the loop alive and leaves the error count alone.
ReceiveNothing(p) ==
    /\ pc[p] = "receiving"
    /\ \/ shutdown /\ EndPoller(p) /\ UNCHANGED alive
       \/ ~shutdown /\ alive' = TRUE /\ Continue(p)
    /\ NoFault
    /\ UNCHANGED <<shutdown, outcome, errors, item, msg, handled>>

\* The abort reaches the client; SQS may have handed out a batch by then.
ReceiveAborted(p) ==
    /\ pc[p] = "receiving"
    /\ aborted[p]
    /\ \E gone \in SUBSET Visible :
          /\ Cardinality(gone) <= BatchSize
          /\ msg' = [m \in Messages |-> IF m \in gone THEN "inflight" ELSE msg[m]]
    /\ EndPoller(p)
    /\ NoFault
    /\ UNCHANGED <<shutdown, outcome, errors, item, alive, handled>>

BackOff(p) == pc' = [pc EXCEPT ![p] = "backoff"] /\ UNCHANGED <<groupAborted, aborted>>

\* The request fails or overruns receiveDeadlineMs.
ReceiveFails(p) ==
    /\ pc[p] = "receiving"
    /\ Fault
    /\ Failure(p, BackOff(p))
    /\ UNCHANGED <<shutdown, outcome, item, msg, handled>>

\* sleep(pollBackoffMs) ends; nothing can cut it short.
BackoffEnds(p) ==
    /\ pc[p] = "backoff"
    /\ Continue(p)
    /\ NoFault
    /\ UNCHANGED <<shutdown, outcome, errors, item, msg, alive, handled>>

-----------------------------------------------------------------------------
(* processWithConcurrency and the handlers.                                *)

\* Mutation: one lane too few.
LaneFree_OffByOne(p) == Cardinality(Holds(p, Occupying)) + 1 < Concurrency
LaneFree(p) == Cardinality(Holds(p, Occupying)) < Concurrency

\* A lane takes the next message of the batch. After another lane's deadline
\* error the poller is gone but the surviving lanes go on.
StartHandler(p, m) ==
    /\ item[p][m] = "queued"
    /\ ~shutdown
    /\ LaneFree(p)
    /\ item' = [item EXCEPT ![p][m] = "running"]
    /\ NoFault
    /\ UNCHANGED <<shutdown, groupAborted, outcome, pc, aborted, errors, msg,
                   alive, handled>>

HandlerSucceeds(p, m) ==
    /\ item[p][m] \in {"running", "overdue"}
    /\ item' = [item EXCEPT ![p][m] = IF @ = "running" THEN "ok" ELSE "late"]
    /\ handled' = handled \cup {m}
    /\ NoFault
    /\ UNCHANGED <<shutdown, groupAborted, outcome, pc, aborted, errors, msg, alive>>

HandlerThrows(p, m) ==
    /\ item[p][m] = "running"
    /\ Fault
    /\ item' = [item EXCEPT ![p][m] = "failed"]
    /\ UNCHANGED <<shutdown, groupAborted, outcome, pc, aborted, errors, msg,
                   alive, handled>>

\* HandlerTimeoutError: nothing of the batch is acknowledged and the poller
\* fails at once.
HandlerOverruns(p, m) ==
    /\ HandlerDeadline
    /\ pc[p] = "handling"
    /\ item[p][m] = "running"
    /\ Fault
    /\ item' = [item EXCEPT ![p][m] = "overdue"]
    /\ pc' = [pc EXCEPT ![p] = "failed"]
    /\ AbortGroup
    /\ UNCHANGED <<shutdown, outcome, errors, msg, alive, handled>>

\* Every lane is done: no handler runs and the rest of the batch is taken or,
\* after a shutdown request, left for SQS.
LanesDone(p) ==
    /\ Holds(p, Occupying) = {}
    /\ shutdown \/ Holds(p, {"queued"}) = {}

BatchSettles(p) ==
    /\ pc[p] = "handling"
    /\ LanesDone(p)
    /\ pc' = [pc EXCEPT ![p] = "acking"]
    /\ NoFault
    /\ UNCHANGED <<shutdown, groupAborted, outcome, aborted, errors, item, msg,
                   alive, handled>>

-----------------------------------------------------------------------------
(* deleteMessageBatch, and the circuit breaker.                            *)

\* Mutation: what failed is acknowledged with the rest.
Ackable_All(p) == Holds(p, {"ok", "failed"})
Ackable(p) == Holds(p, {"ok"})

\* SQS deletes some entries and confirms some of those.
DeleteBatch(p, deleted, confirmed) ==
    /\ pc[p] = "acking"
    /\ msg' = [m \in Messages |-> IF m \in deleted THEN "deleted" ELSE msg[m]]
    /\ \/ /\ confirmed # {}
          /\ errors' = [errors EXCEPT ![p] = 0]
          /\ alive' = TRUE
          /\ Continue(p)
       \/ confirmed = {} /\ Failure(p, Continue(p))
    /\ item' = [item EXCEPT ![p] = [m \in Messages |-> IF @[m] \in Occupying THEN @[m] ELSE "none"]]
    /\ UNCHANGED <<shutdown, outcome, handled>>

Acknowledge(p) == DeleteBatch(p, Ackable(p), Ackable(p)) /\ NoFault

\* Entries fail, or all answers are lost. SQS confirms only what it deleted.
AcknowledgeFails(p) ==
    /\ Ackable(p) # {}
    /\ \E confirmed \in SUBSET Ackable(p) : \E deleted \in SUBSET Ackable(p) :
          /\ confirmed \subseteq deleted /\ confirmed # Ackable(p)
          /\ DeleteBatch(p, deleted, confirmed)
    /\ Fault

-----------------------------------------------------------------------------
(* The worker as a whole, and its environment.                             *)

\* Promise.all, then allSettled after a failure.
ReadyToSettle == Settled

\* The markWorkerDead at the end. Mutation: the breaker's mark is trusted.
MarkWorkerDead_Once == UNCHANGED alive
MarkWorkerDead == alive' = FALSE

Settle ==
    /\ outcome = "pending"
    /\ ReadyToSettle
    /\ outcome' = IF \E p \in Pollers : pc[p] = "failed" THEN "rejected" ELSE "resolved"
    /\ MarkWorkerDead
    /\ NoFault
    /\ UNCHANGED <<shutdown, groupAborted, pc, aborted, errors, item, msg,
                   handled>>

\* requestShutdown aborts the receives that are open at that moment.
RequestShutdown ==
    /\ ~shutdown
    /\ shutdown' = TRUE
    /\ aborted' = [p \in Pollers |-> aborted[p] \/ pc[p] = "receiving"]
    /\ NoFault
    /\ UNCHANGED <<groupAborted, outcome, pc, errors, item, msg, alive, handled>>

Expire(m) ==
    /\ msg[m] = "inflight"
    /\ msg' = [msg EXCEPT ![m] = "visible"]
    /\ NoFault
    /\ UNCHANGED <<shutdown, groupAborted, outcome, pc, aborted, errors, item,
                   alive, handled>>

\* Nothing is left to do: the process is about to exit.
Done ==
    /\ outcome # "pending"
    /\ UNCHANGED vars

-----------------------------------------------------------------------------
PollStep(p) ==
    \/ StartReceive(p)
    \/ Receive(p) \/ ReceiveNothing(p) \/ ReceiveAborted(p) \/ ReceiveFails(p)
    \/ BackoffEnds(p) \/ BatchSettles(p)
    \/ Acknowledge(p) \/ AcknowledgeFails(p)

HandlerStep(p, m) ==
    \/ StartHandler(p, m)
    \/ HandlerSucceeds(p, m) \/ HandlerThrows(p, m) \/ HandlerOverruns(p, m)

Next ==
    \/ \E p \in Pollers : PollStep(p)
    \/ \E p \in Pollers, m \in Messages : HandlerStep(p, m)
    \/ \E m \in Messages : Expire(m)
    \/ Settle \/ RequestShutdown \/ Done

Spec == Init /\ [][Next]_vars

\* Receives answer or overrun their deadline, timers fire, handlers settle and
\* the event loop runs what is ready; SQS does not starve a message for ever.
\* No fairness on shutdown requests or faults.
Fairness ==
    /\ \A p \in Pollers : WF_vars(PollStep(p)) /\ WF_vars(\E m \in Messages : HandlerStep(p, m))
    /\ \A m \in Messages :
          /\ WF_vars(Expire(m))
          /\ SF_vars(\E p \in Pollers : \E batch \in SUBSET Visible :
                        m \in batch /\ Cardinality(batch) <= BatchSize /\ ReceiveBatch(p, batch))
    /\ WF_vars(Settle)

FairSpec == Spec /\ Fairness

-----------------------------------------------------------------------------
(* Properties.                                                             *)

\* Only work that finished leaves the queue: a deleted message has been
\* through a handler call that resolved, whichever pollers received it and
\* however often (processSqsMessages filters by the successful handlers).
DeletedWasHandled == \A m \in Messages : msg[m] = "deleted" => m \in handled

\* A settled worker is over. No sibling is still receiving, handling or deleting
\* when the supervisor is told (allSettled), and the registry reports it dead,
\* whatever heartbeat a sibling sent between the breaker's markWorkerDead and
\* the end (the final markWorkerDead). A promise that resolves hides no failed
\* poller and leaves no handler running.
SettledIsOver ==
    /\ outcome # "pending" => Settled /\ ~alive
    /\ outcome = "resolved" => \A p \in Pollers :
          pc[p] = "stopped" /\ Holds(p, {"running", "overdue"}) = {}

\* A poller that fails ends the worker, and siblings in any state follow: the
\* group signal ends loops that no shutdown request ends. A shutdown request
\* ends it too, and so does the breaker at its limit, not one error later.
WorkerSettles ==
    (\/ shutdown
     \/ \E p \in Pollers : pc[p] = "failed" \/ errors[p] = MaxErrors) ~> (outcome # "pending")

\* As long as the worker runs, a message left in the queue is delivered again
\* until it is deleted, whatever finite number of calls fail.
MessagesAreWorkedOff ==
    \A m \in Messages : (msg[m] # "deleted") ~> (msg[m] = "deleted" \/ outcome # "pending" \/ shutdown)

\* A poller's place as WorkerGroup has it: a receive that is about to open and
\* one that is open are the same to the registry, and so are handling a batch
\* and deleting it.
Place(place) ==
    CASE place \in {"yielding", "receiving"} -> "receiving"
      [] place \in {"handling", "acking"} -> "handling"
      [] place = "backoff" -> "backoff"
      [] place \in Ended -> "ended"

\* The pollers in full do what WorkerGroup says of them, and so what Process
\* has of them: whichever of their steps interleave, with the abort of the
\* group, the breaker and a shutdown request, the places and the mark of life
\* that the rest of the process sees move as there.
Group == INSTANCE WorkerGroup WITH
    Workers <- {"worker"},
    WorkerOf <- [p \in Pollers |-> "worker"],
    at <- [p \in Pollers |-> Place(pc[p])],
    draining <- shutdown,
    alive <- [w \in {"worker"} |-> alive],
    settled <- IF outcome = "pending" THEN {} ELSE {"worker"}

ImplementsGroup == Group!Spec

=============================================================================
