---------------------------- MODULE WorkerGroup ----------------------------
(***************************************************************************)
(* What a worker's pollers do as far as the rest of the process can tell:  *)
(* where each one is, and whether the worker counts as alive. SqsWorker    *)
(* has the pollers of one worker in full, without a clock; Process has     *)
(* those of all workers reduced to what the registry and the clock see.    *)
(* Both implement this module, which is what allows Process to leave the   *)
(* inside of a poller out.                                                 *)
(***************************************************************************)
CONSTANTS Workers, Pollers, WorkerOf

VARIABLES
    at,        \* where each poller is
    draining,  \* shutdown was requested
    alive,     \* each worker's mark in the registry
    settled    \* the workers whose promise has settled

vars == <<at, draining, alive, settled>>

PollersOf(w) == {p \in Pollers : WorkerOf[p] = w}

\* A poller runs from the start, or from Start on.
Init ==
    /\ at \in [Pollers -> {"off", "receiving"}]
    /\ draining = FALSE
    /\ alive = [w \in Workers |-> FALSE]
    /\ settled = {}

Start ==
    /\ \A p \in Pollers : at[p] = "off"
    /\ settled = {}
    /\ at' \in [Pollers -> {"off", IF draining THEN "ended" ELSE "receiving"}]
    /\ alive' = [w \in Workers |-> FALSE]
    /\ UNCHANGED <<draining, settled>>

RequestShutdown ==
    /\ draining' = TRUE
    /\ UNCHANGED <<at, alive, settled>>

\* The head of the loop: one poller that ended ends its siblings.
Again(p) ==
    IF draining \/ \E q \in PollersOf(WorkerOf[p]) : at[q] = "ended" THEN "ended" ELSE "receiving"

\* Poller p goes from one place to another, and the worker's mark becomes "mark".
Move(p, from, to, mark) ==
    /\ at[p] = from
    /\ at' = [at EXCEPT ![p] = to]
    /\ alive' = [alive EXCEPT ![WorkerOf[p]] = mark]
    /\ UNCHANGED <<draining, settled>>

Mark(p) == alive[WorkerOf[p]]

\* An answer of SQS in time is a sign of life, whatever a sibling that failed
\* said before; after a shutdown request none is taken.
Answer(p) ==
    /\ ~draining
    /\ Move(p, "receiving", Again(p), TRUE) \/ Move(p, "receiving", "handling", TRUE)

\* The receive fails, or the batch leaves nothing to confirm; the poller goes on.
Fail(p) ==
    \/ Move(p, "receiving", "backoff", Mark(p))
    \/ Move(p, "handling", Again(p), Mark(p))
    \/ Move(p, "handling", "backoff", Mark(p))

BackoffEnds(p) == Move(p, "backoff", Again(p), Mark(p))

Confirm(p) == Move(p, "handling", Again(p), TRUE)

\* A receive ends without an answer only after a shutdown request or when a
\* sibling has ended.
Abort(p) == Again(p) = "ended" /\ Move(p, "receiving", "ended", Mark(p))

\* The breaker marks the worker dead; a handler past its deadline does not.
GiveUp(p) ==
    \/ Move(p, "receiving", "ended", FALSE)
    \/ \E mark \in {Mark(p), FALSE} : Move(p, "handling", "ended", mark)

\* The worker's promise settles after its last poller, and last of all it is
\* marked dead. The supervisor may request the shutdown in the same step.
Settle(w) ==
    /\ w \notin settled
    /\ \A p \in PollersOf(w) : at[p] \in {"off", "ended"}
    /\ settled' = settled \cup {w}
    /\ alive' = [alive EXCEPT ![w] = FALSE]
    /\ draining' \in {draining, TRUE}
    /\ UNCHANGED at

Next ==
    \/ Start \/ RequestShutdown
    \/ \E p \in Pollers :
          Answer(p) \/ Fail(p) \/ BackoffEnds(p) \/ Confirm(p) \/ Abort(p) \/ GiveUp(p)
    \/ \E w \in Workers : Settle(w)

Spec == Init /\ [][Next]_vars

=============================================================================
