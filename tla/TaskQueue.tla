----------------------------- MODULE TaskQueue -----------------------------
(***************************************************************************)
(* The rate-limited queue a newsletter batch is sent through               *)
(* (lib/task-queue/queue.ts): an array with a head pointer, a pump that    *)
(* starts one task and then sleeps for the rate limit's delay, and a       *)
(* counter of running tasks. The pump is one async function guarded by     *)
(* isProcessing; enqueue and every task that settles call it again.        *)
(***************************************************************************)
EXTENDS Naturals, FiniteSets, Sequences

CONSTANTS
    Tasks,          \* functions given to enqueue
    Waiters,        \* callers of waitUntilFinished
    MaxConcurrent,  \* maxConcurrent
    CleanupAfter    \* how far head may run before the array is cut, 1000

ASSUME QueueConstants ==
    /\ IsFiniteSet(Tasks)
    /\ MaxConcurrent \in Nat \ {0}
    /\ CleanupAfter \in Nat

VARIABLES
    queue,         \* the array
    head,          \* the index of the next item, counted from 0
    runningCount,
    isProcessing,
    started,       \* startTime is not null
    settledCount,
    failedCount,
    waiter,        \* each caller of waitUntilFinished
    state,         \* history: what became of each task
    timers,        \* history: rate-limit delays that have not elapsed
    epoch,         \* history: tasks enqueued since startTime was set
    report         \* history: what each resolved caller was told

stats == <<started, settledCount, failedCount>>
vars == <<queue, head, runningCount, isProcessing, stats, waiter, state, timers, epoch, report>>

InState(s) == {t \in Tasks : state[t] = s}

TypeOK ==
    /\ queue \in Seq(Tasks)
    /\ head \in 0..Len(queue)
    /\ runningCount \in 0..MaxConcurrent
    /\ isProcessing \in BOOLEAN
    /\ started \in BOOLEAN
    /\ settledCount \in 0..Cardinality(Tasks)
    /\ failedCount \in 0..settledCount
    /\ waiter \in [Waiters -> {"idle", "waiting", "resolved"}]
    /\ state \in [Tasks -> {"fresh", "queued", "running", "ok", "failed", "dropped"}]
    /\ timers \in Nat
    /\ epoch \subseteq Tasks
    /\ report \in [Waiters -> [tasks: SUBSET Tasks, settled: Nat, failed: Nat]]

Init ==
    /\ queue = <<>>
    /\ head = 0
    /\ runningCount = 0
    /\ isProcessing = FALSE
    /\ started = FALSE
    /\ settledCount = 0
    /\ failedCount = 0
    /\ waiter = [w \in Waiters |-> "idle"]
    /\ state = [t \in Tasks |-> "fresh"]
    /\ timers = 0
    /\ epoch = {}
    /\ report = [w \in Waiters |-> [tasks |-> {}, settled |-> 0, failed |-> 0]]

-----------------------------------------------------------------------------
(* The pump. Its operators take the array, the pointer, the running count  *)
(* and the task states the calling step has already produced.              *)

Full(running) == running >= MaxConcurrent

\* One turn of the while loop: start the next task and sleep, or stop.
Turn(q, h, running, st, pendingTimers) ==
    \/ /\ h < Len(q) /\ ~Full(running)
       /\ queue' = q
       /\ head' = h + 1
       /\ runningCount' = running + 1
       /\ state' = [st EXCEPT ![q[h + 1]] = "running"]
       /\ isProcessing' = TRUE
       /\ timers' = pendingTimers + 1
    \/ /\ h >= Len(q) \/ Full(running)
       /\ queue' = q
       /\ head' = h
       /\ runningCount' = running
       /\ state' = st
       /\ isProcessing' = FALSE
       /\ timers' = pendingTimers

\* Mutation: process() is not guarded against a pump that sleeps.
Process_Unguarded(q, h, running, st) == Turn(q, h, running, st, timers)

\* process(): only one pump, which may be asleep between two turns.
Process(q, h, running, st) ==
    \/ /\ isProcessing
       /\ queue' = q
       /\ head' = h
       /\ runningCount' = running
       /\ state' = st
       /\ UNCHANGED <<isProcessing, timers>>
    \/ ~isProcessing /\ Turn(q, h, running, st, timers)

\* The delay is over: cut the array if the pointer ran far, take another turn.
\* Mutation: the pointer is kept when the array is cut.
Cleaned_KeepsHead(q, h) ==
    IF h > CleanupAfter THEN <<SubSeq(q, h + 1, Len(q)), h>> ELSE <<q, h>>
Cleaned(q, h) ==
    IF h > CleanupAfter THEN <<SubSeq(q, h + 1, Len(q)), 0>> ELSE <<q, h>>

DelayElapses ==
    /\ timers > 0
    /\ LET cut == Cleaned(queue, head) IN Turn(cut[1], cut[2], runningCount, state, timers - 1)
    /\ UNCHANGED <<stats, waiter, epoch, report>>

-----------------------------------------------------------------------------
(* The public operations.                                                  *)

\* enqueue: the first task after a finish starts a new round of statistics.
Enqueue(t) ==
    /\ state[t] = "fresh"
    /\ IF started
       THEN UNCHANGED stats /\ epoch' = epoch \cup {t}
       ELSE started' = TRUE /\ settledCount' = 0 /\ failedCount' = 0 /\ epoch' = {t}
    /\ Process(Append(queue, t), head, runningCount, [state EXCEPT ![t] = "queued"])
    /\ UNCHANGED <<waiter, report>>

\* triggerFinish: everybody who waits is told the statistics of this round.
TriggerFinish(settled, failed) ==
    IF started
    THEN /\ started' = FALSE
         /\ waiter' = [w \in Waiters |-> IF waiter[w] = "waiting" THEN "resolved" ELSE waiter[w]]
         /\ report' = [w \in Waiters |->
                         IF waiter[w] = "waiting"
                         THEN [tasks |-> epoch, settled |-> settled, failed |-> failed]
                         ELSE report[w]]
    ELSE UNCHANGED <<started, waiter, report>>

\* Mutation: the tasks still running are forgotten.
Finished_IgnoresRunning(q, h, running) == h >= Len(q)
Finished(q, h, running) == h >= Len(q) /\ running = 0

\* The finally of executeTask. Mutation: it leaves the pump alone.
AfterTask_NoProcess(running, st) ==
    /\ queue' = queue /\ head' = head /\ runningCount' = running /\ state' = st
    /\ UNCHANGED <<isProcessing, timers>>
AfterTask(running, st) == Process(queue, head, running, st)

ExecuteTaskEnds(t, result) ==
    /\ state[t] = "running"
    /\ settledCount' = settledCount + 1
    /\ failedCount' = failedCount + (IF result = "failed" THEN 1 ELSE 0)
    /\ LET st == [state EXCEPT ![t] = result] IN
       IF Finished(queue, head, runningCount - 1)
       THEN /\ TriggerFinish(settledCount', failedCount')
            /\ runningCount' = runningCount - 1
            /\ state' = st
            /\ UNCHANGED <<queue, head, isProcessing, timers>>
       ELSE /\ AfterTask(runningCount - 1, st)
            /\ UNCHANGED <<started, waiter, report>>
    /\ UNCHANGED epoch

WaitUntilFinished(w) ==
    /\ waiter[w] = "idle"
    /\ IF Finished(queue, head, runningCount)
       THEN /\ waiter' = [waiter EXCEPT ![w] = "resolved"]
            /\ report' = [report EXCEPT ![w] =
                            [tasks |-> epoch, settled |-> settledCount, failed |-> failedCount]]
       ELSE waiter' = [waiter EXCEPT ![w] = "waiting"] /\ UNCHANGED report
    /\ UNCHANGED <<queue, head, runningCount, isProcessing, stats, state, timers, epoch>>

\* clear: the promises of the dropped tasks never settle.
Clear ==
    /\ queue' = <<>>
    /\ head' = 0
    /\ state' = [t \in Tasks |-> IF state[t] = "queued" THEN "dropped" ELSE state[t]]
    /\ IF runningCount = 0
       THEN TriggerFinish(settledCount, failedCount)
       ELSE UNCHANGED <<started, waiter, report>>
    /\ UNCHANGED <<runningCount, isProcessing, settledCount, failedCount, timers, epoch>>

Next ==
    \/ \E t \in Tasks : Enqueue(t)
    \/ \E t \in Tasks, result \in {"ok", "failed"} : ExecuteTaskEnds(t, result)
    \/ DelayElapses
    \/ \E w \in Waiters : WaitUntilFinished(w)
    \/ Clear

Spec == Init /\ [][Next]_vars

\* Timers fire and the functions given to enqueue settle.
Fairness ==
    /\ WF_vars(DelayElapses)
    /\ \A t \in Tasks : WF_vars(\E result \in {"ok", "failed"} : ExecuteTaskEnds(t, result))

FairSpec == Spec /\ Fairness

-----------------------------------------------------------------------------
(* Properties.                                                             *)

\* Two tasks never start within one rate-limit delay of each other, although
\* enqueue, settling tasks and the timer all run the pump (isProcessing).
StartsAreSpaced == timers <= 1

\* A pump asleep and the flag that says so agree.
PumpIsOne == isProcessing <=> timers = 1

\* Whoever waited is told of every task of its round: all of them settled or
\* dropped, and the failures processBatch decides on are counted exactly.
ReportIsComplete ==
    \A w \in Waiters : waiter[w] = "resolved" =>
        LET r == report[w] IN
        /\ \A t \in r.tasks : state[t] \in {"ok", "failed", "dropped"}
        /\ r.settled = Cardinality({t \in r.tasks : state[t] \in {"ok", "failed"}})
        /\ r.failed = Cardinality({t \in r.tasks : state[t] = "failed"})

\* No wake-up is lost: a task that was accepted starts and settles, unless
\* clear drops it, and everybody who waits is released.
NoWakeUpIsLost ==
    /\ \A t \in Tasks :
          (state[t] = "queued") ~> (state[t] \in {"ok", "failed", "dropped"})
    /\ \A w \in Waiters : (waiter[w] = "waiting") ~> (waiter[w] = "resolved")

\* The queue does what the pool promises; the mapping reads the array from
\* head on, so cutting it must lose and repeat nothing.
Pool == INSTANCE TaskPool WITH
    fresh <- InState("fresh"),
    pending <- SubSeq(queue, head + 1, Len(queue)),
    active <- InState("running"),
    waiting <- {w \in Waiters : waiter[w] = "waiting"}

ImplementsPool == Pool!Spec

=============================================================================
