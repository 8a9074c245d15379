--------------------------- MODULE WorkerHealth ---------------------------
(***************************************************************************)
(* The worker registry, the sampler of queue depths, and the verdict of    *)
(* the health endpoints. The pollers of a worker share one registry entry; *)
(* what they do between two calls of the registry is in SqsWorker, here    *)
(* only how long it takes counts. Depths of the queues and ages of the     *)
(* messages are left out: the verdict compares them with thresholds and    *)
(* keeps nothing. Time passes in ticks of 30 seconds, the interval of the  *)
(* sampler (telemetryIntervalMs) and the unit of the other constants.      *)
(***************************************************************************)
EXTENDS Naturals, FiniteSets

CONSTANTS
    Workers,             \* EXPECTED_WORKER_NAMES
    Pollers,
    WorkerOf,            \* the worker of a poller
    WorkerStale,         \* workerStaleMs
    ReceiveDeadline,     \* receiveDeadlineMs: long poll and its transport grace
    MaxBackoff,          \* POLL_BACKOFF_MAX_MS
    ProcessingDeadline,  \* of each worker, from its visibility timeout
    TelemetryStale,      \* telemetryStaleMs
    None,
    MaxTime,             \* bound: the clock
    MaxFaults            \* bound: failures and delays

ASSUME HealthConstants ==
    /\ IsFiniteSet(Workers) /\ Workers # {}
    /\ IsFiniteSet(Pollers)
    /\ WorkerOf \in [Pollers -> Workers]
    /\ \A w \in Workers : \E p \in Pollers : WorkerOf[p] = w
    /\ ProcessingDeadline \in [Workers -> Nat \ {0}]
    /\ {WorkerStale, TelemetryStale} \subseteq Nat \ {0}
    /\ {ReceiveDeadline, MaxBackoff, MaxTime, MaxFaults} \subseteq Nat
    /\ None \notin Nat

\* The defaults leave room for a full long poll, and for a skipped sample.
ASSUME HealthDefaults ==
    /\ ReceiveDeadline < WorkerStale
    /\ 2 < TelemetryStale

VARIABLES
    now,
    registry,   \* the entry of each worker, None before registerWorker
    at,         \* where each poller is
    since,      \* when it came there, None if it does not run
    lastSample, \* telemetryLastSample; None: no interval in telemetryTimers
    sampling,   \* telemetryRequests: the workers whose sample is under way
    draining,   \* _shutdownRequested of the worker loops
    lastBatch,  \* history: when a busy worker was last handed a batch
    lastAnswer, \* history: when SQS last answered its receive or delete
    faults      \* history: what failed or was slow, as far as the bound goes

sampler == <<lastSample, sampling>>
history == <<lastBatch, lastAnswer>>
healthVars == <<now, registry, at, since, sampler, draining, history, faults>>

Time == 0..MaxTime
PollersOf(w) == {p \in Pollers : WorkerOf[p] = w}

Entry == [alive : BOOLEAN, lastHeartbeat : Time \cup {None}, processingCount : 0..Cardinality(Pollers),
          processingDeadlineAt : Nat \cup {None}, sampledAt : Time \cup {None}]

ASSUME NoneIsNoEntry == None \notin Entry

HealthTypeOK ==
    /\ now \in Time
    /\ registry \in [Workers -> Entry \cup {None}]
    /\ at \in [Pollers -> {"off", "receiving", "backoff", "handling", "ended"}]
    /\ since \in [Pollers -> Time \cup {None}]
    /\ lastSample \in [Workers -> Time \cup {None}]
    /\ sampling \subseteq Workers
    /\ draining \in BOOLEAN
    /\ lastBatch \in [Workers -> Time \cup {None}]
    /\ lastAnswer \in [Workers -> Time \cup {None}]
    /\ faults \in 0..MaxFaults

HealthInit ==
    /\ now = 0
    /\ registry = [w \in Workers |-> None]
    /\ at = [p \in Pollers |-> "off"]
    /\ since = [p \in Pollers |-> None]
    /\ lastSample = [w \in Workers |-> None]
    /\ sampling = {}
    /\ draining = FALSE
    /\ lastBatch = [w \in Workers |-> None]
    /\ lastAnswer = [w \in Workers |-> None]
    /\ faults = 0

-----------------------------------------------------------------------------
(* The registry: what its operations make of an entry.                     *)

\* registerWorker: fresh counters and timestamps.
Registered == [alive |-> FALSE, lastHeartbeat |-> None, processingCount |-> 0,
               processingDeadlineAt |-> None, sampledAt |-> None]

Heartbeat(entry) == [entry EXCEPT !.alive = TRUE, !.lastHeartbeat = now]

BeginWorkerProcessing(entry, deadline) ==
    [entry EXCEPT !.processingCount = @ + 1,
                  !.processingDeadlineAt = IF @ = None \/ @ < now + deadline
                                           THEN now + deadline ELSE @]

\* Only the last batch in hand clears the busy state. Mutation: each one does.
EndWorkerProcessing_Each(entry) ==
    [entry EXCEPT !.processingCount = 0, !.processingDeadlineAt = None]
EndWorkerProcessing(entry) ==
    IF entry.processingCount > 1
    THEN [entry EXCEPT !.processingCount = @ - 1]
    ELSE [entry EXCEPT !.processingCount = 0, !.processingDeadlineAt = None]

MarkWorkerDead(entry) == [entry EXCEPT !.alive = FALSE]
RecordQueueTelemetry(entry) == [entry EXCEPT !.sampledAt = now]

-----------------------------------------------------------------------------
(* getWorkerStatuses and buildHealthSnapshot.                              *)

Stale(entry) ==
    IF entry.processingCount > 0
    THEN now >= entry.processingDeadlineAt
    ELSE entry.lastHeartbeat = None \/ now - entry.lastHeartbeat >= WorkerStale

Ready == \A w \in Workers :
    registry[w] # None /\ registry[w].alive /\ ~Stale(registry[w])

Degraded == \E w \in Workers :
    \/ registry[w] = None
    \/ registry[w].sampledAt = None
    \/ now - registry[w].sampledAt >= TelemetryStale

Status == IF ~Ready THEN "unhealthy" ELSE IF Degraded THEN "degraded" ELSE "ok"

-----------------------------------------------------------------------------
(* Pollers.                                                                *)

Move(p, place) ==
    /\ at' = [at EXCEPT ![p] = place]
    /\ since' = [since EXCEPT ![p] = IF place = "ended" THEN None ELSE now]

Fault(n) == faults' = faults + n /\ faults' <= MaxFaults

Update(w, entry) == registry' = [registry EXCEPT ![w] = entry]

\* The group of a worker is aborted when one of its pollers has ended.
Aborted(w) == \E p \in PollersOf(w) : at[p] = "ended"

\* The head of the loop. Mutation: the group's signal is not tested.
Again_IgnoresGroup(p) == IF draining THEN "ended" ELSE "receiving"
Again(p) == IF draining \/ Aborted(WorkerOf[p]) THEN "ended" ELSE "receiving"

Busy(w) == \E p \in PollersOf(w) : at[p] = "handling"
BatchOver(w) == lastBatch' = [lastBatch EXCEPT ![w] = IF Busy(w)' THEN @ ELSE None]
Answered(w) == lastAnswer' = [lastAnswer EXCEPT ![w] = now]

EmptyPoll(p) ==
    LET w == WorkerOf[p] IN
    /\ at[p] = "receiving"
    /\ ~draining
    /\ Update(w, Heartbeat(registry[w]))
    /\ Move(p, Again(p))
    /\ Answered(w)
    /\ UNCHANGED <<now, sampler, draining, lastBatch, faults>>

\* Also a batch that arrives as the group is aborted.
TakeBatch(p) ==
    LET w == WorkerOf[p] IN
    /\ at[p] = "receiving"
    /\ ~draining
    /\ Update(w, BeginWorkerProcessing(Heartbeat(registry[w]), ProcessingDeadline[w]))
    /\ Move(p, "handling")
    /\ lastBatch' = [lastBatch EXCEPT ![w] = now]
    /\ Answered(w)
    /\ UNCHANGED <<now, sampler, draining, faults>>

\* A failed receive is no heartbeat, and the poller sleeps.
PollFails(p) ==
    /\ at[p] = "receiving"
    /\ Move(p, "backoff")
    /\ Fault(1)
    /\ UNCHANGED <<now, registry, sampler, draining, history>>

BackoffEnds(p) ==
    /\ at[p] = "backoff"
    /\ Move(p, Again(p))
    /\ UNCHANGED <<now, registry, sampler, draining, history, faults>>

\* Some message of the batch was handled and deleted. Mutation: only the
\* receipt of a batch counts as a sign of life.
BatchHeartbeat_None(entry) == entry
BatchHeartbeat(entry) == Heartbeat(entry)

BatchAcknowledged(p) ==
    LET w == WorkerOf[p] IN
    /\ at[p] = "handling"
    /\ Update(w, BatchHeartbeat(EndWorkerProcessing(registry[w])))
    /\ Move(p, Again(p))
    /\ Answered(w)
    /\ BatchOver(w)
    /\ UNCHANGED <<now, sampler, draining, faults>>

\* Nothing was acknowledged, or the pool threw and the poller sleeps.
BatchLost(p) ==
    /\ at[p] = "handling"
    /\ Update(WorkerOf[p], EndWorkerProcessing(registry[WorkerOf[p]]))
    /\ \E place \in {Again(p), "backoff"} : Move(p, place)
    /\ BatchOver(WorkerOf[p])
    /\ Fault(1)
    /\ UNCHANGED <<now, sampler, draining, lastAnswer>>

\* The receive under way is aborted, or answers too late to be used.
PollAborted(p) ==
    /\ at[p] = "receiving"
    /\ draining \/ Aborted(WorkerOf[p])
    /\ Move(p, "ended")
    /\ UNCHANGED <<now, registry, sampler, draining, history, faults>>

\* The poller fails: the circuit breaker, which marks the worker dead, or a
\* handler past its deadline.
PollerFails(p) ==
    LET w == WorkerOf[p] IN
    /\ \/ /\ at[p] = "receiving"
          /\ Update(w, MarkWorkerDead(registry[w]))
       \/ /\ at[p] = "handling"
          /\ \E entry \in {registry[w], MarkWorkerDead(registry[w])} :
                Update(w, EndWorkerProcessing(entry))
    /\ Move(p, "ended")
    /\ BatchOver(w)
    /\ Fault(1)
    /\ UNCHANGED <<now, sampler, draining, lastAnswer>>

PollerStep(p) ==
    \/ EmptyPoll(p) \/ TakeBatch(p) \/ PollFails(p) \/ BackoffEnds(p)
    \/ BatchAcknowledged(p) \/ BatchLost(p)
    \/ PollAborted(p) \/ PollerFails(p)

-----------------------------------------------------------------------------
(* The telemetry sampler of a worker.                                      *)

\* launchQueueTelemetrySample, run by the intervals: nothing if a request is
\* under way or the last one is too recent. An interval can fire a moment
\* before the wall clock shows it is over; it is not too recent twice.
IntervalsFire(time) ==
    LET intervals == {w \in Workers : lastSample[w] # None} \ sampling
        due == {w \in intervals : time - lastSample[w] > 1}
    IN  \E launched \in SUBSET intervals :
            /\ due \subseteq launched
            /\ sampling' = sampling \cup launched
            /\ lastSample' = [w \in Workers |-> IF w \in launched THEN time ELSE lastSample[w]]

SampleAnswers(w) ==
    /\ w \in sampling
    /\ sampling' = sampling \ {w}
    /\ Update(w, RecordQueueTelemetry(registry[w]))
    /\ UNCHANGED <<now, at, since, lastSample, draining, history, faults>>

\* Only the class of the error is kept.
SampleFails(w) ==
    /\ w \in sampling
    /\ sampling' = sampling \ {w}
    /\ Fault(1)
    /\ UNCHANGED <<now, registry, at, since, lastSample, draining, history>>

-----------------------------------------------------------------------------
(* Start and end of workers.                                               *)

\* startWorker of the given workers: the first sample leaves at once. A worker
\* without a queue or a client returns before it registers.
StartWorkers(started) ==
    /\ registry' = [w \in Workers |-> IF w \in started THEN Registered ELSE None]
    /\ at' = [p \in Pollers |-> IF WorkerOf[p] \notin started THEN "off"
                              ELSE IF draining THEN "ended" ELSE "receiving"]
    /\ since' = [p \in Pollers |-> IF at'[p] = "receiving" THEN now ELSE None]
    /\ lastSample' = [w \in Workers |-> IF w \in started THEN now ELSE None]
    /\ sampling' = started
    /\ UNCHANGED <<now, draining, history, faults>>

PollersEnded(w) == \A p \in PollersOf(w) : at[p] \in {"off", "ended"}

\* clearQueueTelemetrySampling of the given workers: a request under way goes
\* on, and its answer is recorded.
ClearSampling(cleared) ==
    /\ lastSample' = [w \in Workers |-> IF w \in cleared THEN None ELSE lastSample[w]]
    /\ UNCHANGED sampling

\* The last lines of startWorker.
EndWorker(w) ==
    registry' = [registry EXCEPT ![w] = IF @ = None THEN None ELSE MarkWorkerDead(@)]

\* requestShutdown; the polls under way are aborted by PollAborted.
RequestShutdown ==
    /\ draining' = TRUE
    /\ ClearSampling(Workers)

\* No deadline of a receive and no backoff is overdue.
TimersHaveFired ==
    \A p \in Pollers :
        /\ at[p] = "receiving" => now - since[p] < ReceiveDeadline
        /\ at[p] = "backoff" => now - since[p] < MaxBackoff

\* A tick during which a sample is under way, or that brings a batch to its
\* deadline, is one a healthy process does not see.
TimePasses ==
    LET late == {p \in Pollers : /\ at[p] = "handling"
                                 /\ now + 1 - since[p] = ProcessingDeadline[WorkerOf[p]]}
    IN  /\ now < MaxTime
        /\ TimersHaveFired
        /\ now' = now + 1
        /\ IntervalsFire(now + 1)
        /\ Fault(Cardinality(sampling) + Cardinality(late))
        /\ UNCHANGED <<registry, at, since, draining, history>>

=============================================================================
