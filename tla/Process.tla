------------------------------ MODULE Process ------------------------------
(***************************************************************************)
(* The process: server.ts prepares the HTTP server, starts the background  *)
(* workers and hands their promises to the supervisor                      *)
(* (createWorkerSupervisor), while the pollers keep the registry and the   *)
(* health endpoints read it (WorkerHealth). A signal, an uncaught          *)
(* exception or a worker that stops by itself starts the one coordinated   *)
(* shutdown; the process exits when every worker has settled or the grace  *)
(* period is over.                                                         *)
(***************************************************************************)
EXTENDS WorkerHealth

CONSTANT Grace  \* SHUTDOWN_GRACE_MS

ASSUME GraceAssumption == Grace \in Nat

VARIABLES
    server,              \* "preparing", "listening", "closing" or "failed"
    worker,              \* each worker's promise
    shutdownInProgress,
    intendedExitCode,
    shutdownTimer,       \* when it was armed, or None
    shutdownRequested,   \* the supervisor's own flag
    fatalShutdown,
    exit,                \* the exit code of the process, None while it runs
    lostAt               \* history: when a worker first stopped before any shutdown

supervisor == <<shutdownRequested, fatalShutdown>>
shutdown == <<server, shutdownInProgress, intendedExitCode, shutdownTimer>>
processVars == <<shutdown, worker, supervisor, exit, lostAt>>
vars == <<healthVars, processVars>>

TypeOK ==
    /\ HealthTypeOK
    /\ server \in {"preparing", "listening", "closing", "failed"}
    /\ worker \in [Workers -> {"none", "running", "settled"}]
    /\ intendedExitCode \in {0, 1}
    /\ {shutdownInProgress, shutdownRequested, fatalShutdown} \subseteq BOOLEAN
    /\ {shutdownTimer, lostAt} \subseteq Time \cup {None}
    /\ exit \in {None, 0, 1}

Init ==
    /\ HealthInit
    /\ server = "preparing"
    /\ worker = [w \in Workers |-> "none"]
    /\ shutdownInProgress = FALSE
    /\ intendedExitCode = 0
    /\ shutdownTimer = None
    /\ shutdownRequested = FALSE
    /\ fatalShutdown = FALSE
    /\ exit = None
    /\ lostAt = None

Up == exit = None

-----------------------------------------------------------------------------
(* initiateShutdown: the first call decides, later ones return at once.    *)

\* Mutation: the timer that forces the exit is forgotten.
ArmGraceTimer_Forgotten == UNCHANGED shutdownTimer
ArmGraceTimer == shutdownTimer' = now

InitiateShutdown(code, serverNow) ==
    IF shutdownInProgress
    THEN /\ server' = serverNow
         /\ UNCHANGED <<shutdownInProgress, intendedExitCode, shutdownTimer, shutdownRequested,
                        draining, sampler>>
    ELSE /\ shutdownInProgress' = TRUE
         /\ intendedExitCode' = code
         /\ server' = IF serverNow = "listening" THEN "closing" ELSE serverNow
         /\ shutdownRequested' = TRUE
         /\ RequestShutdown
         /\ ArmGraceTimer

\* SIGTERM and SIGINT, or an uncaught exception.
Shutdown(code) ==
    /\ Up
    /\ InitiateShutdown(code, server)
    /\ UNCHANGED <<now, registry, at, since, history, faults, worker, fatalShutdown, exit, lostAt>>

Signal == Shutdown(0)
UncaughtException == Shutdown(1)

-----------------------------------------------------------------------------
(* Startup.                                                                *)

\* app.prepare resolves: the server listens and every worker is watched, also
\* when a signal came first.
Prepared ==
    /\ Up
    /\ server = "preparing"
    /\ server' = "listening"
    /\ worker' = [w \in Workers |-> "running"]
    /\ \E started \in SUBSET Workers : StartWorkers(started)
    /\ UNCHANGED <<shutdownInProgress, intendedExitCode, shutdownTimer,
                   supervisor, exit, lostAt>>

PrepareFails ==
    /\ Up
    /\ server = "preparing"
    /\ InitiateShutdown(1, "failed")
    /\ UNCHANGED <<now, registry, at, since, history, faults, worker, fatalShutdown, exit, lostAt>>

-----------------------------------------------------------------------------
(* The supervisor.                                                         *)

\* Mutation: the supervisor is not told of the signal.
IsUnexpected_IgnoresSignal == ~fatalShutdown
IsUnexpected == ~shutdownRequested /\ ~fatalShutdown

\* finishShutdown's exit code.
ExitCode(fatal, intended) == IF fatal \/ intended = 1 THEN 1 ELSE 0

\* settledWorkers has the size of expectedWorkers.
AllSettled(promises) == \A w \in Workers : promises[w] = "settled"

\* startWorker has returned or thrown, on its own account (also when
\* bootstrapWorker found no queue) or because of the shutdown, and the
\* supervisor settles its promise.
WorkerSettles(w) ==
    /\ Up
    /\ worker[w] = "running"
    /\ PollersEnded(w)
    /\ worker' = [worker EXCEPT ![w] = "settled"]
    /\ EndWorker(w)
    /\ IF IsUnexpected
       THEN /\ fatalShutdown' = TRUE
            /\ InitiateShutdown(1, server)
       ELSE /\ ClearSampling({w})
            /\ UNCHANGED <<supervisor, shutdown, draining>>
    /\ lostAt' = IF shutdownInProgress THEN lostAt ELSE now
    /\ exit' = IF AllSettled(worker') THEN ExitCode(fatalShutdown', intendedExitCode') ELSE exit
    /\ UNCHANGED <<now, at, since, history, faults>>

GraceExpires ==
    /\ Up
    /\ shutdownTimer # None
    /\ now >= shutdownTimer + Grace
    /\ exit' = 1
    /\ UNCHANGED <<healthVars, shutdown, worker, supervisor, lostAt>>

\* The timer is unref'ed: if preparation failed nothing may be left to keep
\* the event loop going, and Node.js ends the process with code 0.
NaturalExit ==
    /\ Up
    /\ server = "failed"
    /\ exit' = 0
    /\ UNCHANGED <<healthVars, shutdown, worker, supervisor, lostAt>>

Exited == ~Up /\ UNCHANGED vars

-----------------------------------------------------------------------------
(* The steps of WorkerHealth, and the clock.                               *)

Poll(p) == Up /\ PollerStep(p) /\ UNCHANGED processVars

Sample(w) ==
    /\ Up
    /\ SampleAnswers(w) \/ SampleFails(w)
    /\ UNCHANGED processVars

\* Nothing reads the clock while the server prepares.
Tick ==
    /\ Up
    /\ server # "preparing" \/ shutdownInProgress
    /\ shutdownTimer # None => now < shutdownTimer + Grace
    /\ TimePasses
    /\ UNCHANGED processVars

TimeIsUp == Up /\ now = MaxTime /\ UNCHANGED vars

Next ==
    \/ Signal \/ UncaughtException
    \/ Prepared \/ PrepareFails
    \/ \E w \in Workers : WorkerSettles(w) \/ Sample(w)
    \/ \E p \in Pollers : Poll(p)
    \/ GraceExpires \/ NaturalExit
    \/ Tick \/ TimeIsUp
    \/ Exited

Spec == Init /\ [][Next]_vars

-----------------------------------------------------------------------------
(* Properties.                                                             *)

\* The exit code tells the platform the truth: a process that served exits
\* with 0 exactly when a signal stopped it, every worker has drained and none
\* had stopped by itself ("A worker loop resolving is only normal after
\* graceful shutdown has been requested").
ExitCodeIsHonest ==
    (~Up /\ server # "failed") =>
        (exit = 0 <=> /\ intendedExitCode = 0
                      /\ lostAt = None
                      /\ \A w \in Workers : worker[w] = "settled")

\* A worker that stops by itself takes the process down with code 1 within
\* the grace period, even if a sibling never drains and signals keep arriving
\* ("this process must exit for CapRover to replace the container").
LostWorkerRestartsInTime ==
    lostAt # None => IF Up THEN now <= lostAt + Grace ELSE exit = 1

\* A batch is still in hand at its own deadline.
Overdue(p) == at[p] = "handling" /\ now >= since[p] + ProcessingDeadline[WorkerOf[p]]

\* The shared entry keeps the latest deadline only: an overdue batch is covered
\* by one a sibling was given later and whose deadline has not come, be that
\* batch over or not.
HiddenBySibling(p) ==
    LET w == WorkerOf[p] IN
    /\ PollersOf(w) # {p}
    /\ lastBatch[w] # None /\ since[p] < lastBatch[w]
    /\ now < lastBatch[w] + ProcessingDeadline[w]

\* "Ready" is never a leftover. All workers run; no poller keeps a batch past
\* its deadline, except beside a sibling that was given a later one less than a
\* deadline ago (so a worker with one poller answers 503 at the deadline, as
\* docs/CAPROVER_OPERATIONS.md says, and one with several when no sibling has
\* taken a batch for that long); and a worker without a batch had an answer
\* from SQS within the threshold.
ReadyIsJustified ==
    Up /\ Ready => \A w \in Workers :
        /\ worker[w] = "running"
        /\ \A p \in PollersOf(w) : Overdue(p) => HiddenBySibling(p)
        /\ Busy(w) \/ (lastAnswer[w] # None /\ now < lastAnswer[w] + WorkerStale)

\* No false alarm: while nothing fails, no batch reaches its deadline and no
\* sample is slow, a process that has come up is "ok" at every moment, however
\* polls, batches and samples interleave.
UndisturbedIsOk ==
    (/\ Up
     /\ faults = 0
     /\ ~draining
     /\ \A w \in Workers : registry[w] # None /\ registry[w].lastHeartbeat # None
                                              /\ registry[w].sampledAt # None)
    => Status = "ok"

\* The pollers of all workers, with startup, supervisor and shutdown around
\* them, do what WorkerGroup says of them: what SqsWorker does with the pollers
\* of one worker in full. Neither a late answer nor a sibling that failed lets
\* a poller go on that the group has ended, and the mark of life in the shared
\* entry moves only with the step that owns it.
Group == INSTANCE WorkerGroup WITH
    alive <- [w \in Workers |-> registry[w] # None /\ registry[w].alive],
    settled <- {w \in Workers : worker[w] = "settled"}

ImplementsGroups == Group!Spec

=============================================================================
