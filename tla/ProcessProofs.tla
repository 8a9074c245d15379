--------------------------- MODULE ProcessProofs ---------------------------
(***************************************************************************)
(* Proofs about Process and WorkerHealth, for any number of workers and    *)
(* pollers and any thresholds that leave room for a long poll and a        *)
(* skipped sample: the exit code is honest, a lost worker ends the process *)
(* within the grace period, "ready" is never a leftover, an undisturbed    *)
(* process never raises an alarm, and the pollers are a WorkerGroup.       *)
(***************************************************************************)
EXTENDS Process, FiniteSetTheorems, TLAPS

-----------------------------------------------------------------------------
(* The inductive invariant.                                                *)

\* The flags of the one shutdown go together: server.ts and the supervisor agree
\* that it was asked for, the loops have been told, and the timer is armed. It
\* is fatal exactly if a worker was lost, and then it began at that moment.
OneShutdown ==
    /\ shutdownRequested <=> shutdownInProgress
    /\ draining <=> shutdownInProgress
    /\ shutdownInProgress <=> shutdownTimer # None
    /\ fatalShutdown <=> lostAt # None
    /\ lostAt # None => shutdownTimer = lostAt /\ intendedExitCode = 1
    /\ Up /\ shutdownTimer # None => now <= shutdownTimer + Grace

\* Workers are watched from the moment the server listens, and the process is
\* gone as soon as the last of them has settled.
WatchedWhileServing ==
    /\ \A w \in Workers : worker[w] = "none" <=> server \in {"preparing", "failed"}
    /\ server \in {"preparing", "failed"} => lostAt = None
    /\ Up => ~AllSettled(worker)

Places == {"off", "receiving", "backoff", "handling", "ended"}

\* Pollers of a worker that have a batch in hand.
Handling(w) == {p \in PollersOf(w) : at[p] = "handling"}

\* Nothing runs, is sampled or has a history for a worker that is not registered.
Unregistered(w) ==
    /\ \A p \in PollersOf(w) : at[p] = "off"
    /\ lastSample[w] = None /\ w \notin sampling
    /\ lastBatch[w] = None /\ lastAnswer[w] = None

\* The shared entry counts the batches in hand, its deadline is that of the
\* latest of them, and its heartbeat is the last answer of SQS.
EntryIsRight(w) ==
    LET entry == registry[w] IN
    /\ worker[w] # "none"
    /\ \A p \in PollersOf(w) : at[p] # "off"
    /\ entry.processingCount = Cardinality(Handling(w))
    /\ entry.lastHeartbeat = lastAnswer[w]
    /\ IF Handling(w) = {}
       THEN entry.processingDeadlineAt = None /\ lastBatch[w] = None
       ELSE /\ lastBatch[w] # None
            /\ entry.processingDeadlineAt = lastBatch[w] + ProcessingDeadline[w]

\* A worker whose promise settled has no poller left and is marked dead.
SettledIsDead(w) ==
    worker[w] = "settled" => /\ PollersEnded(w)
                             /\ registry[w] # None => ~registry[w].alive

RegistryIsRight ==
    \A w \in Workers :
        /\ registry[w] = None => Unregistered(w)
        /\ registry[w] # None => EntryIsRight(w)
        /\ SettledIsDead(w)

\* Timestamps are in the past, and no receive is under way for longer than its
\* deadline.
ClocksAgree ==
    /\ \A w \in Workers :
          /\ lastBatch[w] # None => lastBatch[w] <= now
          /\ lastAnswer[w] # None => lastAnswer[w] <= now
    /\ \A p \in Pollers :
          /\ at[p] \in {"receiving", "backoff", "handling"} => since[p] # None /\ since[p] <= now
          /\ at[p] = "receiving" => now <= since[p] + ReceiveDeadline
          /\ at[p] = "handling" => since[p] <= lastBatch[WorkerOf[p]]

\* While nothing fails and nothing stops: the pollers of a registered worker
\* poll or handle; each has heard from SQS since its receive began, if any of
\* them has, and is within its deadline;
CalmPollers(w) ==
    /\ \A p \in PollersOf(w) :
          /\ at[p] \in {"receiving", "handling"}
          /\ at[p] = "receiving" => lastAnswer[w] = None \/ since[p] <= lastAnswer[w]
          /\ at[p] = "handling" => now < since[p] + ProcessingDeadline[w]
    /\ lastAnswer[w] # None => registry[w].alive

\* and a sample is answered in the tick it was launched in, at most two ticks
\* after the one before.
CalmSampler(w) ==
    LET sampledAt == registry[w].sampledAt IN
    /\ lastSample[w] # None
    /\ lastSample[w] <= now
    /\ w \in sampling => lastSample[w] = now /\ (sampledAt # None => now <= sampledAt + 2)
    /\ w \notin sampling => sampledAt = lastSample[w] /\ now <= sampledAt + 1

Calm ==
    (faults = 0 /\ ~draining) =>
        \A w \in Workers : registry[w] # None => CalmPollers(w) /\ CalmSampler(w)

IndInv ==
    /\ TypeOK
    /\ OneShutdown
    /\ WatchedWhileServing
    /\ RegistryIsRight
    /\ ClocksAgree
    /\ Calm

-----------------------------------------------------------------------------
(* Start.                                                                  *)

\* Numbers the proofs calculate with.
LEMMA ConstantTypes ==
    /\ Time \subseteq Nat /\ None \notin Nat /\ None \notin Time
    /\ WorkerStale \in Nat /\ TelemetryStale \in Nat /\ ReceiveDeadline \in Nat
    /\ MaxTime \in Nat /\ MaxFaults \in Nat /\ Grace \in Nat
    /\ \A w \in Workers : ProcessingDeadline[w] \in Nat /\ ProcessingDeadline[w] > 0
    /\ \A p \in Pollers : WorkerOf[p] \in Workers
BY HealthConstants, GraceAssumption DEF Time

\* A process that has not prepared satisfies the invariant.
LEMMA InitIndInv == Init => IndInv
<1> SUFFICES ASSUME Init PROVE IndInv
  OBVIOUS
<1>1. TypeOK
  <2>1. draining \in BOOLEAN /\ {shutdownInProgress, shutdownRequested, fatalShutdown} \subseteq BOOLEAN
    BY DEF Init, HealthInit
  <2>2. now \in Time /\ faults \in 0..MaxFaults
    BY ConstantTypes DEF Init, HealthInit, Time
  <2> QED BY <2>1, <2>2 DEF Init, HealthInit, TypeOK, HealthTypeOK
<1>2. OneShutdown
  BY DEF Init, HealthInit, OneShutdown
<1>3. WatchedWhileServing
  BY HealthConstants DEF Init, WatchedWhileServing, AllSettled
<1>4. RegistryIsRight
  BY DEF Init, HealthInit, RegistryIsRight, Unregistered, SettledIsDead, PollersOf
<1>5. ClocksAgree
  BY DEF Init, HealthInit, ClocksAgree
<1>6. Calm
  BY DEF Init, HealthInit, Calm
<1> QED BY <1>1, <1>2, <1>3, <1>4, <1>5, <1>6 DEF IndInv

-----------------------------------------------------------------------------
(* The supervisor and the shutdown.                                        *)

\* Steps of pollers and samplers, and the clock, leave the process alone.
LEMMA QuietSupervisor ==
    ASSUME IndInv, UNCHANGED processVars, UNCHANGED draining,
           now' \in Time, Up /\ shutdownTimer # None => now' <= shutdownTimer + Grace
    PROVE  OneShutdown' /\ WatchedWhileServing'
<1> USE DEF processVars, shutdown, supervisor
<1>1. OneShutdown'
  BY DEF IndInv, OneShutdown, Up
<1>2. WatchedWhileServing'
  BY DEF IndInv, WatchedWhileServing, Up, AllSettled
<1> QED BY <1>1, <1>2

\* The first call of initiateShutdown sets everything at once, later ones
\* nothing; a server that failed to prepare stays failed.
LEMMA InitiateShutdownEffect ==
    ASSUME IndInv, NEW code \in {0, 1}, NEW serverNow \in {"preparing", "listening", "closing", "failed"},
           InitiateShutdown(code, serverNow)
    PROVE  /\ shutdownInProgress' /\ shutdownRequested' /\ draining'
           /\ shutdownInProgress' \in BOOLEAN /\ shutdownRequested' \in BOOLEAN
           /\ draining' \in BOOLEAN
           /\ shutdownTimer' = IF shutdownInProgress THEN shutdownTimer ELSE now
           /\ intendedExitCode' = IF shutdownInProgress THEN intendedExitCode ELSE code
           /\ server' \in {"preparing", "listening", "closing", "failed"}
           /\ server' \in {"preparing", "failed"} <=> serverNow \in {"preparing", "failed"}
           /\ server' = "failed" <=> serverNow = "failed"
<1> USE DEF InitiateShutdown, RequestShutdown, ArmGraceTimer, IndInv
<1>1. CASE shutdownInProgress
  <2>1. shutdownInProgress' /\ shutdownRequested' /\ draining'
    BY <1>1 DEF OneShutdown
  <2>2. shutdownInProgress' \in BOOLEAN /\ shutdownRequested' \in BOOLEAN /\ draining' \in BOOLEAN
    BY <1>1 DEF TypeOK, HealthTypeOK
  <2> QED BY <2>1, <2>2, <1>1
<1>2. CASE ~shutdownInProgress
  BY <1>2
<1> QED BY <1>1, <1>2

\* A signal, an exception or a failed preparation keeps the shutdown coherent.
LEMMA ShutdownKeepsSupervisor ==
    ASSUME IndInv,
           \/ Signal \/ UncaughtException
           \/ PrepareFails
    PROVE  OneShutdown' /\ WatchedWhileServing'
<1>1. PICK code \in {0, 1}, serverNow \in {server, "failed"} :
         /\ Up /\ InitiateShutdown(code, serverNow)
         /\ serverNow # server => server = "preparing"
         /\ UNCHANGED <<now, worker, fatalShutdown, exit, lostAt>>
  BY DEF Signal, UncaughtException, Shutdown, PrepareFails
<1>2. serverNow \in {"preparing", "listening", "closing", "failed"}
  BY <1>1 DEF IndInv, TypeOK
<1>n. now \in Nat /\ Grace \in Nat
  BY ConstantTypes DEF IndInv, TypeOK, HealthTypeOK
<1>3. OneShutdown'
  <2>1. (shutdownRequested <=> shutdownInProgress)' /\ (draining <=> shutdownInProgress)'
    BY <1>1, <1>2, InitiateShutdownEffect
  <2>2. shutdownTimer' # None
    BY <1>1, <1>2, <1>n, ConstantTypes, InitiateShutdownEffect DEF IndInv, OneShutdown
  <2>3. (fatalShutdown <=> lostAt # None)'
    BY <1>1 DEF IndInv, OneShutdown
  <2>4. lostAt' # None => shutdownTimer' = lostAt' /\ intendedExitCode' = 1
    BY <1>1, <1>2, InitiateShutdownEffect DEF IndInv, OneShutdown
  <2>5. now' <= shutdownTimer' + Grace
    <3>1. CASE shutdownInProgress
      BY <3>1, <1>1, <1>2, InitiateShutdownEffect DEF IndInv, OneShutdown
    <3>2. CASE ~shutdownInProgress
      BY <3>2, <1>1, <1>2, <1>n, InitiateShutdownEffect
    <3> QED BY <3>1, <3>2
  <2> QED BY <2>1, <2>2, <2>3, <2>4, <2>5, <1>1, <1>2, InitiateShutdownEffect DEF OneShutdown
<1>4. WatchedWhileServing'
  BY <1>1, <1>2, InitiateShutdownEffect DEF IndInv, WatchedWhileServing, Up, AllSettled
<1> QED BY <1>3, <1>4

\* The server comes up: nobody has settled yet.
LEMMA PreparedKeepsSupervisor ==
    ASSUME IndInv, Prepared
    PROVE  OneShutdown' /\ WatchedWhileServing'
<1> USE DEF Prepared, StartWorkers, supervisor
<1>1. OneShutdown'
  BY DEF IndInv, OneShutdown, Up
<1>2. WatchedWhileServing'
  BY HealthConstants DEF IndInv, WatchedWhileServing, Up, AllSettled
<1> QED BY <1>1, <1>2

\* A worker that settles before any shutdown starts the fatal one at once; the
\* last one to settle ends the process.
LEMMA SettleKeepsSupervisor ==
    ASSUME IndInv, NEW w \in Workers, WorkerSettles(w)
    PROVE  OneShutdown' /\ WatchedWhileServing'
<1> USE DEF WorkerSettles
<1>u. IsUnexpected <=> ~shutdownInProgress
  BY DEF IsUnexpected, IndInv, OneShutdown
<1>n. now \in Nat /\ Grace \in Nat /\ now # None
  BY ConstantTypes DEF IndInv, TypeOK, HealthTypeOK
<1>s. server \in {"listening", "closing"} /\ worker[w] # "none"
  BY DEF IndInv, WatchedWhileServing, TypeOK
<1>e. Up' => ~AllSettled(worker')
  BY ConstantTypes DEF Up, ExitCode
<1>w. \A v \in Workers : worker'[v] = "none" <=> worker[v] = "none"
  BY <1>s DEF IndInv, TypeOK
<1>1. CASE shutdownInProgress
  <2>1. UNCHANGED <<server, shutdownInProgress, intendedExitCode, shutdownTimer, shutdownRequested,
                    fatalShutdown, draining, lostAt, now>>
    BY <1>1, <1>u DEF shutdown, supervisor
  <2>2. OneShutdown'
    BY <2>1 DEF IndInv, OneShutdown, Up
  <2>3. WatchedWhileServing'
    BY <2>1, <1>e, <1>w DEF IndInv, WatchedWhileServing, AllSettled
  <2> QED BY <2>2, <2>3
<1>2. CASE ~shutdownInProgress
  <2>1. InitiateShutdown(1, server) /\ fatalShutdown' = TRUE /\ lostAt' = now /\ UNCHANGED now
    BY <1>2, <1>u
  <2>2. /\ shutdownInProgress' /\ shutdownRequested' /\ draining'
        /\ shutdownTimer' = now /\ intendedExitCode' = 1
        /\ server' \notin {"preparing", "failed"}
    BY <2>1, <1>2, <1>s, InitiateShutdownEffect
  <2>3. OneShutdown'
    BY <2>1, <2>2, <1>n DEF OneShutdown
  <2>4. WatchedWhileServing'
    BY <2>2, <1>s, <1>e, <1>w DEF IndInv, WatchedWhileServing, AllSettled
  <2> QED BY <2>3, <2>4
<1> QED BY <1>1, <1>2

\* The other ends of the process.
LEMMA ExitKeepsSupervisor ==
    ASSUME IndInv, GraceExpires \/ NaturalExit \/ UNCHANGED vars
    PROVE  OneShutdown' /\ WatchedWhileServing'
<1>1. UNCHANGED <<now, draining, shutdown, worker, supervisor, lostAt>>
  BY DEF GraceExpires, NaturalExit, vars, healthVars, processVars
<1>2. Up' => Up
  BY ConstantTypes DEF GraceExpires, NaturalExit, vars, processVars, Up
<1>3. OneShutdown'
  BY <1>1, <1>2 DEF IndInv, OneShutdown, shutdown, supervisor
<1>4. WatchedWhileServing'
  BY <1>1, <1>2 DEF IndInv, WatchedWhileServing, AllSettled, shutdown, supervisor
<1> QED BY <1>3, <1>4

-----------------------------------------------------------------------------
(* Counting the batches in hand.                                           *)

\* The pollers of a worker that handle a batch are finitely many.
LEMMA HandlingIsFinite ==
    ASSUME NEW w \in Workers
    PROVE  /\ IsFiniteSet(Handling(w))
           /\ Cardinality(Handling(w)) \in 0..Cardinality(Pollers)
           /\ Cardinality(Handling(w)) = 0 <=> Handling(w) = {}
<1>1. Handling(w) \subseteq Pollers
  BY DEF Handling, PollersOf
<1>2. IsFiniteSet(Handling(w)) /\ Cardinality(Handling(w)) <= Cardinality(Pollers)
  BY <1>1, HealthConstants, FS_Subset
<1>3. Cardinality(Handling(w)) \in Nat /\ Cardinality(Pollers) \in Nat
  BY <1>2, HealthConstants, FS_CardinalityType
<1>4. Cardinality(Handling(w)) = 0 <=> Handling(w) = {}
  BY <1>2, FS_EmptySet
<1> QED BY <1>2, <1>3, <1>4

\* A poller that takes a batch is one more.
LEMMA OneMoreHandles ==
    ASSUME NEW w \in Workers, NEW p \in PollersOf(w), at \in [Pollers -> Places],
           at[p] # "handling", at' = [at EXCEPT ![p] = "handling"]
    PROVE  /\ Handling(w)' = Handling(w) \cup {p}
           /\ Cardinality(Handling(w)') = Cardinality(Handling(w)) + 1
           /\ Cardinality(Handling(w)) + 1 <= Cardinality(Pollers)
<1>1. Handling(w)' = Handling(w) \cup {p} /\ p \notin Handling(w)
  BY DEF Handling, PollersOf
<1>2. Cardinality(Handling(w) \cup {p}) = Cardinality(Handling(w)) + 1
  BY <1>1, HandlingIsFinite, FS_AddElement
<1>3. Handling(w) \cup {p} \subseteq Pollers
  BY DEF Handling, PollersOf
<1>4. Cardinality(Handling(w) \cup {p}) <= Cardinality(Pollers)
  BY <1>3, HealthConstants, FS_Subset
<1> QED BY <1>1, <1>2, <1>4

\* A poller that is done with its batch is one less.
LEMMA OneLessHandles ==
    ASSUME NEW w \in Workers, NEW p \in PollersOf(w), at \in [Pollers -> Places],
           at[p] = "handling", NEW to, to # "handling", at' = [at EXCEPT ![p] = to]
    PROVE  /\ Handling(w)' = Handling(w) \ {p}
           /\ Cardinality(Handling(w)) >= 1
           /\ Cardinality(Handling(w)') = Cardinality(Handling(w)) - 1
<1>1. Handling(w)' = Handling(w) \ {p} /\ p \in Handling(w)
  BY DEF Handling, PollersOf
<1>2. Cardinality(Handling(w) \ {p}) = Cardinality(Handling(w)) - 1
  BY <1>1, HandlingIsFinite, FS_RemoveElement
<1>3. Cardinality(Handling(w)) \in Nat /\ Cardinality(Handling(w)) # 0
  BY <1>1, HandlingIsFinite
<1> QED BY <1>1, <1>2, <1>3

\* Other steps of a poller, and those of other workers' pollers, do not count.
LEMMA SameHandle ==
    ASSUME NEW w \in Workers, NEW p \in Pollers, at \in [Pollers -> Places],
           NEW to, at' = [at EXCEPT ![p] = to],
           p \notin PollersOf(w) \/ (at[p] # "handling" /\ to # "handling")
    PROVE  Handling(w)' = Handling(w)
BY DEF Handling, PollersOf

-----------------------------------------------------------------------------
(* What a step of a poller does to the shared entry.                       *)

\* markHeartbeat changes the sign of life and its time, nothing else.
LEMMA HeartbeatFields ==
    ASSUME NEW entry \in Entry, now \in Time
    PROVE  /\ Heartbeat(entry) \in Entry
           /\ Heartbeat(entry).alive = TRUE
           /\ Heartbeat(entry).lastHeartbeat = now
           /\ Heartbeat(entry).processingCount = entry.processingCount
           /\ Heartbeat(entry).processingDeadlineAt = entry.processingDeadlineAt
           /\ Heartbeat(entry).sampledAt = entry.sampledAt
BY DEF Heartbeat, Entry

\* markWorkerDead changes the sign of life.
LEMMA DeadFields ==
    ASSUME NEW entry \in Entry
    PROVE  /\ MarkWorkerDead(entry) \in Entry
           /\ MarkWorkerDead(entry).alive = FALSE
           /\ MarkWorkerDead(entry).lastHeartbeat = entry.lastHeartbeat
           /\ MarkWorkerDead(entry).processingCount = entry.processingCount
           /\ MarkWorkerDead(entry).processingDeadlineAt = entry.processingDeadlineAt
           /\ MarkWorkerDead(entry).sampledAt = entry.sampledAt
BY DEF MarkWorkerDead, Entry

\* beginWorkerProcessing counts one more and moves the deadline forward only.
LEMMA BeginFields ==
    ASSUME NEW entry \in Entry, now \in Time, NEW deadline \in Nat,
           entry.processingCount + 1 <= Cardinality(Pollers)
    PROVE  LET begun == BeginWorkerProcessing(entry, deadline) IN
           /\ begun \in Entry
           /\ begun.alive = entry.alive
           /\ begun.lastHeartbeat = entry.lastHeartbeat
           /\ begun.processingCount = entry.processingCount + 1
           /\ begun.processingDeadlineAt =
                IF \/ entry.processingDeadlineAt = None
                   \/ entry.processingDeadlineAt < now + deadline
                THEN now + deadline ELSE entry.processingDeadlineAt
           /\ begun.sampledAt = entry.sampledAt
<1>1. Cardinality(Pollers) \in Nat
  BY HealthConstants, FS_CardinalityType
<1>2. PICK count \in 0..Cardinality(Pollers) : count = entry.processingCount
  BY DEF Entry
<1>3. PICK due \in Nat \cup {None} : due = entry.processingDeadlineAt
  BY DEF Entry
<1>4. PICK later \in Nat \cup {None} :
         later = IF due = None \/ due < now + deadline THEN now + deadline ELSE due
  BY ConstantTypes
<1>5. BeginWorkerProcessing(entry, deadline) =
         [entry EXCEPT !.processingCount = count + 1, !.processingDeadlineAt = later]
  BY <1>2, <1>3, <1>4 DEF BeginWorkerProcessing, Entry
<1>6. count + 1 \in 0..Cardinality(Pollers)
  BY <1>1, <1>2
<1> QED BY <1>2, <1>3, <1>4, <1>5, <1>6 DEF Entry

\* endWorkerProcessing counts one less; only the last one clears the deadline.
LEMMA EndFields ==
    ASSUME NEW entry \in Entry
    PROVE  LET ended == EndWorkerProcessing(entry) IN
           /\ ended \in Entry
           /\ ended.alive = entry.alive
           /\ ended.lastHeartbeat = entry.lastHeartbeat
           /\ ended.processingCount =
                IF entry.processingCount > 1 THEN entry.processingCount - 1 ELSE 0
           /\ ended.processingDeadlineAt =
                IF entry.processingCount > 1 THEN entry.processingDeadlineAt ELSE None
           /\ ended.sampledAt = entry.sampledAt
<1>1. Cardinality(Pollers) \in Nat
  BY HealthConstants, FS_CardinalityType
<1>2. PICK count \in 0..Cardinality(Pollers) : count = entry.processingCount
  BY DEF Entry
<1>3. CASE count > 1
  <2>1. EndWorkerProcessing(entry) = [entry EXCEPT !.processingCount = count - 1]
    BY <1>2, <1>3 DEF EndWorkerProcessing, Entry
  <2>2. count - 1 \in 0..Cardinality(Pollers)
    BY <1>1, <1>3
  <2> QED BY <1>2, <1>3, <2>1, <2>2 DEF Entry
<1>4. CASE ~(count > 1)
  <2>1. EndWorkerProcessing(entry) =
           [entry EXCEPT !.processingCount = 0, !.processingDeadlineAt = None]
    BY <1>2, <1>4 DEF EndWorkerProcessing
  <2>2. 0 \in 0..Cardinality(Pollers) /\ None \in Nat \cup {None}
    BY <1>1
  <2> QED BY <1>2, <1>4, <2>1, <2>2 DEF Entry
<1> QED BY <1>3, <1>4

\* recordQueueTelemetry stamps the sample.
LEMMA SampleFields ==
    ASSUME NEW entry \in Entry, now \in Time
    PROVE  /\ RecordQueueTelemetry(entry) \in Entry
           /\ RecordQueueTelemetry(entry).alive = entry.alive
           /\ RecordQueueTelemetry(entry).lastHeartbeat = entry.lastHeartbeat
           /\ RecordQueueTelemetry(entry).processingCount = entry.processingCount
           /\ RecordQueueTelemetry(entry).processingDeadlineAt = entry.processingDeadlineAt
           /\ RecordQueueTelemetry(entry).sampledAt = now
BY DEF RecordQueueTelemetry, Entry

-----------------------------------------------------------------------------
(* A poller's step, seen from the registry.                                *)

\* The batches in hand: one is taken, none is concerned, or one is given back.
TakesBatch(p, to, old, new) ==
    LET w == WorkerOf[p] IN
    /\ at[p] = "receiving" /\ to = "handling"
    /\ new.processingCount = old.processingCount + 1
    /\ new.processingDeadlineAt =
          IF old.processingDeadlineAt = None \/ old.processingDeadlineAt < now + ProcessingDeadline[w]
          THEN now + ProcessingDeadline[w] ELSE old.processingDeadlineAt
    /\ lastBatch' = [lastBatch EXCEPT ![w] = now]

KeepsBatches(p, to, old, new) ==
    /\ at[p] # "handling" /\ to # "handling"
    /\ new.processingCount = old.processingCount
    /\ new.processingDeadlineAt = old.processingDeadlineAt
    /\ UNCHANGED lastBatch \/ BatchOver(WorkerOf[p])

DropsBatch(p, to, old, new) ==
    /\ at[p] = "handling" /\ to # "handling"
    /\ new.processingCount = IF old.processingCount > 1 THEN old.processingCount - 1 ELSE 0
    /\ new.processingDeadlineAt = IF old.processingCount > 1 THEN old.processingDeadlineAt ELSE None
    /\ BatchOver(WorkerOf[p])

\* The sign of life: SQS answered, or it did not.
Hears(p, new) ==
    /\ new.alive = TRUE /\ new.lastHeartbeat = now
    /\ lastAnswer' = [lastAnswer EXCEPT ![WorkerOf[p]] = now]

HearsNothing(old, new) ==
    /\ new.alive = old.alive \/ new.alive = FALSE
    /\ new.lastHeartbeat = old.lastHeartbeat
    /\ UNCHANGED lastAnswer

Moves(p, to, new) ==
    /\ registry' = [registry EXCEPT ![WorkerOf[p]] = new]
    /\ at' = [at EXCEPT ![p] = to]
    /\ since' = [since EXCEPT ![p] = IF to = "ended" THEN None ELSE now]
    /\ UNCHANGED <<now, lastSample, sampling, draining>>

\* A poller that is at work belongs to a registered worker that has not settled.
LEMMA AtWorkIsRegistered ==
    ASSUME IndInv, NEW p \in Pollers, at[p] \notin {"off", "ended"}
    PROVE  /\ WorkerOf[p] \in Workers /\ p \in PollersOf(WorkerOf[p])
           /\ registry[WorkerOf[p]] \in Entry
           /\ registry[WorkerOf[p]] # None
           /\ worker[WorkerOf[p]] # "settled"
           /\ EntryIsRight(WorkerOf[p])
<1>1. WorkerOf[p] \in Workers /\ p \in PollersOf(WorkerOf[p])
  BY ConstantTypes DEF PollersOf
<1>2. registry[WorkerOf[p]] # None
  BY <1>1 DEF IndInv, RegistryIsRight, Unregistered
<1>3. registry[WorkerOf[p]] \in Entry
  BY <1>1, <1>2 DEF IndInv, TypeOK, HealthTypeOK
<1>4. worker[WorkerOf[p]] # "settled"
  BY <1>1 DEF IndInv, RegistryIsRight, SettledIsDead, PollersEnded
<1>5. EntryIsRight(WorkerOf[p])
  BY <1>1, <1>2 DEF IndInv, RegistryIsRight
<1> QED BY <1>1, <1>2, <1>3, <1>4, <1>5

\* Every step of a poller moves it and replaces the entry of its worker; what
\* it does to the batches and to the sign of life is one of the cases above.
\* Without a fault, a shutdown or a failed sibling it is a sign of life.
PollerEffect(p, to, new) ==
    LET old == registry[WorkerOf[p]] IN
    /\ at[p] \in {"receiving", "backoff", "handling"}
    /\ Moves(p, to, new)
    /\ new.sampledAt = old.sampledAt
    /\ TakesBatch(p, to, old, new) \/ KeepsBatches(p, to, old, new) \/ DropsBatch(p, to, old, new)
    /\ Hears(p, new) \/ HearsNothing(old, new)
    /\ faults' \in 0..MaxFaults /\ faults' >= faults
    /\ (faults' = 0 /\ ~draining /\ at[p] # "backoff" /\ ~Aborted(WorkerOf[p])) =>
          Hears(p, new) /\ to \in {"receiving", "handling"}

LEMMA PollerHasEffect ==
    ASSUME IndInv, NEW p \in Pollers, PollerStep(p)
    PROVE  \E to \in {"receiving", "backoff", "handling", "ended"} : \E new \in Entry :
              PollerEffect(p, to, new)
<1> DEFINE w == WorkerOf[p]
           old == registry[w]
           again == Again(p)
<1>p. at[p] \in {"receiving", "backoff", "handling"}
  BY DEF PollerStep, EmptyPoll, TakeBatch, PollFails, BackoffEnds, BatchAcknowledged, BatchLost,
         PollAborted, PollerFails
<1>r. w \in Workers /\ p \in PollersOf(w) /\ old \in Entry /\ old # None
  BY <1>p, AtWorkIsRegistered
<1>t. now \in Time /\ faults \in Nat /\ faults \in 0..MaxFaults /\ MaxFaults \in Nat
  BY ConstantTypes DEF IndInv, TypeOK, HealthTypeOK
<1>f. ASSUME Fault(1) PROVE faults' \in 0..MaxFaults /\ faults' >= faults /\ faults' # 0
  BY <1>f, <1>t DEF Fault
<1>s. ASSUME UNCHANGED faults PROVE faults' \in 0..MaxFaults /\ faults' >= faults
  BY <1>s, <1>t
<1>u. ASSUME UNCHANGED registry PROVE registry' = [registry EXCEPT ![w] = old]
  BY <1>u, <1>r DEF IndInv, TypeOK, HealthTypeOK
<1>a. again \in {"receiving", "ended"} /\ (~draining /\ ~Aborted(w) => again = "receiving")
  BY DEF Again
<1>c. PICK count \in Nat : count = old.processingCount
  <2>1. Cardinality(Pollers) \in Nat
    BY HealthConstants, FS_CardinalityType
  <2> QED BY <1>r, <2>1 DEF Entry
<1> USE DEF PollerEffect, Moves, Move, Update, sampler, history
<1>1. CASE EmptyPoll(p)
  <2>1. PICK new \in Entry : new = Heartbeat(old)
    BY <1>r, <1>t, HeartbeatFields
  <2>2. /\ new.alive = TRUE /\ new.lastHeartbeat = now
        /\ new.processingCount = old.processingCount
        /\ new.processingDeadlineAt = old.processingDeadlineAt
        /\ new.sampledAt = old.sampledAt
    BY <2>1, <1>r, <1>t, HeartbeatFields
  <2>3. Moves(p, again, new) /\ at[p] = "receiving" /\ UNCHANGED <<lastBatch, faults>>
    BY <1>1, <2>1 DEF EmptyPoll
  <2>4. KeepsBatches(p, again, old, new)
    BY <2>2, <2>3, <1>a DEF KeepsBatches
  <2>5. Hears(p, new)
    BY <1>1, <2>2 DEF EmptyPoll, Hears, Answered
  <2> QED BY <2>2, <2>3, <2>4, <2>5, <1>a, <1>s, <1>p
<1>2. CASE TakeBatch(p)
  <2>0. at[p] = "receiving" /\ at' = [at EXCEPT ![p] = "handling"]
    BY <1>2 DEF TakeBatch
  <2>c. old.processingCount + 1 <= Cardinality(Pollers)
    <3>1. at \in [Pollers -> Places] /\ at[p] # "handling"
      BY <2>0 DEF IndInv, TypeOK, HealthTypeOK, Places
    <3>2. old.processingCount = Cardinality(Handling(w))
      BY <1>p, AtWorkIsRegistered DEF EntryIsRight
    <3> QED BY <3>1, <3>2, <2>0, <1>r, OneMoreHandles
  <2>1. PICK beat \in Entry : beat = Heartbeat(old)
    BY <1>r, <1>t, HeartbeatFields
  <2>2. /\ beat.alive = TRUE /\ beat.lastHeartbeat = now
        /\ beat.processingCount = old.processingCount
        /\ beat.processingDeadlineAt = old.processingDeadlineAt
        /\ beat.sampledAt = old.sampledAt
    BY <2>1, <1>r, <1>t, HeartbeatFields
  <2>d. PICK deadline \in Nat : deadline = ProcessingDeadline[w]
    BY <1>r, ConstantTypes
  <2>3. PICK new \in Entry : new = BeginWorkerProcessing(beat, deadline)
    BY <2>c, <2>2, <1>t, BeginFields
  <2>4. /\ new.alive = TRUE /\ new.lastHeartbeat = now
        /\ new.processingCount = old.processingCount + 1
        /\ new.processingDeadlineAt =
              IF old.processingDeadlineAt = None \/ old.processingDeadlineAt < now + deadline
              THEN now + deadline ELSE old.processingDeadlineAt
        /\ new.sampledAt = old.sampledAt
    BY <2>c, <2>2, <2>3, <1>t, BeginFields
  <2>5. Moves(p, "handling", new) /\ UNCHANGED faults
    BY <1>2, <2>1, <2>3, <2>d DEF TakeBatch
  <2>6. TakesBatch(p, "handling", old, new)
    BY <1>2, <2>0, <2>4, <2>d DEF TakeBatch, TakesBatch
  <2>7. Hears(p, new)
    BY <1>2, <2>4 DEF TakeBatch, Hears, Answered
  <2> QED BY <2>4, <2>5, <2>6, <2>7, <1>s, <1>p
<1>3. CASE PollFails(p)
  <2>1. Moves(p, "backoff", old) /\ at[p] = "receiving" /\ UNCHANGED <<lastBatch, lastAnswer>>
    BY <1>3, <1>u DEF PollFails
  <2>2. KeepsBatches(p, "backoff", old, old) /\ HearsNothing(old, old)
    BY <2>1 DEF KeepsBatches, HearsNothing
  <2>3. Fault(1)
    BY <1>3 DEF PollFails
  <2> QED BY <2>1, <2>2, <2>3, <1>f, <1>r, <1>p
<1>4. CASE BackoffEnds(p)
  <2>1. Moves(p, again, old) /\ at[p] = "backoff" /\ UNCHANGED <<lastBatch, lastAnswer, faults>>
    BY <1>4, <1>u DEF BackoffEnds
  <2>2. KeepsBatches(p, again, old, old) /\ HearsNothing(old, old)
    BY <2>1, <1>a DEF KeepsBatches, HearsNothing
  <2> QED BY <2>1, <2>2, <1>s, <1>r, <1>p, <1>a
<1>5. CASE BatchAcknowledged(p)
  <2>1. PICK over \in Entry : over = EndWorkerProcessing(old)
    BY <1>r, EndFields
  <2>2. /\ over.processingCount = IF old.processingCount > 1 THEN old.processingCount - 1 ELSE 0
        /\ over.processingDeadlineAt =
              IF old.processingCount > 1 THEN old.processingDeadlineAt ELSE None
        /\ over.sampledAt = old.sampledAt
    BY <2>1, <1>r, EndFields
  <2>3. PICK new \in Entry : new = Heartbeat(over)
    BY <1>t, HeartbeatFields
  <2>4. /\ new.alive = TRUE /\ new.lastHeartbeat = now
        /\ new.processingCount = over.processingCount
        /\ new.processingDeadlineAt = over.processingDeadlineAt
        /\ new.sampledAt = over.sampledAt
    BY <2>3, <1>t, HeartbeatFields
  <2>5. Moves(p, again, new) /\ at[p] = "handling" /\ UNCHANGED faults /\ BatchOver(w)
    BY <1>5, <2>1, <2>3 DEF BatchAcknowledged, BatchHeartbeat
  <2>6. DropsBatch(p, again, old, new)
    BY <2>2, <2>4, <2>5, <1>a DEF DropsBatch
  <2>7. Hears(p, new)
    BY <1>5, <2>4 DEF BatchAcknowledged, Hears, Answered
  <2> QED BY <2>2, <2>4, <2>5, <2>6, <2>7, <1>a, <1>s, <1>p
<1>6. CASE BatchLost(p)
  <2>1. PICK new \in Entry : new = EndWorkerProcessing(old)
    BY <1>r, EndFields
  <2>2. /\ new.alive = old.alive /\ new.lastHeartbeat = old.lastHeartbeat
        /\ new.processingCount = IF old.processingCount > 1 THEN old.processingCount - 1 ELSE 0
        /\ new.processingDeadlineAt =
              IF old.processingCount > 1 THEN old.processingDeadlineAt ELSE None
        /\ new.sampledAt = old.sampledAt
    BY <2>1, <1>r, EndFields
  <2>3. PICK to \in {again, "backoff"} : Moves(p, to, new)
    BY <1>6, <2>1 DEF BatchLost
  <2>4. at[p] = "handling" /\ BatchOver(w) /\ Fault(1) /\ UNCHANGED lastAnswer
    BY <1>6 DEF BatchLost
  <2>5. DropsBatch(p, to, old, new) /\ HearsNothing(old, new)
    BY <2>2, <2>3, <2>4, <1>a DEF DropsBatch, HearsNothing
  <2>6. to \in {"receiving", "backoff", "handling", "ended"}
    BY <2>3, <1>a
  <2> QED BY <2>2, <2>3, <2>4, <2>5, <2>6, <1>f, <1>p
<1>7. CASE PollAborted(p)
  <2>1. Moves(p, "ended", old) /\ at[p] = "receiving" /\ UNCHANGED <<lastBatch, lastAnswer, faults>>
    BY <1>7, <1>u DEF PollAborted
  <2>2. KeepsBatches(p, "ended", old, old) /\ HearsNothing(old, old)
    BY <2>1 DEF KeepsBatches, HearsNothing
  <2>3. draining \/ Aborted(w)
    BY <1>7 DEF PollAborted
  <2> QED BY <2>1, <2>2, <2>3, <1>s, <1>r, <1>p
<1>8. CASE PollerFails(p)
  <2>f. Fault(1) /\ BatchOver(w) /\ UNCHANGED lastAnswer
    BY <1>8 DEF PollerFails
  <2>1. CASE at[p] = "receiving" /\ Update(w, MarkWorkerDead(old))
    <3>1. PICK new \in Entry : new = MarkWorkerDead(old)
      BY <1>r, DeadFields
    <3>2. /\ new.alive = FALSE /\ new.lastHeartbeat = old.lastHeartbeat
          /\ new.processingCount = old.processingCount
          /\ new.processingDeadlineAt = old.processingDeadlineAt
          /\ new.sampledAt = old.sampledAt
      BY <3>1, <1>r, DeadFields
    <3>3. Moves(p, "ended", new)
      BY <1>8, <2>1, <3>1 DEF PollerFails
    <3>4. KeepsBatches(p, "ended", old, new) /\ HearsNothing(old, new)
      BY <2>1, <2>f, <3>2 DEF KeepsBatches, HearsNothing
    <3> QED BY <3>2, <3>3, <3>4, <2>f, <1>f, <1>p
  <2>2. CASE /\ at[p] = "handling"
             /\ \E entry \in {old, MarkWorkerDead(old)} : Update(w, EndWorkerProcessing(entry))
    <3>1. PICK entry \in {old, MarkWorkerDead(old)} : Update(w, EndWorkerProcessing(entry))
      BY <2>2
    <3>2. /\ entry \in Entry
          /\ entry.alive = old.alive \/ entry.alive = FALSE
          /\ entry.lastHeartbeat = old.lastHeartbeat
          /\ entry.processingCount = old.processingCount
          /\ entry.processingDeadlineAt = old.processingDeadlineAt
          /\ entry.sampledAt = old.sampledAt
      BY <3>1, <1>r, DeadFields
    <3>3. PICK new \in Entry : new = EndWorkerProcessing(entry)
      BY <3>2, EndFields
    <3>4. /\ new.alive = entry.alive /\ new.lastHeartbeat = entry.lastHeartbeat
          /\ new.processingCount =
                IF entry.processingCount > 1 THEN entry.processingCount - 1 ELSE 0
          /\ new.processingDeadlineAt =
                IF entry.processingCount > 1 THEN entry.processingDeadlineAt ELSE None
          /\ new.sampledAt = entry.sampledAt
      BY <3>2, <3>3, EndFields
    <3>5. Moves(p, "ended", new)
      BY <1>8, <3>1, <3>3 DEF PollerFails
    <3>6. DropsBatch(p, "ended", old, new) /\ HearsNothing(old, new)
      BY <2>2, <2>f, <3>2, <3>4 DEF DropsBatch, HearsNothing
    <3> QED BY <3>2, <3>4, <3>5, <3>6, <2>f, <1>f, <1>p
  <2> QED BY <1>8, <2>1, <2>2 DEF PollerFails
<1> QED BY <1>1, <1>2, <1>3, <1>4, <1>5, <1>6, <1>7, <1>8 DEF PollerStep

-----------------------------------------------------------------------------
(* A poller's step keeps the registry right, the clocks and the calm.      *)

\* When the last batch is given back the history of batches is closed, else it
\* is kept; it is about the pollers after the step.
LEMMA BatchOverEffect ==
    ASSUME IndInv, NEW w \in Workers, BatchOver(w)
    PROVE  lastBatch' = [lastBatch EXCEPT ![w] = IF Handling(w)' # {} THEN lastBatch[w] ELSE None]
BY DEF BatchOver, Busy, Handling, IndInv, TypeOK, HealthTypeOK

\* The entry of the poller's own worker stays right.
LEMMA PollerOwnEntry ==
    ASSUME IndInv, NEW p \in Pollers,
           NEW to \in {"receiving", "backoff", "handling", "ended"}, NEW new \in Entry,
           PollerEffect(p, to, new), UNCHANGED worker
    PROVE  /\ EntryIsRight(WorkerOf[p])'
           /\ lastBatch' \in [Workers -> Time \cup {None}]
           /\ \A v \in Workers : v # WorkerOf[p] => lastBatch'[v] = lastBatch[v]
           /\ lastBatch'[WorkerOf[p]] # None => lastBatch'[WorkerOf[p]] <= now
           /\ \A q \in PollersOf(WorkerOf[p]) : at'[q] = "handling" =>
                 since'[q] <= lastBatch'[WorkerOf[p]]
<1> DEFINE w == WorkerOf[p]
           old == registry[w]
<1>p. at[p] \in {"receiving", "backoff", "handling"}
  BY DEF PollerEffect
<1>r. w \in Workers /\ p \in PollersOf(w) /\ old \in Entry /\ worker[w] # "none"
  BY <1>p, AtWorkIsRegistered DEF EntryIsRight
<1>e. /\ \A q \in PollersOf(w) : at[q] # "off"
      /\ old.processingCount = Cardinality(Handling(w))
      /\ old.lastHeartbeat = lastAnswer[w]
      /\ IF Handling(w) = {}
         THEN old.processingDeadlineAt = None /\ lastBatch[w] = None
         ELSE lastBatch[w] # None /\ old.processingDeadlineAt = lastBatch[w] + ProcessingDeadline[w]
  BY <1>p, AtWorkIsRegistered DEF EntryIsRight
<1>t. /\ at \in [Pollers -> Places] /\ lastBatch \in [Workers -> Time \cup {None}]
      /\ lastAnswer \in [Workers -> Time \cup {None}]
      /\ since \in [Pollers -> Time \cup {None}] /\ now \in Time /\ now \in Nat
  BY ConstantTypes DEF IndInv, TypeOK, HealthTypeOK, Places
<1>m. /\ registry'[w] = new /\ UNCHANGED now
      /\ at' = [at EXCEPT ![p] = to]
      /\ since' = [since EXCEPT ![p] = IF to = "ended" THEN None ELSE now]
  BY <1>r DEF PollerEffect, Moves, IndInv, TypeOK, HealthTypeOK
<1>n. PICK n \in Nat : n = Cardinality(Handling(w)) /\ (n = 0 <=> Handling(w) = {})
  <2>1. Cardinality(Pollers) \in Nat
    BY HealthConstants, FS_CardinalityType
  <2> QED BY <2>1, <1>r, HandlingIsFinite
<1>k. \A q \in PollersOf(w) : at[q] = "handling" => since[q] <= lastBatch[w]
  BY <1>r DEF IndInv, ClocksAgree, PollersOf
<1>l. lastBatch[w] # None => lastBatch[w] <= now /\ lastBatch[w] \in Time /\ lastBatch[w] \in Nat
  BY <1>r, <1>t, ConstantTypes DEF IndInv, ClocksAgree
<1>h. new.lastHeartbeat = lastAnswer'[w]
  BY <1>e, <1>r, <1>t DEF PollerEffect, Hears, HearsNothing
<1>o. \A q \in PollersOf(w) : at'[q] # "off"
  BY <1>e, <1>m, <1>t DEF PollersOf
<1>d. PICK d \in Nat : d = ProcessingDeadline[w]
  BY <1>r, ConstantTypes
<1> DEFINE Goal ==
        /\ new.processingCount = Cardinality(Handling(w)')
        /\ IF Handling(w)' = {}
           THEN new.processingDeadlineAt = None /\ lastBatch'[w] = None
           ELSE lastBatch'[w] # None /\ new.processingDeadlineAt = lastBatch'[w] + d
        /\ lastBatch' \in [Workers -> Time \cup {None}]
        /\ \A v \in Workers : v # w => lastBatch'[v] = lastBatch[v]
        /\ lastBatch'[w] # None => lastBatch'[w] <= now
        /\ \A q \in PollersOf(w) : at'[q] = "handling" => since'[q] <= lastBatch'[w]
<1>1. ASSUME TakesBatch(p, to, old, new) PROVE Goal
  <2>1. /\ at[p] = "receiving" /\ to = "handling"
        /\ new.processingCount = n + 1
        /\ lastBatch' = [lastBatch EXCEPT ![w] = now]
    BY <1>1, <1>n, <1>e DEF TakesBatch
  <2>2. new.processingDeadlineAt =
           IF old.processingDeadlineAt = None \/ old.processingDeadlineAt < now + d
           THEN now + d ELSE old.processingDeadlineAt
    BY <1>1, <1>d DEF TakesBatch
  <2>3. Handling(w)' = Handling(w) \cup {p} /\ Cardinality(Handling(w)') = n + 1
    BY <2>1, <1>m, <1>r, <1>t, <1>n, OneMoreHandles
  <2>4. new.processingDeadlineAt = now + d
    <3>1. CASE Handling(w) = {}
      BY <3>1, <2>2, <1>e
    <3>2. CASE Handling(w) # {}
      BY <3>2, <2>2, <1>e, <1>d, <1>l, <1>t
    <3> QED BY <3>1, <3>2
  <2>5. lastBatch'[w] = now /\ now # None
    BY <2>1, <1>t, <1>r, ConstantTypes
  <2>6. \A q \in PollersOf(w) : at'[q] = "handling" => since'[q] <= now
    <3> TAKE q \in PollersOf(w)
    <3> HAVE at'[q] = "handling"
    <3>q. q \in Pollers
      BY DEF PollersOf
    <3>1. CASE q = p
      BY <3>1, <2>1, <1>m, <1>t, <3>q
    <3>2. CASE q # p
      <4>1. at[q] = "handling" /\ since'[q] = since[q]
        BY <3>2, <3>q, <1>m, <1>t
      <4>2. since[q] # None /\ since[q] <= now
        BY <4>1, <3>q DEF IndInv, ClocksAgree
      <4> QED BY <4>1, <4>2
    <3> QED BY <3>1, <3>2
  <2>7. lastBatch' \in [Workers -> Time \cup {None}] /\ \A v \in Workers : v # w => lastBatch'[v] = lastBatch[v]
    BY <2>1, <1>t, <1>r
  <2>8. lastBatch'[w] <= now /\ Handling(w)' # {}
    BY <2>3, <2>5, <1>t
  <2>9. \A q \in PollersOf(w) : at'[q] = "handling" => since'[q] <= lastBatch'[w]
    BY <2>5, <2>6
  <2>10. new.processingCount = Cardinality(Handling(w)')
    BY <2>1, <2>3
  <2> QED BY <2>4, <2>5, <2>7, <2>8, <2>9, <2>10
<1>2. ASSUME KeepsBatches(p, to, old, new) PROVE Goal
  <2>1. at[p] # "handling" /\ to # "handling" /\ new.processingCount = n
        /\ new.processingDeadlineAt = old.processingDeadlineAt
    BY <1>2, <1>n, <1>e DEF KeepsBatches
  <2>2. Handling(w)' = Handling(w)
    BY <2>1, <1>m, <1>r, <1>t, SameHandle
  <2>3. lastBatch' = lastBatch
    <3>1. CASE BatchOver(w)
      <4>1. lastBatch' = [lastBatch EXCEPT ![w] = IF Handling(w) # {} THEN lastBatch[w] ELSE None]
        BY <3>1, <2>2, <1>r, BatchOverEffect
      <4> QED BY <4>1, <1>e, <1>t, <1>r
    <3> QED BY <3>1, <1>2 DEF KeepsBatches
  <2>4. \A q \in PollersOf(w) : at'[q] = "handling" => at[q] = "handling" /\ since'[q] = since[q]
    BY <2>1, <1>m, <1>t DEF PollersOf
  <2> QED BY <2>1, <2>2, <2>3, <2>4, <1>e, <1>n, <1>d, <1>t, <1>k, <1>l
<1>3. ASSUME DropsBatch(p, to, old, new) PROVE Goal
  <2>1. /\ at[p] = "handling" /\ to # "handling"
        /\ new.processingCount = IF n > 1 THEN n - 1 ELSE 0
        /\ new.processingDeadlineAt = IF n > 1 THEN old.processingDeadlineAt ELSE None
        /\ BatchOver(w)
    BY <1>3, <1>n, <1>e DEF DropsBatch
  <2>2. n >= 1 /\ Cardinality(Handling(w)') = n - 1
    BY <2>1, <1>m, <1>r, <1>t, <1>n, OneLessHandles
  <2>3. Handling(w)' = {} <=> n = 1
    <3>1. IsFiniteSet(Handling(w)')
      <4>1. Handling(w)' \subseteq Pollers
        BY DEF Handling, PollersOf
      <4> QED BY <4>1, HealthConstants, FS_Subset
    <3> QED BY <3>1, <2>2, FS_EmptySet
  <2>4. lastBatch' = [lastBatch EXCEPT ![w] = IF Handling(w)' # {} THEN lastBatch[w] ELSE None]
    BY <2>1, <1>r, BatchOverEffect
  <2>5. Handling(w) # {}
    BY <2>2, <1>n
  <2>6. \A q \in PollersOf(w) : at'[q] = "handling" =>
           at[q] = "handling" /\ since'[q] = since[q] /\ Handling(w)' # {}
    BY <2>1, <1>m, <1>t DEF PollersOf, Handling
  <2>7. lastBatch'[w] = IF n = 1 THEN None ELSE lastBatch[w]
    BY <2>3, <2>4, <1>t, <1>r
  <2>8. lastBatch' \in [Workers -> Time \cup {None}] /\ \A v \in Workers : v # w => lastBatch'[v] = lastBatch[v]
    BY <2>4, <1>t, <1>r
  <2>9. \A q \in PollersOf(w) : at'[q] = "handling" => since'[q] <= lastBatch'[w]
    BY <2>3, <2>6, <2>7, <1>k
  <2>10. new.processingCount = n - 1
    BY <2>1, <2>2, <1>n
  <2> QED BY <2>1, <2>2, <2>3, <2>5, <2>7, <2>8, <2>9, <2>10, <1>e, <1>d, <1>l
<1>4. Goal
  BY <1>1, <1>2, <1>3 DEF PollerEffect
<1>5. EntryIsRight(w)'
  BY <1>4, <1>m, <1>h, <1>o, <1>r, <1>d DEF EntryIsRight, PollersOf
<1> QED BY <1>4, <1>5

\* A poller's step does not concern the other workers.
LEMMA PollerOtherWorkers ==
    ASSUME IndInv, NEW p \in Pollers,
           NEW to \in {"receiving", "backoff", "handling", "ended"}, NEW new \in Entry,
           PollerEffect(p, to, new), UNCHANGED worker, NEW v \in Workers, v # WorkerOf[p]
    PROVE  /\ registry'[v] = registry[v]
           /\ \A q \in PollersOf(v) : at'[q] = at[q] /\ since'[q] = since[q]
           /\ Handling(v)' = Handling(v)
           /\ lastBatch'[v] = lastBatch[v] /\ lastAnswer'[v] = lastAnswer[v]
<1>t. /\ registry \in [Workers -> Entry \cup {None}] /\ at \in [Pollers -> Places]
      /\ since \in [Pollers -> Time \cup {None}] /\ lastAnswer \in [Workers -> Time \cup {None}]
  BY DEF IndInv, TypeOK, HealthTypeOK, Places
<1>p. p \notin PollersOf(v)
  BY DEF PollersOf
<1>1. registry'[v] = registry[v]
  BY <1>t DEF PollerEffect, Moves
<1>2. \A q \in PollersOf(v) : at'[q] = at[q] /\ since'[q] = since[q]
  BY <1>t, <1>p DEF PollerEffect, Moves, PollersOf
<1>3. Handling(v)' = Handling(v)
  BY <1>2 DEF Handling, PollersOf
<1>4. lastBatch'[v] = lastBatch[v]
  BY PollerOwnEntry
<1>5. lastAnswer'[v] = lastAnswer[v]
  BY <1>t DEF PollerEffect, Hears, HearsNothing
<1> QED BY <1>1, <1>2, <1>3, <1>4, <1>5

\* The registry stays right.
LEMMA PollerKeepsRegistry ==
    ASSUME IndInv, NEW p \in Pollers,
           NEW to \in {"receiving", "backoff", "handling", "ended"}, NEW new \in Entry,
           PollerEffect(p, to, new), UNCHANGED worker
    PROVE  RegistryIsRight'
<1> DEFINE w == WorkerOf[p]
<1>p. at[p] \in {"receiving", "backoff", "handling"}
  BY DEF PollerEffect
<1>r. w \in Workers /\ worker[w] # "settled"
  BY <1>p, AtWorkIsRegistered
<1>1. registry'[w] = new /\ new # None
  BY <1>r, NoneIsNoEntry DEF PollerEffect, Moves, IndInv, TypeOK, HealthTypeOK
<1>2. EntryIsRight(w)' /\ SettledIsDead(w)'
  BY <1>r, PollerOwnEntry DEF SettledIsDead
<1>3. ASSUME NEW v \in Workers, v # w
      PROVE  /\ registry'[v] = None => Unregistered(v)'
             /\ registry'[v] # None => EntryIsRight(v)'
             /\ SettledIsDead(v)'
  <2>1. /\ registry'[v] = registry[v]
        /\ \A q \in PollersOf(v) : at'[q] = at[q]
        /\ Handling(v)' = Handling(v)
        /\ lastBatch'[v] = lastBatch[v] /\ lastAnswer'[v] = lastAnswer[v]
    BY <1>3, PollerOtherWorkers
  <2>2. UNCHANGED <<lastSample, sampling>>
    BY DEF PollerEffect, Moves
  <2>3. registry[v] = None => Unregistered(v)'
    BY <2>1, <2>2 DEF IndInv, RegistryIsRight, Unregistered, PollersOf
  <2>4. registry[v] # None => EntryIsRight(v)'
    BY <2>1 DEF IndInv, RegistryIsRight, EntryIsRight, PollersOf
  <2>5. SettledIsDead(v)'
    BY <2>1 DEF IndInv, RegistryIsRight, SettledIsDead, PollersEnded, PollersOf
  <2> QED BY <2>1, <2>3, <2>4, <2>5
<1> QED BY <1>1, <1>2, <1>3 DEF RegistryIsRight

\* The timestamps stay in the past.
LEMMA PollerKeepsClocks ==
    ASSUME IndInv, NEW p \in Pollers,
           NEW to \in {"receiving", "backoff", "handling", "ended"}, NEW new \in Entry,
           PollerEffect(p, to, new), UNCHANGED worker
    PROVE  ClocksAgree'
<1> DEFINE w == WorkerOf[p]
<1>t. /\ at \in [Pollers -> Places] /\ since \in [Pollers -> Time \cup {None}]
      /\ lastAnswer \in [Workers -> Time \cup {None}] /\ now \in Nat /\ now # None
      /\ ReceiveDeadline \in Nat
  BY ConstantTypes DEF IndInv, TypeOK, HealthTypeOK, Places
<1>w. w \in Workers
  BY ConstantTypes
<1>m. /\ UNCHANGED now /\ at' = [at EXCEPT ![p] = to]
      /\ since' = [since EXCEPT ![p] = IF to = "ended" THEN None ELSE now]
  BY DEF PollerEffect, Moves
<1>1. \A v \in Workers : lastBatch'[v] # None => lastBatch'[v] <= now'
  BY <1>m, PollerOwnEntry DEF IndInv, ClocksAgree
<1>2. \A v \in Workers : lastAnswer'[v] # None => lastAnswer'[v] <= now'
  BY <1>m, <1>t, <1>w DEF PollerEffect, Hears, HearsNothing, IndInv, ClocksAgree
<1>3. ASSUME NEW q \in Pollers
      PROVE  /\ at'[q] \in {"receiving", "backoff", "handling"} => since'[q] # None /\ since'[q] <= now'
             /\ at'[q] = "receiving" => now' <= since'[q] + ReceiveDeadline
  <2>1. CASE q = p
    BY <2>1, <1>m, <1>t
  <2>2. CASE q # p
    <3>1. at'[q] = at[q] /\ since'[q] = since[q]
      BY <2>2, <1>m, <1>t
    <3> QED BY <3>1, <1>m DEF IndInv, ClocksAgree
  <2> QED BY <2>1, <2>2
<1>4. ASSUME NEW q \in Pollers, at'[q] = "handling"
      PROVE  since'[q] <= lastBatch'[WorkerOf[q]]
  <2>1. CASE WorkerOf[q] = w
    BY <2>1, <1>4, PollerOwnEntry DEF PollersOf
  <2>2. CASE WorkerOf[q] # w
    <3>1. WorkerOf[q] \in Workers /\ q \in PollersOf(WorkerOf[q])
      BY ConstantTypes DEF PollersOf
    <3>2. at'[q] = at[q] /\ since'[q] = since[q] /\ lastBatch'[WorkerOf[q]] = lastBatch[WorkerOf[q]]
      BY <2>2, <3>1, PollerOtherWorkers
    <3> QED BY <3>2, <1>4 DEF IndInv, ClocksAgree
  <2> QED BY <2>1, <2>2
<1> QED BY <1>1, <1>2, <1>3, <1>4 DEF ClocksAgree

\* The calm lasts: without a fault, every step of a poller is a sign of life.
LEMMA PollerKeepsCalm ==
    ASSUME IndInv, NEW p \in Pollers,
           NEW to \in {"receiving", "backoff", "handling", "ended"}, NEW new \in Entry,
           PollerEffect(p, to, new), UNCHANGED worker
    PROVE  Calm'
<1> DEFINE w == WorkerOf[p]
<1> SUFFICES ASSUME faults' = 0, ~draining', NEW v \in Workers, registry'[v] # None
             PROVE  CalmPollers(v)' /\ CalmSampler(v)'
  BY DEF Calm
<1>t. /\ registry \in [Workers -> Entry \cup {None}]
      /\ at \in [Pollers -> Places] /\ since \in [Pollers -> Time \cup {None}]
      /\ lastAnswer \in [Workers -> Time \cup {None}] /\ now \in Nat /\ now # None
      /\ faults \in Nat
  BY ConstantTypes DEF IndInv, TypeOK, HealthTypeOK, Places
<1>m. /\ UNCHANGED <<now, lastSample, sampling, draining>> /\ at' = [at EXCEPT ![p] = to]
      /\ registry' = [registry EXCEPT ![w] = new]
      /\ since' = [since EXCEPT ![p] = IF to = "ended" THEN None ELSE now]
  BY DEF PollerEffect, Moves
<1>f. faults = 0 /\ ~draining
  BY <1>t, <1>m DEF PollerEffect
<1>1. CASE v # w
  <2>1. /\ registry'[v] = registry[v]
        /\ \A q \in PollersOf(v) : at'[q] = at[q] /\ since'[q] = since[q]
        /\ lastAnswer'[v] = lastAnswer[v]
    BY <1>1, PollerOtherWorkers
  <2>2. CalmPollers(v) /\ CalmSampler(v)
    BY <2>1, <1>f DEF IndInv, Calm
  <2>3. CalmPollers(v)'
    BY <2>1, <2>2, <1>m DEF CalmPollers, PollersOf
  <2>4. CalmSampler(v)'
    BY <2>1, <2>2, <1>m DEF CalmSampler
  <2> QED BY <2>3, <2>4
<1>2. CASE v = w
  <2>p. at[p] \in {"receiving", "backoff", "handling"} /\ registry[w] # None /\ p \in PollersOf(w)
    BY AtWorkIsRegistered DEF PollerEffect
  <2>1. CalmPollers(w) /\ CalmSampler(w)
    BY <2>p, <1>2, <1>f DEF IndInv, Calm
  <2>2. at[p] # "backoff" /\ ~Aborted(w)
    BY <2>1, <2>p DEF CalmPollers, Aborted
  <2>3. Hears(p, new) /\ to \in {"receiving", "handling"}
    BY <2>2, <1>f DEF PollerEffect
  <2>4. lastAnswer'[w] = now /\ new.alive = TRUE /\ registry'[w] = new
    BY <2>3, <1>2, <1>t, <1>m DEF Hears
  <2>d. ProcessingDeadline[w] \in Nat /\ ProcessingDeadline[w] > 0
    BY <1>2, ConstantTypes
  <2>5. ASSUME NEW q \in PollersOf(w)
        PROVE  /\ at'[q] \in {"receiving", "handling"}
               /\ at'[q] = "receiving" => since'[q] <= lastAnswer'[w]
               /\ at'[q] = "handling" => now' < since'[q] + ProcessingDeadline[w]
    <3>q. q \in Pollers
      BY DEF PollersOf
    <3>1. CASE q = p
      BY <3>1, <3>q, <2>3, <2>4, <2>d, <1>m, <1>t
    <3>2. CASE q # p
      <4>1. at'[q] = at[q] /\ since'[q] = since[q]
        BY <3>2, <3>q, <1>m, <1>t
      <4>2. at[q] \in {"receiving", "handling"}
            /\ (at[q] = "handling" => now < since[q] + ProcessingDeadline[w])
        BY <2>1 DEF CalmPollers
      <4>3. since[q] <= now
        BY <4>2, <3>q DEF IndInv, ClocksAgree
      <4> QED BY <4>1, <4>2, <4>3, <2>4, <1>m
    <3> QED BY <3>1, <3>2
  <2>6. CalmPollers(w)'
    BY <2>4, <2>5 DEF CalmPollers, PollersOf
  <2>7. registry'[w].sampledAt = registry[w].sampledAt
    BY <2>4 DEF PollerEffect
  <2>8. CalmSampler(w)'
    BY <2>1, <2>7, <1>m DEF CalmSampler
  <2> QED BY <2>6, <2>8, <1>2
<1> QED BY <1>1, <1>2

\* All of it, and the types.
LEMMA PollKeepsInv ==
    ASSUME IndInv, NEW p \in Pollers, Poll(p)
    PROVE  IndInv'
<1>1. PICK to \in {"receiving", "backoff", "handling", "ended"} : \E new \in Entry :
         PollerEffect(p, to, new)
  BY PollerHasEffect DEF Poll
<1>2. PICK new \in Entry : PollerEffect(p, to, new)
  BY <1>1
<1>u. UNCHANGED processVars /\ UNCHANGED worker
  BY DEF Poll, processVars
<1>m. /\ UNCHANGED <<now, lastSample, sampling, draining>> /\ at' = [at EXCEPT ![p] = to]
      /\ registry' = [registry EXCEPT ![WorkerOf[p]] = new]
      /\ since' = [since EXCEPT ![p] = IF to = "ended" THEN None ELSE now]
  BY <1>2 DEF PollerEffect, Moves
<1>t. HealthTypeOK
  BY DEF IndInv, TypeOK
<1>3. HealthTypeOK'
  <2>1. now' \in Time /\ at' \in [Pollers -> Places] /\ since' \in [Pollers -> Time \cup {None}]
    BY <1>m, <1>t DEF HealthTypeOK, Places
  <2>2. registry' \in [Workers -> Entry \cup {None}]
    BY <1>m, <1>t DEF HealthTypeOK
  <2>3. lastSample' \in [Workers -> Time \cup {None}] /\ sampling' \subseteq Workers
    BY <1>m, <1>t DEF HealthTypeOK
  <2>4. draining' \in BOOLEAN
    BY <1>m, <1>t, Zenon DEF HealthTypeOK
  <2>5. lastBatch' \in [Workers -> Time \cup {None}]
    BY <1>2, <1>u, PollerOwnEntry
  <2>6. lastAnswer' \in [Workers -> Time \cup {None}]
    BY <1>2, <1>t DEF HealthTypeOK, PollerEffect, Hears, HearsNothing
  <2>7. faults' \in 0..MaxFaults
    BY <1>2 DEF PollerEffect
  <2> QED BY <2>1, <2>2, <2>3, <2>4, <2>5, <2>6, <2>7 DEF HealthTypeOK, Places
<1>4. TypeOK'
  BY <1>3, <1>u DEF IndInv, TypeOK, processVars, shutdown, supervisor
<1>5. OneShutdown' /\ WatchedWhileServing'
  <2>1. now' \in Time /\ (Up /\ shutdownTimer # None => now' <= shutdownTimer + Grace)
    BY <1>3, <1>m DEF HealthTypeOK, IndInv, OneShutdown
  <2>2. UNCHANGED draining
    BY <1>m
  <2> QED BY <2>1, <2>2, <1>u, QuietSupervisor
<1>6. RegistryIsRight' /\ ClocksAgree' /\ Calm'
  BY <1>2, <1>u, PollerKeepsRegistry, PollerKeepsClocks, PollerKeepsCalm
<1> QED BY <1>4, <1>5, <1>6 DEF IndInv

-----------------------------------------------------------------------------
(* Steps that leave the pollers where they are.                            *)

\* The registry stays right if counters, deadlines and heartbeats are kept, no
\* dead worker comes to life, and who settles has no poller left.
LEMMA QuietRegistry ==
    ASSUME IndInv, UNCHANGED <<at, lastBatch, lastAnswer>>,
           \A w \in Workers : registry'[w] = None <=> registry[w] = None,
           \A w \in Workers : registry[w] # None =>
              /\ registry'[w].processingCount = registry[w].processingCount
              /\ registry'[w].processingDeadlineAt = registry[w].processingDeadlineAt
              /\ registry'[w].lastHeartbeat = registry[w].lastHeartbeat
              /\ registry'[w].alive => registry[w].alive,
           \A w \in Workers : worker'[w] # worker[w] =>
              /\ worker'[w] = "settled" /\ PollersEnded(w)
              /\ registry'[w] # None => ~registry'[w].alive,
           \A w \in Workers : lastSample'[w] # None \/ w \in sampling' => registry[w] # None
    PROVE  RegistryIsRight'
<1> SUFFICES ASSUME NEW w \in Workers
             PROVE  /\ registry'[w] = None => Unregistered(w)'
                    /\ registry'[w] # None => EntryIsRight(w)'
                    /\ SettledIsDead(w)'
  BY DEF RegistryIsRight
<1>1. Handling(w)' = Handling(w)
  BY DEF Handling, PollersOf
<1>2. registry'[w] = None => Unregistered(w)'
  BY DEF IndInv, RegistryIsRight, Unregistered, PollersOf
<1>3. registry'[w] # None => EntryIsRight(w)'
  BY <1>1 DEF IndInv, RegistryIsRight, EntryIsRight, PollersOf
<1>4. SettledIsDead(w)'
  <2>1. CASE worker'[w] = worker[w]
    BY <2>1 DEF IndInv, RegistryIsRight, SettledIsDead, PollersEnded, PollersOf
  <2>2. CASE worker'[w] # worker[w]
    BY <2>2 DEF SettledIsDead, PollersEnded, PollersOf
  <2> QED BY <2>1, <2>2
<1> QED BY <1>2, <1>3, <1>4

\* A step that leaves the pollers, the clock and the history alone.
LEMMA QuietClocks ==
    ASSUME IndInv, UNCHANGED <<now, at, since, lastBatch, lastAnswer>>
    PROVE  ClocksAgree'
BY DEF IndInv, ClocksAgree

\* A registered worker is what a sampler belongs to.
LEMMA SampledIsRegistered ==
    ASSUME IndInv, NEW w \in Workers, lastSample[w] # None \/ w \in sampling
    PROVE  registry[w] # None /\ registry[w] \in Entry
BY DEF IndInv, RegistryIsRight, Unregistered, TypeOK, HealthTypeOK

\* The answer of a sample is recorded, or its error is.
LEMMA SampleKeepsInv ==
    ASSUME IndInv, NEW w \in Workers, Sample(w)
    PROVE  IndInv'
<1>u. /\ UNCHANGED processVars /\ UNCHANGED worker
      /\ UNCHANGED <<now, at, since, lastSample, draining, lastBatch, lastAnswer>>
      /\ sampling' = sampling \ {w} /\ w \in sampling
  BY DEF Sample, SampleAnswers, SampleFails, processVars, history
<1>t. HealthTypeOK /\ now \in Time /\ now \in Nat /\ now # None
  BY ConstantTypes DEF IndInv, TypeOK, HealthTypeOK
<1>e. registry[w] # None /\ registry[w] \in Entry
  BY <1>u, SampledIsRegistered
<1>f. faults' \in 0..MaxFaults /\ faults' >= faults
  BY ConstantTypes DEF Sample, SampleAnswers, SampleFails, Fault, IndInv, TypeOK, HealthTypeOK
<1>r. /\ registry' \in [Workers -> Entry \cup {None}]
      /\ \A v \in Workers : v # w => registry'[v] = registry[v]
      /\ registry'[w] \in Entry /\ registry'[w] # None
      /\ registry'[w].processingCount = registry[w].processingCount
      /\ registry'[w].processingDeadlineAt = registry[w].processingDeadlineAt
      /\ registry'[w].lastHeartbeat = registry[w].lastHeartbeat
      /\ registry'[w].alive = registry[w].alive
      /\ registry'[w].sampledAt = now \/ faults' # 0
  <2>1. CASE SampleAnswers(w)
    <3>1. PICK new \in Entry : new = RecordQueueTelemetry(registry[w])
      BY <1>e, <1>t, SampleFields
    <3>2. registry' = [registry EXCEPT ![w] = new]
      BY <2>1, <3>1 DEF SampleAnswers, Update
    <3>3. /\ new.processingCount = registry[w].processingCount
          /\ new.processingDeadlineAt = registry[w].processingDeadlineAt
          /\ new.lastHeartbeat = registry[w].lastHeartbeat
          /\ new.alive = registry[w].alive /\ new.sampledAt = now
      BY <3>1, <1>e, <1>t, SampleFields
    <3> QED BY <3>2, <3>3, <1>t, NoneIsNoEntry DEF HealthTypeOK
  <2>2. CASE SampleFails(w)
    BY <2>2, <1>e, <1>t, ConstantTypes DEF SampleFails, Fault, HealthTypeOK
  <2> QED BY <2>1, <2>2 DEF Sample
<1>1. TypeOK'
  <2>1. draining' \in BOOLEAN
    BY <1>u, <1>t, Zenon DEF HealthTypeOK
  <2>2. HealthTypeOK'
    BY <2>1, <1>u, <1>t, <1>r, <1>f DEF HealthTypeOK
  <2> QED BY <2>2, <1>u DEF IndInv, TypeOK, processVars, shutdown, supervisor
<1>2. OneShutdown' /\ WatchedWhileServing'
  <2>1. now' \in Time /\ (Up /\ shutdownTimer # None => now' <= shutdownTimer + Grace)
    BY <1>t, <1>u DEF IndInv, OneShutdown
  <2> QED BY <2>1, <1>u, QuietSupervisor
<1>3. RegistryIsRight'
  <2>1. \A v \in Workers : registry'[v] = None <=> registry[v] = None
    BY <1>r, <1>e
  <2>2. \A v \in Workers : registry[v] # None =>
           /\ registry'[v].processingCount = registry[v].processingCount
           /\ registry'[v].processingDeadlineAt = registry[v].processingDeadlineAt
           /\ registry'[v].lastHeartbeat = registry[v].lastHeartbeat
           /\ registry'[v].alive => registry[v].alive
    BY <1>r
  <2>3. \A v \in Workers : lastSample'[v] # None \/ v \in sampling' => registry[v] # None
    BY <1>u, SampledIsRegistered
  <2> QED BY <2>1, <2>2, <2>3, <1>u, QuietRegistry
<1>4. ClocksAgree'
  BY <1>u, QuietClocks
<1>5. Calm'
  <2> SUFFICES ASSUME faults' = 0, ~draining', NEW v \in Workers, registry'[v] # None
               PROVE  CalmPollers(v)' /\ CalmSampler(v)'
    BY DEF Calm
  <2>1. faults = 0 /\ ~draining
    BY <1>f, <1>u, <1>t, ConstantTypes DEF HealthTypeOK
  <2>2. CalmPollers(v) /\ CalmSampler(v)
    BY <2>1, <1>r, <1>e DEF IndInv, Calm
  <2>3. CalmPollers(v)'
    BY <2>2, <1>u, <1>r DEF CalmPollers, PollersOf
  <2>4. CalmSampler(v)'
    BY <2>2, <1>u, <1>r, <1>t DEF CalmSampler
  <2> QED BY <2>3, <2>4
<1> QED BY <1>1, <1>2, <1>3, <1>4, <1>5 DEF IndInv

\* The intervals launch what is due, for workers that have an interval.
LEMMA IntervalsFireEffect ==
    ASSUME NEW time \in Nat, IntervalsFire(time)
    PROVE  \E launched \in SUBSET Workers :
              /\ \A w \in launched : lastSample[w] # None /\ w \notin sampling
              /\ \A w \in Workers : (/\ lastSample[w] # None /\ w \notin sampling
                                     /\ time - lastSample[w] > 1) => w \in launched
              /\ sampling' = sampling \cup launched
              /\ lastSample' = [w \in Workers |-> IF w \in launched THEN time ELSE lastSample[w]]
BY DEF IntervalsFire

\* A tick: the timers of receives have fired, intervals may launch samples, and
\* without a fault no sample is under way and no batch reaches its deadline.
LEMMA TickKeepsInv ==
    ASSUME IndInv, Tick
    PROVE  IndInv'
<1>u. /\ UNCHANGED processVars /\ UNCHANGED worker
      /\ UNCHANGED <<registry, at, since, draining, lastBatch, lastAnswer>>
      /\ now < MaxTime /\ now' = now + 1 /\ TimersHaveFired /\ IntervalsFire(now + 1)
      /\ shutdownTimer # None => now < shutdownTimer + Grace
  BY DEF Tick, TimePasses, processVars, history
<1>t. HealthTypeOK /\ now \in Time /\ now \in Nat /\ MaxTime \in Nat
  BY ConstantTypes DEF IndInv, TypeOK, HealthTypeOK
<1>n. now' \in Time /\ now + 1 \in Time
  BY <1>u, <1>t DEF Time
<1> DEFINE late == {p \in Pollers : /\ at[p] = "handling"
                                    /\ now + 1 - since[p] = ProcessingDeadline[WorkerOf[p]]}
<1>f. /\ faults' \in 0..MaxFaults
      /\ faults' = 0 => faults = 0 /\ sampling = {} /\ late = {}
  <2>1. IsFiniteSet(sampling)
    BY <1>t, HealthConstants, FS_Subset DEF HealthTypeOK
  <2>2. IsFiniteSet(late)
    <3>1. late \subseteq Pollers
      OBVIOUS
    <3> QED BY <3>1, HealthConstants, FS_Subset
  <2>3. Fault(Cardinality(sampling) + Cardinality(late))
    BY DEF Tick, TimePasses
  <2>a. Cardinality(sampling) \in Nat /\ (Cardinality(sampling) = 0 => sampling = {})
    BY <2>1, FS_CardinalityType, FS_EmptySet
  <2>b. Cardinality(late) \in Nat /\ (Cardinality(late) = 0 => late = {})
    <3> HIDE DEF late
    <3> QED BY <2>2, FS_CardinalityType, FS_EmptySet
  <2>4. PICK n \in Nat : n = Cardinality(sampling) /\ (n = 0 => sampling = {})
    BY <2>a
  <2>5. PICK m \in Nat : m = Cardinality(late) /\ (m = 0 => late = {})
    <3> HIDE DEF late
    <3> QED BY <2>b
  <2>6. faults' = faults + (n + m) /\ faults' <= MaxFaults
    BY <2>3, <2>4, <2>5 DEF Fault
  <2>7. faults \in Nat /\ MaxFaults \in Nat
    BY <1>t, ConstantTypes DEF HealthTypeOK
  <2>8. faults' \in 0..MaxFaults
    BY <2>6, <2>7, <2>4, <2>5
  <2>9. faults' = 0 => faults = 0 /\ n = 0 /\ m = 0
    BY <2>6, <2>7
  <2> QED BY <2>8, <2>9, <2>4, <2>5
<1>v. PICK time \in Nat : time = now + 1 /\ IntervalsFire(time)
  BY <1>u, <1>t
<1>i. PICK launched \in SUBSET Workers :
         /\ \A w \in launched : lastSample[w] # None /\ w \notin sampling
         /\ \A w \in Workers : (/\ lastSample[w] # None /\ w \notin sampling
                                /\ time - lastSample[w] > 1) => w \in launched
         /\ sampling' = sampling \cup launched
         /\ lastSample' = [w \in Workers |-> IF w \in launched THEN time ELSE lastSample[w]]
  BY <1>v, IntervalsFireEffect
<1>1. TypeOK'
  <2>1. draining' \in BOOLEAN
    BY <1>u, <1>t, Zenon DEF HealthTypeOK
  <2>2. lastSample' \in [Workers -> Time \cup {None}] /\ sampling' \subseteq Workers
    BY <1>i, <1>v, <1>n, <1>t DEF HealthTypeOK
  <2>3. HealthTypeOK'
    BY <2>1, <2>2, <1>u, <1>t, <1>n, <1>f DEF HealthTypeOK
  <2> QED BY <2>3, <1>u DEF IndInv, TypeOK, processVars, shutdown, supervisor
<1>2. OneShutdown' /\ WatchedWhileServing'
  <2>1. shutdownTimer # None => shutdownTimer \in Nat /\ Grace \in Nat
    BY ConstantTypes DEF IndInv, TypeOK
  <2>2. shutdownTimer # None => now' <= shutdownTimer + Grace
    BY <2>1, <1>u, <1>t
  <2> QED BY <2>2, <1>u, <1>n, QuietSupervisor
<1>3. RegistryIsRight'
  <2>1. \A v \in Workers : lastSample'[v] # None \/ v \in sampling' => registry[v] # None
    BY <1>i, <1>v, SampledIsRegistered
  <2> QED BY <2>1, <1>u, QuietRegistry
<1>4. ClocksAgree'
  <2>1. \A w \in Workers :
           /\ lastBatch'[w] # None => lastBatch'[w] <= now'
           /\ lastAnswer'[w] # None => lastAnswer'[w] <= now'
    <3> TAKE w \in Workers
    <3>1. (lastBatch[w] # None => lastBatch[w] \in Nat) /\ (lastAnswer[w] # None => lastAnswer[w] \in Nat)
      BY <1>t, ConstantTypes DEF HealthTypeOK
    <3>2. (lastBatch[w] # None => lastBatch[w] <= now) /\ (lastAnswer[w] # None => lastAnswer[w] <= now)
      BY DEF IndInv, ClocksAgree
    <3> QED BY <3>1, <3>2, <1>u, <1>t
  <2>2. ASSUME NEW p \in Pollers
        PROVE  /\ at'[p] \in {"receiving", "backoff", "handling"} => since'[p] # None /\ since'[p] <= now'
               /\ at'[p] = "receiving" => now' <= since'[p] + ReceiveDeadline
               /\ at'[p] = "handling" => since'[p] <= lastBatch'[WorkerOf[p]]
    <3>1. since[p] # None => since[p] \in Nat
      BY <1>t, ConstantTypes DEF HealthTypeOK
    <3>2. at[p] \in {"receiving", "backoff", "handling"} => since[p] # None /\ since[p] <= now
      BY DEF IndInv, ClocksAgree
    <3>3. at[p] = "receiving" => now - since[p] < ReceiveDeadline
      BY <1>u DEF TimersHaveFired
    <3>4. at[p] = "receiving" => now + 1 <= since[p] + ReceiveDeadline
      BY <3>1, <3>2, <3>3, <1>t, ConstantTypes
    <3>5. at[p] = "handling" => since[p] <= lastBatch[WorkerOf[p]]
      BY DEF IndInv, ClocksAgree
    <3> QED BY <3>1, <3>2, <3>4, <3>5, <1>u, <1>t
  <2> QED BY <2>1, <2>2 DEF ClocksAgree
<1>5. Calm'
  <2> SUFFICES ASSUME faults' = 0, ~draining', NEW w \in Workers, registry'[w] # None
               PROVE  CalmPollers(w)' /\ CalmSampler(w)'
    BY DEF Calm
  <2>1. faults = 0 /\ ~draining /\ sampling = {} /\ late = {}
    BY <1>f, <1>u
  <2>2. CalmPollers(w) /\ CalmSampler(w)
    BY <2>1, <1>u DEF IndInv, Calm
  <2>3. CalmPollers(w)'
    <3>1. ASSUME NEW p \in PollersOf(w), at[p] = "handling"
          PROVE  now + 1 < since[p] + ProcessingDeadline[w]
      <4>1. p \in Pollers /\ WorkerOf[p] = w
        BY DEF PollersOf
      <4>2. PICK s \in Nat : s = since[p]
        BY <3>1, <4>1, <1>t, ConstantTypes DEF HealthTypeOK, IndInv, ClocksAgree
      <4>3. PICK d \in Nat : d = ProcessingDeadline[w]
        BY ConstantTypes
      <4>4. now < s + d
        BY <2>2, <3>1, <4>2, <4>3 DEF CalmPollers
      <4>5. now + 1 - s # d
        BY <2>1, <3>1, <4>1, <4>2, <4>3
      <4> QED BY <4>2, <4>3, <4>4, <4>5, <1>t
    <3> QED BY <2>2, <3>1, <1>u DEF CalmPollers, PollersOf
  <2>4. CalmSampler(w)'
    <3>1. PICK last \in Nat : last = lastSample[w] /\ last <= now
      BY <2>2, <1>t, ConstantTypes DEF CalmSampler, HealthTypeOK
    <3>2. registry[w].sampledAt = last /\ now <= last + 1
      BY <2>1, <2>2, <3>1 DEF CalmSampler
    <3>n. last # None /\ now + 1 # None
      BY <3>1, <1>t, ConstantTypes
    <3>3. CASE w \in launched
      <4>1. lastSample'[w] = now + 1 /\ w \in sampling'
        BY <1>i, <1>v, <3>3
      <4> QED BY <3>1, <3>2, <3>3, <3>n, <4>1, <1>u, <1>t DEF CalmSampler
    <3>4. CASE w \notin launched
      <4>1. lastSample'[w] = last /\ w \notin sampling'
        BY <1>i, <1>v, <2>1, <3>1, <3>4
      <4>2. ~(time - last > 1)
        BY <1>i, <2>1, <3>1, <3>4, <3>n
      <4>3. now + 1 <= last + 1
        BY <4>2, <3>1, <1>v, <1>t
      <4> QED BY <3>1, <3>2, <3>n, <4>1, <4>3, <1>u, <1>t DEF CalmSampler
    <3> QED BY <3>3, <3>4
  <2> QED BY <2>3, <2>4
<1> QED BY <1>1, <1>2, <1>3, <1>4, <1>5 DEF IndInv

-----------------------------------------------------------------------------
(* Startup, shutdown and exit.                                             *)

\* Clearing the intervals leaves the requests under way alone.
LEMMA ClearSamplingEffect ==
    ASSUME IndInv, NEW cleared, ClearSampling(cleared)
    PROVE  /\ sampling' = sampling
           /\ lastSample' \in [Workers -> Time \cup {None}]
           /\ \A w \in Workers : lastSample'[w] # None => lastSample[w] # None
BY DEF ClearSampling, IndInv, TypeOK, HealthTypeOK

\* Clearing happens with the first call of initiateShutdown, or not at all.
LEMMA ShutdownClears ==
    ASSUME IndInv, NEW code, NEW serverNow, InitiateShutdown(code, serverNow)
    PROVE  /\ sampling' = sampling
           /\ lastSample' \in [Workers -> Time \cup {None}]
           /\ \A w \in Workers : lastSample'[w] # None => lastSample[w] # None
<1>1. CASE UNCHANGED sampler
  BY <1>1 DEF sampler, IndInv, TypeOK, HealthTypeOK
<1>2. CASE ClearSampling(Workers)
  BY <1>2, ClearSamplingEffect
<1> QED BY <1>1, <1>2 DEF InitiateShutdown, RequestShutdown

\* A signal, an exception, or a failed preparation.
LEMMA ShutdownKeepsInv ==
    ASSUME IndInv, Signal \/ UncaughtException \/ PrepareFails
    PROVE  IndInv'
<1>1. PICK code \in {0, 1}, serverNow \in {server, "failed"} :
         /\ Up /\ InitiateShutdown(code, serverNow)
         /\ UNCHANGED <<now, registry, at, since, lastBatch, lastAnswer, faults, worker,
                        fatalShutdown, exit, lostAt>>
  BY DEF Signal, UncaughtException, Shutdown, PrepareFails, history
<1>2. serverNow \in {"preparing", "listening", "closing", "failed"}
  BY <1>1 DEF IndInv, TypeOK
<1>3. /\ sampling' = sampling /\ lastSample' \in [Workers -> Time \cup {None}]
      /\ \A w \in Workers : lastSample'[w] # None => lastSample[w] # None
  BY <1>1, ShutdownClears
<1>4. TypeOK'
  <2>1. HealthTypeOK'
    <3>1. draining' \in BOOLEAN
      BY <1>1, <1>2, InitiateShutdownEffect
    <3> QED BY <3>1, <1>1, <1>3 DEF IndInv, TypeOK, HealthTypeOK
  <2>2. {shutdownInProgress', shutdownRequested'} \subseteq BOOLEAN
    BY <1>1, <1>2, InitiateShutdownEffect
  <2>3. fatalShutdown' \in BOOLEAN
    BY <1>1, Zenon DEF IndInv, TypeOK
  <2>4. {shutdownInProgress', shutdownRequested', fatalShutdown'} \subseteq BOOLEAN
    BY <2>2, <2>3
  <2>5. shutdownTimer' \in Time \cup {None} /\ intendedExitCode' \in {0, 1}
    BY <1>1, <1>2, InitiateShutdownEffect DEF IndInv, TypeOK, HealthTypeOK
  <2>6. /\ server' \in {"preparing", "listening", "closing", "failed"}
        /\ worker' \in [Workers -> {"none", "running", "settled"}]
        /\ lostAt' \in Time \cup {None} /\ exit' \in {None, 0, 1}
    BY <1>1, <1>2, InitiateShutdownEffect DEF IndInv, TypeOK
  <2> QED BY <2>1, <2>4, <2>5, <2>6 DEF TypeOK
<1>5. RegistryIsRight'
  <2>1. \A w \in Workers : lastSample'[w] # None \/ w \in sampling' => registry[w] # None
    BY <1>3, SampledIsRegistered
  <2>2. UNCHANGED <<at, lastBatch, lastAnswer>> /\ registry' = registry /\ worker' = worker
    BY <1>1
  <2> QED BY <2>1, <2>2, QuietRegistry
<1>6. ClocksAgree'
  <2>1. UNCHANGED <<now, at, since, lastBatch, lastAnswer>>
    BY <1>1
  <2> QED BY <2>1, QuietClocks
<1>7. Calm'
  BY <1>1, <1>2, InitiateShutdownEffect DEF Calm
<1> QED BY <1>4, <1>5, <1>6, <1>7, ShutdownKeepsSupervisor DEF IndInv

\* The workers start with fresh entries; before, there was nothing.
LEMMA PreparedKeepsInv ==
    ASSUME IndInv, Prepared
    PROVE  IndInv'
<1>1. PICK started \in SUBSET Workers : StartWorkers(started)
  BY DEF Prepared
<1>u. /\ UNCHANGED <<now, draining, lastBatch, lastAnswer, faults>>
      /\ UNCHANGED <<shutdownInProgress, intendedExitCode, shutdownTimer, shutdownRequested,
                     fatalShutdown, exit, lostAt>>
      /\ server' = "listening" /\ worker' = [w \in Workers |-> "running"]
  BY <1>1 DEF Prepared, StartWorkers, history, supervisor
<1>t. now \in Time /\ now \in Nat /\ now # None /\ ReceiveDeadline \in Nat
  BY ConstantTypes DEF IndInv, TypeOK, HealthTypeOK
<1>n. \A w \in Workers : lastBatch[w] = None /\ lastAnswer[w] = None
  BY DEF Prepared, IndInv, WatchedWhileServing, RegistryIsRight, EntryIsRight, Unregistered
<1>e. PICK entry \in Entry :
         /\ entry = Registered /\ entry # None /\ entry.alive = FALSE /\ entry.lastHeartbeat = None
         /\ entry.processingCount = 0 /\ entry.processingDeadlineAt = None
         /\ entry.sampledAt = None
  <2>1. Cardinality(Pollers) \in Nat
    BY HealthConstants, FS_CardinalityType
  <2>2. Registered \in Entry
    BY <2>1 DEF Registered, Entry
  <2> QED BY <2>2, NoneIsNoEntry DEF Registered
<1>r. registry' = [w \in Workers |-> IF w \in started THEN entry ELSE None]
  BY <1>1, <1>e DEF StartWorkers
<1>a. /\ at' \in [Pollers -> {"off", "ended", "receiving"}]
      /\ \A p \in Pollers : at'[p] = "off" <=> WorkerOf[p] \notin started
      /\ \A p \in Pollers : at'[p] = "ended" => draining
      /\ since' = [p \in Pollers |-> IF at'[p] = "receiving" THEN now ELSE None]
  <2>1. \A p \in Pollers : at'[p] = IF WorkerOf[p] \notin started THEN "off"
                                   ELSE IF draining THEN "ended" ELSE "receiving"
    BY <1>1 DEF StartWorkers
  <2>2. at' \in [Pollers -> {"off", "ended", "receiving"}]
    BY <1>1 DEF StartWorkers
  <2>3. since' = [p \in Pollers |-> IF at'[p] = "receiving" THEN now ELSE None]
    BY <1>1 DEF StartWorkers
  <2> QED BY <2>1, <2>2, <2>3
<1>s. /\ lastSample' = [w \in Workers |-> IF w \in started THEN now ELSE None]
      /\ sampling' = started
  BY <1>1 DEF StartWorkers
<1>2. TypeOK'
  <2>1. HealthTypeOK'
    <3>1. draining' \in BOOLEAN
      BY <1>u, Zenon DEF IndInv, TypeOK, HealthTypeOK
    <3>2. now' \in Time /\ faults' \in 0..MaxFaults
          /\ lastBatch' \in [Workers -> Time \cup {None}]
          /\ lastAnswer' \in [Workers -> Time \cup {None}]
      BY <1>u DEF IndInv, TypeOK, HealthTypeOK
    <3>3. at' \in [Pollers -> Places] /\ since' \in [Pollers -> Time \cup {None}]
      BY <1>a, <1>t DEF Places
    <3>4. registry' \in [Workers -> Entry \cup {None}]
      BY <1>r
    <3>5. lastSample' \in [Workers -> Time \cup {None}] /\ sampling' \subseteq Workers
      BY <1>s, <1>t
    <3> QED BY <3>1, <3>2, <3>3, <3>4, <3>5 DEF HealthTypeOK, Places
  <2> QED BY <2>1, <1>u DEF IndInv, TypeOK
<1>3. RegistryIsRight'
  <2> SUFFICES ASSUME NEW w \in Workers
               PROVE  /\ registry'[w] = None => Unregistered(w)'
                      /\ registry'[w] # None => EntryIsRight(w)'
                      /\ SettledIsDead(w)'
    BY DEF RegistryIsRight
  <2>1. Handling(w)' = {}
    BY <1>a DEF Handling, PollersOf
  <2>2. Cardinality(Handling(w)') = 0
    BY <2>1, FS_EmptySet
  <2>3. CASE w \in started
    <3>1. registry'[w] = entry /\ worker'[w] = "running"
      BY <2>3, <1>r, <1>u
    <3>2. \A p \in PollersOf(w) : at'[p] # "off"
      BY <2>3, <1>a DEF PollersOf
    <3>3. EntryIsRight(w)'
      BY <3>1, <3>2, <2>1, <2>2, <1>e, <1>n, <1>u DEF EntryIsRight, PollersOf
    <3> QED BY <3>1, <3>3, <1>e DEF SettledIsDead
  <2>4. CASE w \notin started
    <3>1. registry'[w] = None /\ worker'[w] = "running"
      BY <2>4, <1>r, <1>u
    <3>2. \A p \in PollersOf(w) : at'[p] = "off"
      BY <2>4, <1>a DEF PollersOf
    <3>3. Unregistered(w)'
      BY <3>2, <2>4, <1>n, <1>s, <1>u DEF Unregistered, PollersOf
    <3> QED BY <3>1, <3>3 DEF SettledIsDead
  <2> QED BY <2>3, <2>4
<1>4. ClocksAgree'
  BY <1>a, <1>n, <1>t, <1>u DEF ClocksAgree
<1>5. Calm'
  <2> SUFFICES ASSUME ~draining', NEW w \in Workers, registry'[w] # None
               PROVE  CalmPollers(w)' /\ CalmSampler(w)'
    BY DEF Calm
  <2>1. w \in started /\ registry'[w] = entry
    BY <1>r
  <2>2. \A p \in PollersOf(w) : at'[p] = "receiving"
    BY <2>1, <1>a, <1>u DEF PollersOf
  <2>3. lastAnswer'[w] = None
    BY <1>n, <1>u
  <2>4. CalmPollers(w)'
    BY <2>2, <2>3 DEF CalmPollers, PollersOf
  <2>5. CalmSampler(w)'
    BY <2>1, <1>e, <1>s, <1>t, <1>u DEF CalmSampler
  <2> QED BY <2>4, <2>5
<1> QED BY <1>2, <1>3, <1>4, <1>5, PreparedKeepsSupervisor DEF IndInv

\* A worker settles: no poller of it is left, it is marked dead, and from now on
\* the process drains.
LEMMA SettleKeepsInv ==
    ASSUME IndInv, NEW w \in Workers, WorkerSettles(w)
    PROVE  IndInv'
<1>u. /\ UNCHANGED <<now, at, since, lastBatch, lastAnswer, faults>>
      /\ worker[w] = "running" /\ PollersEnded(w)
      /\ worker' = [worker EXCEPT ![w] = "settled"]
      /\ registry' = [registry EXCEPT ![w] = IF registry[w] = None THEN None ELSE MarkWorkerDead(registry[w])]
      /\ lostAt' = IF shutdownInProgress THEN lostAt ELSE now
  BY DEF WorkerSettles, EndWorker, history
<1>t. HealthTypeOK /\ now \in Time
  BY DEF IndInv, TypeOK, HealthTypeOK
<1>x. IsUnexpected <=> ~shutdownInProgress
  BY DEF IsUnexpected, IndInv, OneShutdown
<1>1. /\ sampling' = sampling /\ lastSample' \in [Workers -> Time \cup {None}]
      /\ \A v \in Workers : lastSample'[v] # None => lastSample[v] # None
  <2>1. CASE IsUnexpected
    BY <2>1, ShutdownClears DEF WorkerSettles
  <2>2. CASE ~IsUnexpected
    BY <2>2, ClearSamplingEffect DEF WorkerSettles
  <2> QED BY <2>1, <2>2
<1>2. /\ draining' /\ draining' \in BOOLEAN
      /\ {shutdownInProgress', shutdownRequested', fatalShutdown'} \subseteq BOOLEAN
      /\ shutdownTimer' \in Time \cup {None} /\ intendedExitCode' \in {0, 1}
      /\ server' \in {"preparing", "listening", "closing", "failed"}
  <2>1. CASE IsUnexpected
    <3>1. InitiateShutdown(1, server) /\ fatalShutdown' = TRUE
      BY <2>1 DEF WorkerSettles
    <3>2. server \in {"preparing", "listening", "closing", "failed"}
      BY DEF IndInv, TypeOK
    <3>3. draining' /\ draining' \in BOOLEAN /\ {shutdownInProgress', shutdownRequested'} \subseteq BOOLEAN
      BY <3>1, <3>2, InitiateShutdownEffect
    <3>4. /\ shutdownTimer' \in Time \cup {None} /\ intendedExitCode' \in {0, 1}
          /\ server' \in {"preparing", "listening", "closing", "failed"}
      BY <3>1, <3>2, <1>t, InitiateShutdownEffect DEF IndInv, TypeOK
    <3> QED BY <3>1, <3>3, <3>4
  <2>2. CASE ~IsUnexpected
    <3>1. UNCHANGED <<shutdownRequested, fatalShutdown, server, shutdownInProgress,
                      intendedExitCode, shutdownTimer, draining>>
      BY <2>2 DEF WorkerSettles, supervisor, shutdown
    <3>2. draining' /\ draining' \in BOOLEAN
      BY <3>1, <2>2, <1>x, <1>t DEF IndInv, OneShutdown, HealthTypeOK
    <3>3. {shutdownInProgress', shutdownRequested', fatalShutdown'} \subseteq BOOLEAN
      BY <3>1 DEF IndInv, TypeOK
    <3>4. /\ shutdownTimer' \in Time \cup {None} /\ intendedExitCode' \in {0, 1}
          /\ server' \in {"preparing", "listening", "closing", "failed"}
      BY <3>1 DEF IndInv, TypeOK
    <3> QED BY <3>2, <3>3, <3>4
  <2> QED BY <2>1, <2>2
<1>r. /\ registry' \in [Workers -> Entry \cup {None}]
      /\ \A v \in Workers : v # w => registry'[v] = registry[v]
      /\ registry'[w] = None <=> registry[w] = None
      /\ registry[w] # None =>
            /\ registry'[w].processingCount = registry[w].processingCount
            /\ registry'[w].processingDeadlineAt = registry[w].processingDeadlineAt
            /\ registry'[w].lastHeartbeat = registry[w].lastHeartbeat
            /\ registry'[w].alive = FALSE
  <2>1. CASE registry[w] = None
    BY <2>1, <1>u, <1>t DEF HealthTypeOK
  <2>2. CASE registry[w] # None
    <3>0. registry[w] \in Entry
      BY <2>2, <1>t DEF HealthTypeOK
    <3>1. PICK new \in Entry : new = MarkWorkerDead(registry[w])
      BY <3>0, DeadFields
    <3>2. /\ new.processingCount = registry[w].processingCount
          /\ new.processingDeadlineAt = registry[w].processingDeadlineAt
          /\ new.lastHeartbeat = registry[w].lastHeartbeat /\ new.alive = FALSE
      BY <3>0, <3>1, DeadFields
    <3>3. registry' = [registry EXCEPT ![w] = new]
      BY <2>2, <3>1, <1>u
    <3> QED BY <2>2, <3>2, <3>3, <1>t, NoneIsNoEntry DEF HealthTypeOK
  <2> QED BY <2>1, <2>2
<1>3. TypeOK'
  <2>1. HealthTypeOK'
    BY <1>u, <1>t, <1>1, <1>2, <1>r DEF HealthTypeOK
  <2>2. worker' \in [Workers -> {"none", "running", "settled"}]
    BY <1>u DEF IndInv, TypeOK
  <2>3. lostAt' \in Time \cup {None}
    BY <1>u, <1>t DEF IndInv, TypeOK
  <2>4. exit' \in {None, 0, 1}
    BY DEF WorkerSettles, ExitCode, IndInv, TypeOK
  <2> QED BY <2>1, <2>2, <2>3, <2>4, <1>2 DEF TypeOK
<1>4. RegistryIsRight'
  <2>1. \A v \in Workers : lastSample'[v] # None \/ v \in sampling' => registry[v] # None
    BY <1>1, SampledIsRegistered
  <2>2. \A v \in Workers : worker'[v] # worker[v] =>
           /\ worker'[v] = "settled" /\ PollersEnded(v)
           /\ registry'[v] # None => ~registry'[v].alive
    BY <1>u, <1>r DEF IndInv, TypeOK
  <2>3. \A v \in Workers : registry'[v] = None <=> registry[v] = None
    BY <1>r
  <2>4. \A v \in Workers : registry[v] # None =>
           /\ registry'[v].processingCount = registry[v].processingCount
           /\ registry'[v].processingDeadlineAt = registry[v].processingDeadlineAt
           /\ registry'[v].lastHeartbeat = registry[v].lastHeartbeat
           /\ registry'[v].alive => registry[v].alive
    BY <1>r
  <2>5. UNCHANGED <<at, lastBatch, lastAnswer>>
    BY <1>u
  <2> QED BY <2>1, <2>2, <2>3, <2>4, <2>5, QuietRegistry
<1>5. ClocksAgree'
  BY <1>u, QuietClocks
<1>6. Calm'
  BY <1>2 DEF Calm
<1> QED BY <1>3, <1>4, <1>5, <1>6, SettleKeepsSupervisor DEF IndInv

\* The process is gone, or nothing happens.
LEMMA ExitKeepsInv ==
    ASSUME IndInv, GraceExpires \/ NaturalExit \/ UNCHANGED vars
    PROVE  IndInv'
<1>1. UNCHANGED <<healthVars, shutdown, worker, supervisor, lostAt>>
  BY DEF GraceExpires, NaturalExit, vars, processVars
<1>2. exit' \in {None, 0, 1}
  BY DEF GraceExpires, NaturalExit, vars, processVars, IndInv, TypeOK
<1> USE DEF healthVars, sampler, history, shutdown, supervisor
<1>3. TypeOK'
  <2>1. draining' \in BOOLEAN
    BY <1>1, Zenon DEF IndInv, TypeOK, HealthTypeOK
  <2>2. HealthTypeOK'
    BY <2>1, <1>1 DEF IndInv, TypeOK, HealthTypeOK
  <2> QED BY <2>2, <1>1, <1>2 DEF IndInv, TypeOK
<1>4. RegistryIsRight'
  <2>1. \A v \in Workers : lastSample'[v] # None \/ v \in sampling' => registry[v] # None
    BY <1>1, SampledIsRegistered
  <2>2. UNCHANGED <<at, lastBatch, lastAnswer>> /\ registry' = registry /\ worker' = worker
    BY <1>1
  <2> QED BY <2>1, <2>2, QuietRegistry
<1>5. ClocksAgree'
  BY <1>1, QuietClocks
<1>6. Calm'
  BY <1>1 DEF IndInv, Calm, CalmPollers, CalmSampler, PollersOf
<1> QED BY <1>3, <1>4, <1>5, <1>6, ExitKeepsSupervisor DEF IndInv

-----------------------------------------------------------------------------
(* The theorems.                                                           *)

\* The inductive invariant holds in every reachable state.
LEMMA IndInvHolds == Spec => []IndInv
<1>1. Init => IndInv
  BY InitIndInv
<1>2. IndInv /\ [Next]_vars => IndInv'
  <2> SUFFICES ASSUME IndInv, [Next]_vars PROVE IndInv'
    OBVIOUS
  <2>1. CASE Signal \/ UncaughtException \/ PrepareFails
    BY <2>1, ShutdownKeepsInv
  <2>2. CASE Prepared
    BY <2>2, PreparedKeepsInv
  <2>3. ASSUME NEW w \in Workers, WorkerSettles(w) PROVE IndInv'
    BY <2>3, SettleKeepsInv
  <2>4. ASSUME NEW w \in Workers, Sample(w) PROVE IndInv'
    BY <2>4, SampleKeepsInv
  <2>5. ASSUME NEW p \in Pollers, Poll(p) PROVE IndInv'
    BY <2>5, PollKeepsInv
  <2>6. CASE GraceExpires \/ NaturalExit \/ UNCHANGED vars
    BY <2>6, ExitKeepsInv
  <2>7. CASE Tick
    BY <2>7, TickKeepsInv
  <2>8. CASE TimeIsUp \/ Exited
    BY <2>8, ExitKeepsInv DEF TimeIsUp, Exited
  <2> QED BY <2>1, <2>2, <2>3, <2>4, <2>5, <2>6, <2>7, <2>8 DEF Next
<1> QED BY <1>1, <1>2, PTL DEF Spec

\* The exit code is decided once, by the last worker to settle or by the timer,
\* and agrees with how the shutdown began.
LEMMA ExitCodeStep ==
    ASSUME IndInv, ExitCodeIsHonest, [Next]_vars
    PROVE  ExitCodeIsHonest'
<1>1. CASE ~Up
  <2>1. UNCHANGED vars
    BY <1>1 DEF Next, Signal, UncaughtException, Shutdown, Prepared, PrepareFails, WorkerSettles,
                Sample, Poll, GraceExpires, NaturalExit, Tick, TimeIsUp, Exited
  <2> QED BY <2>1 DEF ExitCodeIsHonest, Up, vars, processVars, shutdown
<1>2. CASE Up'
  BY <1>2 DEF ExitCodeIsHonest
<1>3. CASE Up /\ ~Up'
  <2>1. \/ \E w \in Workers : WorkerSettles(w)
        \/ GraceExpires \/ NaturalExit
    BY <1>3 DEF Up, Next, Signal, UncaughtException, Shutdown, Prepared, PrepareFails, Sample, Poll,
                Tick, TimeIsUp, Exited, vars, processVars
  <2>2. CASE GraceExpires
    <3>1. exit' = 1 /\ worker' = worker
      BY <2>2 DEF GraceExpires
    <3>2. ~ \A w \in Workers : worker'[w] = "settled"
      BY <3>1, <1>3 DEF IndInv, WatchedWhileServing, AllSettled
    <3> QED BY <3>1, <3>2 DEF ExitCodeIsHonest
  <2>3. CASE NaturalExit
    BY <2>3 DEF NaturalExit, ExitCodeIsHonest, shutdown
  <2>4. ASSUME NEW w \in Workers, WorkerSettles(w) PROVE ExitCodeIsHonest'
    <3>1. AllSettled(worker') /\ exit' = ExitCode(fatalShutdown', intendedExitCode')
      BY <2>4, <1>3 DEF WorkerSettles, Up
    <3>2. fatalShutdown' <=> lostAt' # None
      BY <2>4, SettleKeepsSupervisor DEF OneShutdown
    <3>3. intendedExitCode' \in {0, 1}
      BY <2>4, SettleKeepsInv DEF IndInv, TypeOK
    <3> QED BY <3>1, <3>2, <3>3 DEF ExitCodeIsHonest, ExitCode, AllSettled
  <2> QED BY <2>1, <2>2, <2>3, <2>4
<1> QED BY <1>1, <1>2, <1>3

\* A process that served exits with 0 exactly when a signal stopped it, every
\* worker drained and none had stopped by itself.
THEOREM ExitCodeTellsTheTruth == Spec => []ExitCodeIsHonest
<1>1. Init => ExitCodeIsHonest
  BY DEF Init, ExitCodeIsHonest, Up
<1>2. IndInv /\ ExitCodeIsHonest /\ [Next]_vars => ExitCodeIsHonest'
  BY ExitCodeStep
<1> QED BY <1>1, <1>2, IndInvHolds, PTL DEF Spec

\* A lost worker ends the process with code 1 within the grace period: the fatal
\* shutdown armed the timer when the worker was lost, and the clock cannot pass it.
THEOREM LostWorkerEndsTheProcess == Spec => []LostWorkerRestartsInTime
<1>1. IndInv /\ ExitCodeIsHonest => LostWorkerRestartsInTime
  <2> SUFFICES ASSUME IndInv, ExitCodeIsHonest, lostAt # None
               PROVE  IF Up THEN now <= lostAt + Grace ELSE exit = 1
    BY DEF LostWorkerRestartsInTime
  <2>1. shutdownTimer = lostAt /\ (Up => now <= shutdownTimer + Grace)
    BY DEF IndInv, OneShutdown
  <2>2. server # "failed"
    BY DEF IndInv, WatchedWhileServing
  <2>3. ~Up => exit = 1
    BY <2>2 DEF IndInv, TypeOK, ExitCodeIsHonest, Up
  <2> QED BY <2>1, <2>3
<1> QED BY <1>1, IndInvHolds, ExitCodeTellsTheTruth, PTL

\* A poller without siblings has the latest batch of its worker in hand.
SoleBatch ==
    \A p \in Pollers :
        at[p] = "handling" /\ PollersOf(WorkerOf[p]) = {p} => since[p] = lastBatch[WorkerOf[p]]

\* Only steps of pollers touch batches, and those of other workers' pollers
\* leave this one's history alone.
LEMMA SoleBatchStep ==
    ASSUME IndInv, SoleBatch, [Next]_vars
    PROVE  SoleBatch'
<1> SUFFICES ASSUME NEW q \in Pollers, at'[q] = "handling", PollersOf(WorkerOf[q]) = {q}
             PROVE  since'[q] = lastBatch'[WorkerOf[q]]
  BY DEF SoleBatch, PollersOf
<1>q. WorkerOf[q] \in Workers
  BY ConstantTypes
<1>1. CASE UNCHANGED <<at, since, lastBatch>>
  BY <1>1 DEF SoleBatch
<1>2. CASE Prepared
  BY <1>2 DEF Prepared, StartWorkers
<1>3. ASSUME NEW p \in Pollers, Poll(p) PROVE since'[q] = lastBatch'[WorkerOf[q]]
  <2>1. PICK to \in {"receiving", "backoff", "handling", "ended"} : \E new \in Entry :
           PollerEffect(p, to, new)
    BY <1>3, PollerHasEffect DEF Poll
  <2>2. PICK new \in Entry : PollerEffect(p, to, new)
    BY <2>1
  <2>3. /\ at' = [at EXCEPT ![p] = to]
        /\ since' = [since EXCEPT ![p] = IF to = "ended" THEN None ELSE now]
    BY <2>2 DEF PollerEffect, Moves
  <2>t. at \in [Pollers -> Places] /\ since \in [Pollers -> Time \cup {None}]
        /\ lastBatch \in [Workers -> Time \cup {None}]
    BY DEF IndInv, TypeOK, HealthTypeOK, Places
  <2>4. CASE p = q
    <3>1. to = "handling"
      BY <2>3, <2>4, <2>t
    <3>2. lastBatch' = [lastBatch EXCEPT ![WorkerOf[q]] = now]
      BY <3>1, <2>2, <2>4 DEF PollerEffect, TakesBatch, KeepsBatches, DropsBatch
    <3> QED BY <3>1, <3>2, <2>3, <2>4, <2>t, <1>q
  <2>5. CASE p # q
    <3>1. WorkerOf[p] # WorkerOf[q] /\ WorkerOf[p] \in Workers
      BY <2>5, ConstantTypes DEF PollersOf
    <3>2. lastBatch'[WorkerOf[q]] = lastBatch[WorkerOf[q]]
      BY <3>1, <2>2, <2>t, <1>q DEF PollerEffect, TakesBatch, KeepsBatches, DropsBatch, BatchOver
    <3> QED BY <3>2, <2>3, <2>5, <2>t DEF SoleBatch
  <2> QED BY <2>4, <2>5
<1>4. CASE Signal \/ UncaughtException \/ PrepareFails
  BY <1>1, <1>4 DEF Signal, UncaughtException, PrepareFails, Shutdown, history
<1>5. CASE \E w \in Workers : WorkerSettles(w) \/ Sample(w)
  BY <1>1, <1>5 DEF WorkerSettles, Sample, SampleAnswers, SampleFails, history
<1>6. CASE GraceExpires \/ NaturalExit \/ Tick \/ TimeIsUp \/ Exited \/ UNCHANGED vars
  BY <1>1, <1>6 DEF GraceExpires, NaturalExit, Tick, TimePasses, TimeIsUp, Exited, vars,
                    healthVars, history
<1> QED BY <1>2, <1>3, <1>4, <1>5, <1>6 DEF Next

\* "Ready" is never a leftover of a worker that ended, of a batch past its
\* deadline without a later one of a sibling, or of an answer older than the
\* threshold.
THEOREM ReadyIsNoLeftover == Spec => []ReadyIsJustified
<1>1. IndInv /\ SoleBatch => ReadyIsJustified
  <2> SUFFICES ASSUME IndInv, SoleBatch, Ready, NEW w \in Workers
               PROVE  /\ worker[w] = "running"
                      /\ \A p \in PollersOf(w) : Overdue(p) => HiddenBySibling(p)
                      /\ Busy(w) \/ (lastAnswer[w] # None /\ now < lastAnswer[w] + WorkerStale)
    BY DEF ReadyIsJustified
  <2>1. registry[w] # None /\ registry[w].alive /\ ~Stale(registry[w])
    BY DEF Ready
  <2>2. EntryIsRight(w) /\ SettledIsDead(w)
    BY <2>1 DEF IndInv, RegistryIsRight
  <2>3. worker[w] = "running"
    BY <2>1, <2>2 DEF EntryIsRight, SettledIsDead, IndInv, TypeOK
  <2>4. PICK n \in Nat : n = Cardinality(Handling(w)) /\ (n = 0 <=> Handling(w) = {})
    <3>1. Cardinality(Pollers) \in Nat
      BY HealthConstants, FS_CardinalityType
    <3> QED BY <3>1, HandlingIsFinite
  <2>5. registry[w].processingCount = n
    BY <2>2, <2>4 DEF EntryIsRight
  <2>6. ASSUME NEW p \in PollersOf(w), Overdue(p)
        PROVE  HiddenBySibling(p)
    <3>0. p \in Pollers /\ WorkerOf[p] = w /\ at[p] = "handling"
      BY <2>6 DEF Overdue, PollersOf
    <3>1. Handling(w) # {} /\ n > 0
      BY <3>0, <2>4, <2>6 DEF Handling
    <3>2. lastBatch[w] # None /\ registry[w].processingDeadlineAt = lastBatch[w] + ProcessingDeadline[w]
      BY <3>1, <2>2 DEF EntryIsRight
    <3>3. ~(now >= registry[w].processingDeadlineAt)
      BY <3>1, <2>1, <2>5 DEF Stale
    <3>4. PICK b \in Nat, s \in Nat, d \in Nat :
             b = lastBatch[w] /\ s = since[p] /\ d = ProcessingDeadline[w]
      BY <3>0, <3>2, ConstantTypes DEF IndInv, TypeOK, HealthTypeOK, ClocksAgree
    <3>5. now \in Nat /\ now >= s + d /\ now < b + d
      BY <3>0, <3>2, <3>3, <3>4, <2>6, ConstantTypes DEF Overdue, IndInv, TypeOK, HealthTypeOK
    <3>6. s < b
      BY <3>4, <3>5
    <3>7. PollersOf(w) # {p}
      BY <3>0, <3>4, <3>6 DEF SoleBatch
    <3> QED BY <3>0, <3>2, <3>4, <3>5, <3>6, <3>7 DEF HiddenBySibling
  <2>7. CASE ~Busy(w)
    <3>1. n = 0
      BY <2>4, <2>7 DEF Handling, Busy
    <3>2. lastAnswer[w] # None /\ ~(now - lastAnswer[w] >= WorkerStale)
      BY <3>1, <2>1, <2>2, <2>5 DEF Stale, EntryIsRight
    <3>3. lastAnswer[w] \in Nat /\ WorkerStale \in Nat /\ now \in Nat
      BY <3>2, ConstantTypes DEF IndInv, TypeOK, HealthTypeOK
    <3>4. now < lastAnswer[w] + WorkerStale
      BY <3>2, <3>3
    <3> QED BY <2>3, <2>6, <3>2, <3>4
  <2> QED BY <2>3, <2>6, <2>7
<1>2. Init => SoleBatch
  BY DEF Init, HealthInit, SoleBatch
<1>3. IndInv /\ SoleBatch /\ [Next]_vars => SoleBatch'
  BY SoleBatchStep
<1> QED BY <1>1, <1>2, <1>3, IndInvHolds, PTL DEF Spec

\* No false alarm: without a fault the process is "ok" once every worker has
\* heard from SQS and was sampled, for any thresholds that leave room for a long
\* poll and a skipped sample (HealthDefaults).
THEOREM UndisturbedRaisesNoAlarm == Spec => []UndisturbedIsOk
<1>1. IndInv => UndisturbedIsOk
  <2> SUFFICES ASSUME IndInv, faults = 0, ~draining,
                      \A w \in Workers : registry[w] # None /\ registry[w].lastHeartbeat # None
                                                            /\ registry[w].sampledAt # None
               PROVE  Ready /\ ~Degraded
    BY DEF UndisturbedIsOk, Status
  <2>1. ASSUME NEW w \in Workers
        PROVE  /\ registry[w].alive /\ ~Stale(registry[w])
               /\ ~(now - registry[w].sampledAt >= TelemetryStale)
    <3>1. EntryIsRight(w) /\ CalmPollers(w) /\ CalmSampler(w)
      BY DEF IndInv, RegistryIsRight, Calm
    <3>2. PICK answer \in Nat : answer = lastAnswer[w] /\ answer = registry[w].lastHeartbeat /\ answer # None
      BY <3>1, ConstantTypes DEF EntryIsRight, IndInv, TypeOK, HealthTypeOK
    <3>3. registry[w].alive
      BY <3>1, <3>2 DEF CalmPollers
    <3>n. now \in Nat /\ WorkerStale \in Nat /\ ReceiveDeadline < WorkerStale /\ ReceiveDeadline \in Nat
          /\ TelemetryStale \in Nat /\ 2 < TelemetryStale
      BY ConstantTypes, HealthDefaults DEF IndInv, TypeOK, HealthTypeOK
    <3>4. PICK n \in Nat : n = Cardinality(Handling(w)) /\ (n = 0 <=> Handling(w) = {})
      <4>1. Cardinality(Pollers) \in Nat
        BY HealthConstants, FS_CardinalityType
      <4> QED BY <4>1, HandlingIsFinite
    <3>5. registry[w].processingCount = n
      BY <3>1, <3>4 DEF EntryIsRight
    <3>6. ASSUME Handling(w) = {} PROVE ~Stale(registry[w])
      <4>1. PICK p \in Pollers : WorkerOf[p] = w
        BY HealthConstants
      <4>2. at[p] = "receiving" /\ since[p] <= answer
        BY <3>1, <3>2, <3>6, <4>1 DEF CalmPollers, Handling, PollersOf
      <4>3. now <= since[p] + ReceiveDeadline /\ since[p] \in Nat
        BY <4>2, ConstantTypes DEF IndInv, ClocksAgree, TypeOK, HealthTypeOK
      <4>4. ~(now - answer >= WorkerStale)
        BY <4>2, <4>3, <3>2, <3>n
      <4> QED BY <4>4, <3>2, <3>4, <3>5, <3>6 DEF Stale
    <3>7. ASSUME Handling(w) # {} PROVE ~Stale(registry[w])
      <4>1. PICK p \in Pollers : p \in PollersOf(w) /\ at[p] = "handling" /\ WorkerOf[p] = w
        BY <3>7 DEF Handling, PollersOf
      <4>2. now < since[p] + ProcessingDeadline[w]
        BY <4>1, <3>1 DEF CalmPollers
      <4>3. PICK s \in Nat : s = since[p] /\ s <= lastBatch[w]
        BY <4>1, ConstantTypes DEF IndInv, ClocksAgree, TypeOK, HealthTypeOK
      <4>4. lastBatch[w] # None /\ registry[w].processingDeadlineAt = lastBatch[w] + ProcessingDeadline[w]
        BY <3>1, <3>7 DEF EntryIsRight
      <4>5. lastBatch[w] \in Nat /\ ProcessingDeadline[w] \in Nat
        BY <4>4, ConstantTypes DEF IndInv, TypeOK, HealthTypeOK
      <4>6. ~(now >= registry[w].processingDeadlineAt)
        BY <4>2, <4>3, <4>4, <4>5, <3>n
      <4>7. n > 0
        BY <3>4, <3>7
      <4> QED BY <4>6, <4>7, <3>5 DEF Stale
    <3>8. ~(now - registry[w].sampledAt >= TelemetryStale)
      <4>1. now <= registry[w].sampledAt + 2 \/ now <= registry[w].sampledAt + 1
        BY <3>1 DEF CalmSampler
      <4>2. registry[w].sampledAt \in Nat
        <5>1. registry[w] \in Entry
          BY DEF IndInv, TypeOK, HealthTypeOK
        <5> QED BY <5>1, ConstantTypes DEF Entry
      <4> QED BY <4>1, <4>2, <3>n
    <3> QED BY <3>3, <3>6, <3>7, <3>8
  <2>2. Ready
    BY <2>1 DEF Ready
  <2>3. ~Degraded
    BY <2>1 DEF Degraded
  <2> QED BY <2>2, <2>3
<1> QED BY <1>1, IndInvHolds, PTL

-----------------------------------------------------------------------------
(* The process implements WorkerGroup.                                     *)

\* The marks of life that WorkerGroup sees.
Marks(entries) == [w \in Workers |-> entries[w] # None /\ entries[w].alive]

\* An entry that is replaced changes its own mark only.
LEMMA OneMarkMoves ==
    ASSUME NEW w \in Workers, NEW new \in Entry, registry' = [registry EXCEPT ![w] = new],
           registry \in [Workers -> Entry \cup {None}]
    PROVE  Marks(registry') = [Marks(registry) EXCEPT ![w] = new.alive]
<1>1. registry'[w] = new /\ \A v \in Workers \ {w} : registry'[v] = registry[v]
  OBVIOUS
<1>2. new # None /\ new.alive \in BOOLEAN
  BY NoneIsNoEntry DEF Entry
<1>3. Marks(registry')[w] = new.alive
  BY <1>1, <1>2 DEF Marks
<1>4. \A v \in Workers \ {w} : Marks(registry')[v] = Marks(registry)[v]
  BY <1>1 DEF Marks
<1> QED BY <1>3, <1>4 DEF Marks

\* An entry that keeps its mark changes none.
LEMMA MarkStays ==
    ASSUME NEW w \in Workers, registry[w] \in Entry, registry \in [Workers -> Entry \cup {None}]
    PROVE  Marks(registry) = [Marks(registry) EXCEPT ![w] = registry[w].alive]
<1>1. registry[w] # None /\ registry[w].alive \in BOOLEAN
  BY NoneIsNoEntry DEF Entry
<1>2. Marks(registry)[w] = registry[w].alive
  BY <1>1 DEF Marks
<1> QED BY <1>2 DEF Marks

\* The head of the loop is that of the group.
LEMMA AgainIsAgain ==
    ASSUME NEW p \in Pollers
    PROVE  Group!Again(p) = Again(p)
BY DEF Group!Again, Group!PollersOf, Again, Aborted, PollersOf

\* A poller's step that gives the shared entry a new value is a move of the
\* group that sets the worker's mark.
LEMMA StepIsMove ==
    ASSUME IndInv, NEW p \in Pollers, NEW to, NEW new \in Entry, at[p] # "off",
           at' = [at EXCEPT ![p] = to],
           registry' = [registry EXCEPT ![WorkerOf[p]] = new],
           UNCHANGED <<draining, worker>>
    PROVE  Group!Move(p, at[p], to, new.alive)
<1>1. WorkerOf[p] \in Workers /\ registry \in [Workers -> Entry \cup {None}]
  BY ConstantTypes DEF IndInv, TypeOK, HealthTypeOK
<1>2. Marks(registry') = [Marks(registry) EXCEPT ![WorkerOf[p]] = new.alive]
  BY <1>1, OneMarkMoves
<1> QED BY <1>2 DEF Group!Move, Marks

\* The mark the group has for a poller at work is that of its entry.
LEMMA MarkIsEntry ==
    ASSUME IndInv, NEW p \in Pollers, at[p] \in {"receiving", "backoff", "handling"}
    PROVE  /\ registry[WorkerOf[p]] \in Entry
           /\ registry = [registry EXCEPT ![WorkerOf[p]] = registry[WorkerOf[p]]]
           /\ Group!Mark(p) = registry[WorkerOf[p]].alive
<1>1. WorkerOf[p] \in Workers /\ registry[WorkerOf[p]] \in Entry /\ registry[WorkerOf[p]] # None
  BY AtWorkIsRegistered
<1>2. registry[WorkerOf[p]].alive \in BOOLEAN
  BY <1>1 DEF Entry
<1> QED BY <1>1, <1>2 DEF Group!Mark, IndInv, TypeOK, HealthTypeOK

\* A step that keeps the sign of life of its entry is a move that keeps the mark.
LEMMA StepKeepsMark ==
    ASSUME IndInv, NEW p \in Pollers, NEW to, NEW new \in Entry,
           at[p] \in {"receiving", "backoff", "handling"},
           new.alive = registry[WorkerOf[p]].alive,
           at' = [at EXCEPT ![p] = to],
           registry' = [registry EXCEPT ![WorkerOf[p]] = new],
           UNCHANGED <<draining, worker>>
    PROVE  Group!Move(p, at[p], to, Group!Mark(p))
<1>1. Group!Mark(p) = new.alive
  BY MarkIsEntry
<1>2. Group!Move(p, at[p], to, new.alive)
  BY StepIsMove
<1> QED BY <1>1, <1>2, Zenon DEF Group!Move

\* An answer of SQS: nothing, or a batch.
LEMMA AnswerIsAnswer ==
    ASSUME IndInv, NEW p \in Pollers, EmptyPoll(p) \/ TakeBatch(p), UNCHANGED worker
    PROVE  Group!Answer(p)
<1> DEFINE old == registry[WorkerOf[p]]
<1>0. at[p] = "receiving" /\ ~draining /\ UNCHANGED draining
  BY DEF EmptyPoll, TakeBatch
<1>r. WorkerOf[p] \in Workers /\ p \in PollersOf(WorkerOf[p]) /\ old \in Entry
  BY <1>0, AtWorkIsRegistered
<1>t. now \in Time
  BY DEF IndInv, TypeOK, HealthTypeOK
<1>b. PICK beat \in Entry : beat = Heartbeat(old)
  BY <1>r, <1>t, HeartbeatFields
<1>f. beat.alive = TRUE /\ beat.processingCount = old.processingCount
  BY <1>b, <1>r, <1>t, HeartbeatFields
<1>1. CASE EmptyPoll(p)
  <2>1. at' = [at EXCEPT ![p] = Again(p)] /\ registry' = [registry EXCEPT ![WorkerOf[p]] = beat]
    BY <1>1, <1>b DEF EmptyPoll, Move, Update
  <2>2. Group!Move(p, "receiving", Again(p), TRUE)
    BY <2>1, <1>0, <1>f, StepIsMove
  <2> QED BY <2>2, <1>0, AgainIsAgain DEF Group!Answer
<1>2. CASE TakeBatch(p)
  <2>0. at' = [at EXCEPT ![p] = "handling"]
    BY <1>2 DEF TakeBatch, Move
  <2>c. beat.processingCount + 1 <= Cardinality(Pollers)
    <3>1. at \in [Pollers -> Places] /\ at[p] # "handling"
      BY <1>0 DEF IndInv, TypeOK, HealthTypeOK, Places
    <3>2. old.processingCount = Cardinality(Handling(WorkerOf[p]))
      BY <1>0, AtWorkIsRegistered DEF EntryIsRight
    <3> QED BY <3>1, <3>2, <2>0, <1>r, <1>f, OneMoreHandles
  <2>d. PICK deadline \in Nat : deadline = ProcessingDeadline[WorkerOf[p]]
    BY <1>r, ConstantTypes
  <2>1. PICK new \in Entry : new = BeginWorkerProcessing(beat, deadline)
    BY <2>c, <1>t, BeginFields
  <2>2. new.alive = TRUE
    BY <2>c, <2>1, <1>f, <1>t, BeginFields
  <2>3. registry' = [registry EXCEPT ![WorkerOf[p]] = new]
    BY <1>2, <1>b, <2>1, <2>d DEF TakeBatch, Update
  <2>4. Group!Move(p, "receiving", "handling", TRUE)
    BY <2>0, <2>2, <2>3, <1>0, StepIsMove
  <2> QED BY <2>4, <1>0 DEF Group!Answer
<1> QED BY <1>1, <1>2

\* A failed receive, an aborted one and the end of a backoff leave the mark.
LEMMA SilentStepsAreMoves ==
    ASSUME IndInv, NEW p \in Pollers, PollFails(p) \/ PollAborted(p) \/ BackoffEnds(p), UNCHANGED worker
    PROVE  Group!Fail(p) \/ Group!Abort(p) \/ Group!BackoffEnds(p)
<1>0. at[p] \in {"receiving", "backoff"} /\ UNCHANGED <<draining, registry>>
  BY DEF PollFails, PollAborted, BackoffEnds
<1>m. /\ registry[WorkerOf[p]] \in Entry
      /\ registry = [registry EXCEPT ![WorkerOf[p]] = registry[WorkerOf[p]]]
  BY <1>0, MarkIsEntry
<1>s. ASSUME NEW to, at' = [at EXCEPT ![p] = to] PROVE Group!Move(p, at[p], to, Group!Mark(p))
  <2>1. PICK new \in Entry : new = registry[WorkerOf[p]]
    BY <1>m
  <2>2. registry' = [registry EXCEPT ![WorkerOf[p]] = new] /\ new.alive = registry[WorkerOf[p]].alive
    BY <2>1, <1>0, <1>m
  <2> QED BY <2>2, <1>s, <1>0, StepKeepsMark
<1>1. CASE PollFails(p)
  BY <1>1, <1>s DEF PollFails, Move, Group!Fail
<1>2. CASE PollAborted(p)
  <2>1. Group!Again(p) = "ended"
    BY <1>2, AgainIsAgain DEF PollAborted, Again
  <2> QED BY <1>2, <1>s, <2>1 DEF PollAborted, Move, Group!Abort
<1>3. CASE BackoffEnds(p)
  <2>1. at[p] = "backoff" /\ at' = [at EXCEPT ![p] = Group!Again(p)]
    BY <1>3, AgainIsAgain DEF BackoffEnds, Move
  <2> QED BY <2>1, <1>s DEF Group!BackoffEnds
<1> QED BY <1>1, <1>2, <1>3

\* A batch is done, with or without something confirmed.
LEMMA BatchEndsAreMoves ==
    ASSUME IndInv, NEW p \in Pollers, BatchAcknowledged(p) \/ BatchLost(p), UNCHANGED worker
    PROVE  Group!Confirm(p) \/ Group!Fail(p)
<1> DEFINE old == registry[WorkerOf[p]]
<1>0. at[p] = "handling" /\ UNCHANGED draining
  BY DEF BatchAcknowledged, BatchLost
<1>m. old \in Entry
  BY <1>0, MarkIsEntry
<1>t. now \in Time
  BY DEF IndInv, TypeOK, HealthTypeOK
<1>e. PICK over \in Entry : over = EndWorkerProcessing(old)
  BY <1>m, EndFields
<1>f. over.alive = old.alive
  BY <1>e, <1>m, EndFields
<1>1. CASE BatchAcknowledged(p)
  <2>1. PICK new \in Entry : new = Heartbeat(over)
    BY <1>t, HeartbeatFields
  <2>2. new.alive = TRUE
    BY <2>1, <1>t, HeartbeatFields
  <2>3. registry' = [registry EXCEPT ![WorkerOf[p]] = new] /\ at' = [at EXCEPT ![p] = Again(p)]
    BY <1>1, <1>e, <2>1 DEF BatchAcknowledged, BatchHeartbeat, Update, Move
  <2>4. Group!Move(p, "handling", Again(p), TRUE)
    BY <2>2, <2>3, <1>0, StepIsMove
  <2> QED BY <2>4, AgainIsAgain DEF Group!Confirm
<1>2. CASE BatchLost(p)
  <2>1. registry' = [registry EXCEPT ![WorkerOf[p]] = over]
    BY <1>2, <1>e DEF BatchLost, Update
  <2>2. PICK to \in {Again(p), "backoff"} : at' = [at EXCEPT ![p] = to]
    BY <1>2 DEF BatchLost, Move
  <2>3. Group!Move(p, "handling", to, Group!Mark(p))
    BY <2>1, <2>2, <1>0, <1>f, StepKeepsMark
  <2> QED BY <2>2, <2>3, AgainIsAgain DEF Group!Fail
<1> QED BY <1>1, <1>2

\* The poller fails.
LEMMA PollerFailsIsGiveUp ==
    ASSUME IndInv, NEW p \in Pollers, PollerFails(p), UNCHANGED worker
    PROVE  Group!GiveUp(p)
<1> DEFINE old == registry[WorkerOf[p]]
<1>0. at[p] \in {"receiving", "handling"} /\ UNCHANGED draining /\ at' = [at EXCEPT ![p] = "ended"]
  BY DEF PollerFails, Move
<1>m. old \in Entry /\ Group!Mark(p) = old.alive
  BY <1>0, MarkIsEntry
<1>d. PICK dead \in Entry : dead = MarkWorkerDead(old)
  BY <1>m, DeadFields
<1>f. dead.alive = FALSE
  BY <1>d, <1>m, DeadFields
<1>1. CASE at[p] = "receiving"
  <2>1. registry' = [registry EXCEPT ![WorkerOf[p]] = dead]
    BY <1>1, <1>d DEF PollerFails, Update
  <2>2. Group!Move(p, "receiving", "ended", FALSE)
    BY <2>1, <1>0, <1>1, <1>f, StepIsMove
  <2> QED BY <2>2 DEF Group!GiveUp
<1>2. CASE at[p] = "handling"
  <2>1. PICK entry \in {old, dead} : registry' = [registry EXCEPT ![WorkerOf[p]] = EndWorkerProcessing(entry)]
    BY <1>2, <1>d DEF PollerFails, Update
  <2>2. PICK new \in Entry : new = EndWorkerProcessing(entry)
    BY <2>1, <1>m, EndFields
  <2>3. new.alive = entry.alive
    BY <2>1, <2>2, <1>m, EndFields
  <2>4. Group!Move(p, "handling", "ended", new.alive)
    BY <2>1, <2>2, <1>0, <1>2, StepIsMove
  <2>5. new.alive \in {Group!Mark(p), FALSE}
    BY <2>1, <2>3, <1>f, <1>m
  <2> QED BY <2>4, <2>5 DEF Group!GiveUp
<1> QED BY <1>0, <1>1, <1>2

\* The server comes up: before that no poller runs, and none has settled.
LEMMA PreparedIsStart ==
    ASSUME IndInv, Prepared
    PROVE  Group!Start
<1>1. \A w \in Workers : worker[w] = "none" /\ registry[w] = None
  BY DEF Prepared, IndInv, WatchedWhileServing, RegistryIsRight, EntryIsRight
<1>2. \A p \in Pollers : at[p] = "off"
  BY <1>1, ConstantTypes DEF IndInv, RegistryIsRight, Unregistered, PollersOf
<1>3. PICK started \in SUBSET Workers : StartWorkers(started)
  BY DEF Prepared
<1>4. at' \in [Pollers -> {"off", IF draining THEN "ended" ELSE "receiving"}] /\ UNCHANGED draining
  BY <1>3 DEF StartWorkers
<1>5. \A w \in Workers : ~(registry'[w] # None /\ registry'[w].alive)
  BY <1>3 DEF StartWorkers, Registered
<1>6. [w \in Workers |-> registry'[w] # None /\ registry'[w].alive] = [w \in Workers |-> FALSE]
  BY <1>5
<1>7. {w \in Workers : worker[w] = "settled"} = {} /\ {w \in Workers : worker'[w] = "settled"} = {}
  BY <1>1 DEF Prepared
<1> QED BY <1>2, <1>4, <1>6, <1>7 DEF Group!Start

\* A worker's promise settles, and its mark falls with it.
LEMMA SettlesIsSettle ==
    ASSUME IndInv, NEW w \in Workers, WorkerSettles(w)
    PROVE  Group!Settle(w)
<1>t. registry \in [Workers -> Entry \cup {None}] /\ worker \in [Workers -> {"none", "running", "settled"}]
      /\ server \in {"preparing", "listening", "closing", "failed"}
  BY DEF IndInv, TypeOK, HealthTypeOK
<1>1. worker[w] = "running" /\ worker' = [worker EXCEPT ![w] = "settled"] /\ UNCHANGED at
  BY DEF WorkerSettles
<1>2. \A p \in Group!PollersOf(w) : at[p] \in {"off", "ended"}
  BY DEF WorkerSettles, PollersEnded, Group!PollersOf, PollersOf
<1>3. {v \in Workers : worker'[v] = "settled"} = {v \in Workers : worker[v] = "settled"} \cup {w}
  BY <1>1, <1>t
<1>4. Marks(registry') = [Marks(registry) EXCEPT ![w] = FALSE]
  <2>1. CASE registry[w] = None
    <3>1. registry' = registry
      BY <2>1, <1>t DEF WorkerSettles, EndWorker
    <3> QED BY <2>1, <3>1 DEF Marks
  <2>2. CASE registry[w] # None
    <3>1. registry[w] \in Entry
      BY <2>2, <1>t
    <3>2. PICK new \in Entry : new = MarkWorkerDead(registry[w])
      BY <3>1, DeadFields
    <3>3. new.alive = FALSE
      BY <3>1, <3>2, DeadFields
    <3>4. registry' = [registry EXCEPT ![w] = new]
      BY <2>2, <3>2, <1>t DEF WorkerSettles, EndWorker
    <3> QED BY <3>3, <3>4, <1>t, OneMarkMoves
  <2> QED BY <2>1, <2>2
<1>5. draining' \in {draining, TRUE}
  <2>1. CASE IsUnexpected
    <3>1. InitiateShutdown(1, server)
      BY <2>1 DEF WorkerSettles
    <3> QED BY <3>1, <1>t, InitiateShutdownEffect
  <2>2. CASE ~IsUnexpected
    BY <2>2 DEF WorkerSettles
  <2> QED BY <2>1, <2>2
<1> QED BY <1>1, <1>2, <1>3, <1>4, <1>5 DEF Group!Settle, Marks

\* A sample changes no mark.
LEMMA SampleIsNothing ==
    ASSUME IndInv, NEW w \in Workers, Sample(w)
    PROVE  UNCHANGED Group!vars
<1>t. registry \in [Workers -> Entry \cup {None}] /\ now \in Time
  BY DEF IndInv, TypeOK, HealthTypeOK
<1>u. UNCHANGED <<at, draining, worker>> /\ w \in sampling
  BY DEF Sample, SampleAnswers, SampleFails, processVars
<1>1. Marks(registry') = Marks(registry)
  <2>1. CASE SampleAnswers(w)
    <3>0. registry[w] \in Entry
      BY <1>u, SampledIsRegistered
    <3>1. PICK new \in Entry : new = RecordQueueTelemetry(registry[w])
      BY <3>0, <1>t, SampleFields
    <3>2. new.alive = registry[w].alive
      BY <3>0, <3>1, <1>t, SampleFields
    <3>3. registry' = [registry EXCEPT ![w] = new]
      BY <2>1, <3>1 DEF SampleAnswers, Update
    <3>4. Marks(registry') = [Marks(registry) EXCEPT ![w] = new.alive]
      BY <3>3, <1>t, OneMarkMoves
    <3>5. Marks(registry) = [Marks(registry) EXCEPT ![w] = registry[w].alive]
      BY <3>0, <1>t, MarkStays
    <3> QED BY <3>2, <3>4, <3>5, Zenon
  <2>2. CASE SampleFails(w)
    BY <2>2 DEF SampleFails
  <2> QED BY <2>1, <2>2 DEF Sample
<1> QED BY <1>1, <1>u DEF Group!vars, Marks

\* The process with its reduced pollers implements the group that SqsWorker
\* implements with the pollers in full: what it leaves out of a poller changes
\* neither the places nor the marks of life that the supervisor, the health
\* endpoints and the shutdown go by.
THEOREM ProcessImplementsGroup == Spec => ImplementsGroups
<1>1. Init => Group!Init
  BY DEF Init, HealthInit, Group!Init
<1>2. IndInv /\ [Next]_vars => [Group!Next]_(Group!vars)
  <2> SUFFICES ASSUME IndInv, [Next]_vars PROVE Group!Next \/ UNCHANGED Group!vars
    OBVIOUS
  <2>1. CASE Signal \/ UncaughtException \/ PrepareFails
    <3>1. UNCHANGED <<at, registry, worker>>
      BY <2>1 DEF Signal, UncaughtException, Shutdown, PrepareFails
    <3>2. PICK code \in {0, 1}, serverNow \in {server, "failed"} : InitiateShutdown(code, serverNow)
      BY <2>1 DEF Signal, UncaughtException, Shutdown, PrepareFails
    <3>3. serverNow \in {"preparing", "listening", "closing", "failed"}
      BY <3>2 DEF IndInv, TypeOK
    <3>4. draining' = TRUE
      BY <3>2, <3>3, InitiateShutdownEffect
    <3>5. Group!RequestShutdown
      BY <3>1, <3>4 DEF Group!RequestShutdown
    <3> QED BY <3>5 DEF Group!Next
  <2>2. CASE Prepared
    BY <2>2, PreparedIsStart DEF Group!Next
  <2>3. ASSUME NEW w \in Workers, WorkerSettles(w) PROVE Group!Next
    BY <2>3, SettlesIsSettle DEF Group!Next
  <2>4. ASSUME NEW w \in Workers, Sample(w) PROVE UNCHANGED Group!vars
    BY <2>4, SampleIsNothing
  <2>5. ASSUME NEW p \in Pollers, Poll(p) PROVE Group!Next
    <3>1. UNCHANGED worker /\ PollerStep(p)
      BY <2>5 DEF Poll, processVars
    <3>2. \/ Group!Answer(p) \/ Group!Fail(p) \/ Group!BackoffEnds(p)
          \/ Group!Confirm(p) \/ Group!Abort(p) \/ Group!GiveUp(p)
      BY <3>1, AnswerIsAnswer, SilentStepsAreMoves, BatchEndsAreMoves, PollerFailsIsGiveUp DEF PollerStep
    <3> QED BY <3>2 DEF Group!Next
  <2>6. CASE UNCHANGED <<at, draining, registry, worker>>
    BY <2>6 DEF Group!vars
  <2> QED BY <2>1, <2>2, <2>3, <2>4, <2>5, <2>6 DEF Next, GraceExpires, NaturalExit, Tick, TimePasses,
             TimeIsUp, Exited, vars, healthVars, processVars
<1> QED BY <1>1, <1>2, IndInvHolds, PTL DEF Spec, ImplementsGroups, Group!Spec

=============================================================================
