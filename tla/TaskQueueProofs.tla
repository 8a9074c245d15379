-------------------------- MODULE TaskQueueProofs --------------------------
(***************************************************************************)
(* Proofs about TaskQueue, for any tasks, waiters and limits: however      *)
(* enqueue, settling tasks and the timer interleave, one delay is pending  *)
(* at a time, a caller that waited is told of every task of its round, and *)
(* the array with its pointer is the pool of TaskPool.                     *)
(***************************************************************************)
EXTENDS TaskQueue, FiniteSetTheorems, SequenceTheorems, TLAPS

\* The flag and the pending delay go together, and there is one delay.
PumpInv ==
    /\ isProcessing \in BOOLEAN
    /\ timers \in {0, 1}
    /\ PumpIsOne

\* A turn of the loop that is entered with no delay pending keeps the flag and
\* the delay together.
LEMMA TurnKeepsPump ==
    ASSUME NEW q, NEW h, NEW running, NEW st, Turn(q, h, running, st, 0)
    PROVE  PumpInv'
  <1>1. \/ isProcessing' = TRUE /\ timers' = 0 + 1
        \/ isProcessing' = FALSE /\ timers' = 0
    BY DEF Turn
  <1>2. CASE isProcessing' = TRUE /\ timers' = 0 + 1
    <2>1. timers' = 1
      BY <1>2
    <2> QED
      BY <1>2, <2>1, Zenon DEF PumpInv, PumpIsOne
  <1>3. CASE isProcessing' = FALSE /\ timers' = 0
    <2>1. timers' # 1
      BY <1>3
    <2> QED
      BY <1>3, <2>1, Zenon DEF PumpInv, PumpIsOne
  <1> QED
    BY <1>1, <1>2, <1>3

\* process() keeps them together: it returns at once while a pump sleeps, and
\* otherwise no delay is pending.
LEMMA ProcessKeepsPump ==
    ASSUME PumpInv, NEW q, NEW h, NEW running, NEW st, Process(q, h, running, st)
    PROVE  PumpInv'
  <1>1. CASE isProcessing
    BY <1>1 DEF Process, PumpInv, PumpIsOne
  <1>2. CASE ~isProcessing
    <2>1. timers = 0
      BY <1>2 DEF PumpInv, PumpIsOne
    <2>2. Turn(q, h, running, st, 0)
      BY <1>2, <2>1 DEF Process
    <2> QED
      BY <2>2, TurnKeepsPump
  <1> QED
    BY <1>1, <1>2 DEF PumpInv

\* Every step of the queue keeps them together.
LEMMA PumpStep == PumpInv /\ [Next]_vars => PumpInv'
  <1> SUFFICES ASSUME PumpInv, [Next]_vars PROVE PumpInv'
    OBVIOUS
  <1>1. ASSUME NEW t \in Tasks, Enqueue(t) PROVE PumpInv'
    BY <1>1, ProcessKeepsPump DEF Enqueue
  <1>2. ASSUME NEW t \in Tasks, NEW result \in {"ok", "failed"}, ExecuteTaskEnds(t, result)
        PROVE  PumpInv'
    <2> DEFINE st == [state EXCEPT ![t] = result]
    <2>1. CASE Finished(queue, head, runningCount - 1)
      BY <1>2, <2>1 DEF ExecuteTaskEnds, PumpInv, PumpIsOne
    <2>2. CASE ~Finished(queue, head, runningCount - 1)
      <3>1. Process(queue, head, runningCount - 1, st)
        BY <1>2, <2>2 DEF ExecuteTaskEnds, AfterTask
      <3> QED
        BY <3>1, ProcessKeepsPump
    <2> QED
      BY <2>1, <2>2
  <1>3. CASE DelayElapses
    <2> DEFINE cut == Cleaned(queue, head)
    <2>1. timers = 1
      BY <1>3 DEF DelayElapses, PumpInv
    <2>2. Turn(cut[1], cut[2], runningCount, state, 0)
      BY <1>3, <2>1 DEF DelayElapses
    <2> QED
      BY <2>2, TurnKeepsPump
  <1>4. ASSUME NEW w \in Waiters, WaitUntilFinished(w) PROVE PumpInv'
    BY <1>4 DEF WaitUntilFinished, PumpInv, PumpIsOne
  <1>5. CASE Clear
    BY <1>5 DEF Clear, PumpInv, PumpIsOne
  <1>6. CASE UNCHANGED vars
    BY <1>6 DEF vars, PumpInv, PumpIsOne
  <1> QED
    BY <1>1, <1>2, <1>3, <1>4, <1>5, <1>6 DEF Next

\* Two tasks never start within one delay of each other: the guard of
\* process() makes the three callers of the pump one pump.
THEOREM StartsSpaced == Spec => []StartsAreSpaced
  <1>1. Init => PumpInv
    <2>1. 0 # 1
      OBVIOUS
    <2> QED
      BY <2>1, Zenon DEF Init, PumpInv, PumpIsOne
  <1>2. PumpInv => StartsAreSpaced
    BY DEF PumpInv, StartsAreSpaced
  <1> QED
    BY <1>1, <1>2, PumpStep, PTL DEF Spec

-----------------------------------------------------------------------------
(* The tasks and the statistics.                                           *)

TaskStates == {"fresh", "queued", "running", "ok", "failed", "dropped"}
Final == {"ok", "failed", "dropped"}

Running(st) == {t \in Tasks : st[t] = "running"}
SettledOf(S, st) == {t \in S : st[t] \in {"ok", "failed"}}
FailedOf(S, st) == {t \in S : st[t] = "failed"}

\* From head on the array holds each queued task once, and the counter counts
\* the running ones: what the pump relies on, of the values it works with.
Sound(q, h, running, st) ==
    /\ q \in Seq(Tasks) /\ h \in 0..Len(q)
    /\ st \in [Tasks -> TaskStates]
    /\ running \in 0..MaxConcurrent /\ running = Cardinality(Running(st))
    /\ \A i \in (h + 1)..Len(q) : st[q[i]] = "queued"
    /\ \A i, j \in (h + 1)..Len(q) : q[i] = q[j] => i = j
    /\ \A t \in Tasks : st[t] = "queued" => \E i \in (h + 1)..Len(q) : q[i] = t

\* Tasks that are not over belong to the current round, which lasts as long as
\* there are any; its counters count.
RoundIsOpen ==
    /\ epoch \subseteq Tasks
    /\ \A t \in epoch : state[t] # "fresh"
    /\ \A t \in Tasks : state[t] \in {"queued", "running"} => started /\ t \in epoch
    /\ \A w \in Waiters : waiter[w] = "waiting" => started

Counted ==
    /\ settledCount = Cardinality(SettledOf(epoch, state))
    /\ failedCount = Cardinality(FailedOf(epoch, state))

IndInv ==
    /\ PumpInv
    /\ started \in BOOLEAN
    /\ waiter \in [Waiters -> {"idle", "waiting", "resolved"}]
    /\ report \in [Waiters -> [tasks: SUBSET Tasks, settled: Nat, failed: Nat]]
    /\ Sound(queue, head, runningCount, state)
    /\ RoundIsOpen
    /\ Counted
    /\ ReportIsComplete

-----------------------------------------------------------------------------
(* The pump.                                                               *)

\* What is left to start, as the mapping to TaskPool reads it.
Rest(q, h) == SubSeq(q, h + 1, Len(q))

\* The pump moves tasks from queued to running and does nothing else to them.
OnlyStarts(st) ==
    \A t \in Tasks : state'[t] = st[t] \/ (st[t] = "queued" /\ state'[t] = "running")

\* It starts the first one of what is left, below the limit, or none.
StartsFirst(q, h, st) ==
    \/ Rest(queue', head') = Rest(q, h) /\ Running(state') = Running(st)
    \/ /\ Rest(q, h) # <<>> /\ Cardinality(Running(st)) < MaxConcurrent
       /\ Rest(queue', head') = Tail(Rest(q, h))
       /\ Running(state') = Running(st) \cup {Head(Rest(q, h))}

Pumped(q, h, running, st) ==
    /\ Sound(queue', head', runningCount', state')
    /\ OnlyStarts(st)
    /\ StartsFirst(q, h, st)

LEMMA SubsetsOfTasks ==
    ASSUME NEW S \in SUBSET Tasks
    PROVE  IsFiniteSet(S) /\ Cardinality(S) \in Nat /\ Cardinality(S) <= Cardinality(Tasks)
           /\ (Cardinality(S) = 0 <=> S = {}) /\ Cardinality(Tasks) \in Nat
  BY QueueConstants, FS_Subset, FS_CardinalityType, FS_EmptySet

LEMMA NothingStarts ==
    ASSUME NEW q, NEW h, NEW running, NEW st, Sound(q, h, running, st),
           queue' = q, head' = h, runningCount' = running, state' = st
    PROVE  Pumped(q, h, running, st)
  BY DEF Pumped, OnlyStarts, StartsFirst

\* A turn of the loop: the task at head starts, or nothing happens.
LEMMA TurnIsSound ==
    ASSUME NEW q, NEW h, NEW running, NEW st, NEW pendingTimers,
           Sound(q, h, running, st), Turn(q, h, running, st, pendingTimers)
    PROVE  Pumped(q, h, running, st)
<1>1. CASE h < Len(q) /\ ~Full(running) /\ queue' = q /\ head' = h + 1 /\ runningCount' = running + 1
           /\ state' = [st EXCEPT ![q[h + 1]] = "running"]
  <2> DEFINE first == q[h + 1]
  <2>0. /\ q \in Seq(Tasks) /\ h \in Nat /\ Len(q) \in Nat /\ h + 1 \in 1..Len(q) /\ h + 1 \in (h + 1)..Len(q)
        /\ st \in [Tasks -> TaskStates] /\ running \in Nat /\ MaxConcurrent \in Nat
        /\ running < MaxConcurrent
    BY <1>1, QueueConstants DEF Sound, Full
  <2>1. first \in Tasks /\ st[first] = "queued"
    BY <2>0 DEF Sound
  <2>2. state' \in [Tasks -> TaskStates] /\ state'[first] = "running"
        /\ \A t \in Tasks : t # first => state'[t] = st[t]
    BY <1>1, <2>0, <2>1 DEF TaskStates
  <2> HIDE DEF first
  <2>3. Running(state') = Running(st) \cup {first} /\ first \notin Running(st)
    BY <2>1, <2>2 DEF Running
  <2>4. Cardinality(Running(state')) = running + 1
    <3>1. IsFiniteSet(Running(st)) /\ Cardinality(Running(st)) = running
      BY SubsetsOfTasks DEF Running, Sound
    <3> QED BY <2>3, <3>1, FS_AddElement
  <2>5. \A i \in (head' + 1)..Len(q) : q[i] # first /\ i \in (h + 1)..Len(q) /\ q[i] \in Tasks
    BY <1>1, <2>0 DEF Sound, first
  <2>6. \A t \in Tasks : state'[t] = "queued" => \E i \in (head' + 1)..Len(q) : q[i] = t
    <3> SUFFICES ASSUME NEW t \in Tasks, state'[t] = "queued" PROVE \E i \in (head' + 1)..Len(q) : q[i] = t
      OBVIOUS
    <3>1. t # first /\ st[t] = "queued"
      BY <2>2
    <3>2. PICK i \in (h + 1)..Len(q) : q[i] = t
      BY <3>1 DEF Sound
    <3>3. i # h + 1
      BY <3>1, <3>2 DEF first
    <3> QED BY <1>1, <2>0, <3>2, <3>3
  <2>7. Sound(queue', head', runningCount', state')
    BY <1>1, <2>0, <2>2, <2>4, <2>5, <2>6 DEF Sound
  <2>8. OnlyStarts(st)
    BY <2>1, <2>2 DEF OnlyStarts
  <2>9. StartsFirst(q, h, st)
    <3>1. Head(Rest(q, h)) = first /\ Tail(Rest(q, h)) = Rest(q, h + 1)
      BY <2>0, HeadTailOfSubSeq DEF Rest, first
    <3>2. Rest(q, h) # <<>>
      <4>1. \A i \in (h + 1)..Len(q) : q[i] \in Tasks
        BY <2>0
      <4>2. Len(Rest(q, h)) = IF h + 1 <= Len(q) THEN Len(q) - (h + 1) + 1 ELSE 0
        BY <2>0, <4>1, SubSeqProperties DEF Rest
      <4> QED BY <2>0, <4>2
    <3> QED BY <1>1, <2>0, <2>3, <3>1, <3>2 DEF StartsFirst, Sound
  <2> QED BY <2>7, <2>8, <2>9 DEF Pumped
<1>2. CASE queue' = q /\ head' = h /\ runningCount' = running /\ state' = st
  BY <1>2, NothingStarts
<1> QED BY <1>1, <1>2 DEF Turn

LEMMA ProcessIsSound ==
    ASSUME NEW q, NEW h, NEW running, NEW st, Sound(q, h, running, st), Process(q, h, running, st)
    PROVE  Pumped(q, h, running, st)
  BY NothingStarts, TurnIsSound DEF Process

\* Cutting the array at head loses and repeats nothing.
LEMMA CutIsSound ==
    ASSUME NEW q, NEW h, NEW running, NEW st, Sound(q, h, running, st)
    PROVE  LET cut == Cleaned(q, h) IN Sound(cut[1], cut[2], running, st) /\ Rest(cut[1], cut[2]) = Rest(q, h)
<1> DEFINE r == Rest(q, h)
<1>0. q \in Seq(Tasks) /\ h \in Nat /\ Len(q) \in Nat /\ h <= Len(q) /\ \A i \in (h + 1)..Len(q) : q[i] \in Tasks
  BY DEF Sound
<1>1. r \in Seq(Tasks) /\ Len(r) = Len(q) - h /\ \A i \in 1..(Len(q) - h) : r[i] = q[h + i]
  <2>1. /\ r \in Seq(Tasks) /\ Len(r) = IF h + 1 <= Len(q) THEN Len(q) - (h + 1) + 1 ELSE 0
        /\ \A i \in 1..(Len(q) - (h + 1) + 1) : r[i] = q[(h + 1) + i - 1]
    BY <1>0, SubSeqProperties DEF Rest
  <2>2. Len(r) = Len(q) - h
    BY <1>0, <2>1
  <2>3. ASSUME NEW i \in 1..(Len(q) - h) PROVE r[i] = q[h + i]
    <3>1. i \in 1..(Len(q) - (h + 1) + 1) /\ (h + 1) + i - 1 = h + i
      BY <1>0
    <3> QED BY <2>1, <3>1
  <2> QED BY <2>1, <2>2, <2>3
<1> HIDE DEF r
<1>2. \A i \in 1..Len(r) : h + i \in (h + 1)..Len(q) /\ r[i] = q[h + i]
  BY <1>0, <1>1
<1>3. Sound(r, 0, running, st)
  <2>1. \A i \in 1..Len(r) : st[r[i]] = "queued"
    BY <1>2 DEF Sound
  <2>2. \A i, j \in 1..Len(r) : r[i] = r[j] => i = j
    <3> SUFFICES ASSUME NEW i \in 1..Len(r), NEW j \in 1..Len(r), r[i] = r[j] PROVE i = j
      OBVIOUS
    <3>1. h + i = h + j
      BY <1>2 DEF Sound
    <3> QED BY <1>0, <3>1
  <2>3. ASSUME NEW t \in Tasks, st[t] = "queued" PROVE \E i \in 1..Len(r) : r[i] = t
    <3>1. PICK j \in (h + 1)..Len(q) : q[j] = t
      BY <2>3 DEF Sound
    <3>2. PICK i \in 1..Len(r) : j = h + i
      BY <1>0, <1>1, <3>1
    <3> QED BY <1>2, <3>1, <3>2
  <2>4. 0 \in 0..Len(r) /\ 0 + 1 = 1
    BY <1>1, <1>0
  <2> QED BY <1>1, <2>1, <2>2, <2>3, <2>4 DEF Sound
<1>4. Rest(r, 0) = r
  BY <1>1, SubSeqFull DEF Rest
<1>5. Cleaned(q, h) = <<r, 0>> \/ Cleaned(q, h) = <<q, h>>
  BY DEF Cleaned, r, Rest
<1> QED BY <1>3, <1>4, <1>5 DEF r

-----------------------------------------------------------------------------
(* The reports.                                                            *)

\* A report that is complete, in the task states st.
Complete(r, st) ==
    /\ \A t \in r.tasks : st[t] \in Final
    /\ r.settled = Cardinality(SettledOf(r.tasks, st))
    /\ r.failed = Cardinality(FailedOf(r.tasks, st))

LEMMA ReportsAreComplete ==
    ReportIsComplete <=> \A w \in Waiters : waiter[w] = "resolved" => Complete(report[w], state)
  BY DEF ReportIsComplete, Complete, Final, SettledOf, FailedOf

\* No step takes a task out of its final state.
FinalStays == \A t \in Tasks : state[t] \in Final => state'[t] = state[t]

\* So that a report stays complete once given.
LEMMA ReportStaysComplete ==
    ASSUME FinalStays, NEW r, r.tasks \subseteq Tasks, Complete(r, state)
    PROVE  Complete(r, state')
<1>1. \A t \in r.tasks : state'[t] = state[t]
  BY DEF FinalStays, Complete
<1>2. SettledOf(r.tasks, state') = SettledOf(r.tasks, state)
  BY <1>1 DEF SettledOf
<1>3. FailedOf(r.tasks, state') = FailedOf(r.tasks, state)
  BY <1>1 DEF FailedOf
<1> QED BY <1>1, <1>2, <1>3 DEF Complete

\* What a waiter is told when nothing of the round is queued or runs.
LEMMA RoundReportIsComplete ==
    ASSUME RoundIsOpen', Counted', state' \in [Tasks -> TaskStates],
           \A t \in Tasks : state'[t] \notin {"queued", "running"}
    PROVE  Complete([tasks |-> epoch', settled |-> settledCount', failed |-> failedCount'], state')
<1> DEFINE r == [tasks |-> epoch', settled |-> settledCount', failed |-> failedCount']
<1>1. r.tasks = epoch' /\ r.settled = settledCount' /\ r.failed = failedCount'
  OBVIOUS
<1>2. \A t \in epoch' : state'[t] \in Final
  BY DEF RoundIsOpen, TaskStates, Final
<1> HIDE DEF r
<1>3. Complete(r, state')
  BY <1>1, <1>2 DEF Complete, Counted
<1> QED BY <1>3 DEF r

\* A step that resolves no waiter keeps the reports.
LEMMA NobodyIsToldKeepsReports ==
    ASSUME IndInv, FinalStays, waiter' \in [Waiters -> {"idle", "waiting", "resolved"}], report' = report,
           \A w \in Waiters : waiter'[w] = "resolved" => waiter[w] = "resolved"
    PROVE  ReportIsComplete'
<1> SUFFICES ASSUME NEW w \in Waiters, waiter'[w] = "resolved" PROVE Complete(report'[w], state')
  BY ReportsAreComplete DEF ReportIsComplete, Complete, Final, SettledOf, FailedOf
<1>1. waiter[w] = "resolved" /\ Complete(report[w], state)
  BY ReportsAreComplete DEF IndInv
<1>2. report[w].tasks \subseteq Tasks
  BY DEF IndInv
<1> QED BY <1>1, <1>2, ReportStaysComplete

\* triggerFinish: everybody who waits is told the statistics of a round that is
\* over.
LEMMA FinishKeepsReports ==
    ASSUME IndInv, FinalStays, RoundIsOpen', Counted', epoch' = epoch, state' \in [Tasks -> TaskStates],
           TriggerFinish(settledCount', failedCount'),
           \A t \in Tasks : state'[t] \notin {"queued", "running"}
    PROVE  /\ ReportIsComplete'
           /\ waiter' \in [Waiters -> {"idle", "waiting", "resolved"}]
           /\ report' \in [Waiters -> [tasks: SUBSET Tasks, settled: Nat, failed: Nat]]
<1> DEFINE told == [tasks |-> epoch, settled |-> settledCount', failed |-> failedCount']
<1>1. Complete(told, state')
  BY RoundReportIsComplete
<1>2. told \in [tasks: SUBSET Tasks, settled: Nat, failed: Nat]
  <2>1. SettledOf(epoch', state') \in SUBSET Tasks /\ FailedOf(epoch', state') \in SUBSET Tasks
    BY DEF RoundIsOpen, SettledOf, FailedOf
  <2>2. settledCount' \in Nat /\ failedCount' \in Nat
    BY <2>1, SubsetsOfTasks DEF Counted
  <2> QED BY <2>2 DEF IndInv, RoundIsOpen
<1> HIDE DEF told
<1>3. CASE started
  <2>1. /\ waiter' = [w \in Waiters |-> IF waiter[w] = "waiting" THEN "resolved" ELSE waiter[w]]
        /\ report' = [w \in Waiters |-> IF waiter[w] = "waiting" THEN told ELSE report[w]]
    BY <1>3 DEF TriggerFinish, told
  <2>2. waiter' \in [Waiters -> {"idle", "waiting", "resolved"}]
    BY <2>1 DEF IndInv
  <2>3. report' \in [Waiters -> [tasks: SUBSET Tasks, settled: Nat, failed: Nat]]
    BY <1>2, <2>1 DEF IndInv
  <2>4. ASSUME NEW w \in Waiters, waiter'[w] = "resolved" PROVE Complete(report'[w], state')
    <3>1. CASE waiter[w] = "waiting"
      BY <1>1, <2>1, <3>1
    <3>2. CASE waiter[w] # "waiting"
      <4>1. report'[w] = report[w] /\ waiter[w] = "resolved"
        BY <2>1, <2>4, <3>2
      <4>2. Complete(report[w], state) /\ report[w].tasks \subseteq Tasks
        BY <4>1, ReportsAreComplete DEF IndInv
      <4> QED BY <4>1, <4>2, ReportStaysComplete
    <3> QED BY <3>1, <3>2
  <2> QED BY <2>2, <2>3, <2>4 DEF ReportIsComplete, Complete, Final, SettledOf, FailedOf
<1>4. CASE ~started
  <2>1. waiter' = waiter /\ report' = report
    BY <1>4 DEF TriggerFinish
  <2> QED BY <2>1, NobodyIsToldKeepsReports DEF IndInv
<1> QED BY <1>3, <1>4

-----------------------------------------------------------------------------
(* The values with which the operations call the pump.                     *)

Submitted(t) == [state EXCEPT ![t] = "queued"]
Ended(t, result) == [state EXCEPT ![t] = result]

LEMMA EnqueueIsSound ==
    ASSUME IndInv, NEW t \in Tasks, state[t] = "fresh"
    PROVE  /\ Sound(Append(queue, t), head, runningCount, Submitted(t))
           /\ Rest(Append(queue, t), head) = Append(Rest(queue, head), t)
           /\ Running(Submitted(t)) = Running(state)
<1> DEFINE q == Append(queue, t)
           st == Submitted(t)
           r == Rest(queue, head)
<1>0. /\ queue \in Seq(Tasks) /\ head \in Nat /\ Len(queue) \in Nat /\ head <= Len(queue)
      /\ state \in [Tasks -> TaskStates] /\ \A i \in (head + 1)..Len(queue) : queue[i] \in Tasks
      /\ Sound(queue, head, runningCount, state)
  BY DEF IndInv, Sound
<1>1. q \in Seq(Tasks) /\ Len(q) = Len(queue) + 1 /\ q[Len(queue) + 1] = t
      /\ \A i \in 1..Len(queue) : q[i] = queue[i]
  BY <1>0, AppendProperties
<1>2. st \in [Tasks -> TaskStates] /\ st[t] = "queued" /\ \A u \in Tasks : u # t => st[u] = state[u]
  BY <1>0 DEF Submitted, TaskStates
<1> HIDE DEF q, st
<1>3. Running(st) = Running(state)
  BY <1>2 DEF Running
<1>4. \A i \in (head + 1)..Len(q) : \/ i = Len(queue) + 1 /\ q[i] = t
                                    \/ /\ i \in (head + 1)..Len(queue) /\ q[i] = queue[i]
                                       /\ queue[i] \in Tasks /\ queue[i] # t
  BY <1>0, <1>1 DEF Sound
<1>5. \A i \in (head + 1)..Len(q) : st[q[i]] = "queued"
  BY <1>2, <1>4, <1>0 DEF Sound
<1>6. \A i, j \in (head + 1)..Len(q) : q[i] = q[j] => i = j
  BY <1>4, <1>0 DEF Sound
<1>7. ASSUME NEW u \in Tasks, st[u] = "queued" PROVE \E i \in (head + 1)..Len(q) : q[i] = u
  <2>1. CASE u = t
    BY <1>0, <1>1, <2>1
  <2>2. CASE u # t
    <3>1. PICK i \in (head + 1)..Len(queue) : queue[i] = u
      BY <1>0, <1>2, <1>7, <2>2 DEF Sound
    <3> QED BY <1>0, <1>1, <3>1
  <2> QED BY <2>1, <2>2
<1>8. Sound(q, head, runningCount, st)
  BY <1>0, <1>1, <1>2, <1>3, <1>5, <1>6, <1>7 DEF Sound
<1>9. Rest(q, head) = Append(r, t)
  <2>1. q[Len(q)] = t /\ Len(q) - 1 = Len(queue) /\ head + 1 \in 1..Len(q) /\ Len(q) \in (head + 1)..Len(q)
    BY <1>0, <1>1
  <2>2. Rest(q, head) = SubSeq(q, head + 1, Len(queue)) \o <<t>>
    BY <1>1, <2>1, SubSeqRecursiveSecond DEF Rest
  <2>3. \A i \in (head + 1)..Len(queue) : q[i] = queue[i] /\ q[i] \in Tasks
    BY <1>0, <1>1
  <2>4. SubSeq(q, head + 1, Len(queue)) = r /\ r \in Seq(Tasks)
    <3> DEFINE a == SubSeq(q, head + 1, Len(queue))
               m == head + 1
               n == Len(queue)
    <3>1. /\ a \in Seq(Tasks) /\ Len(a) = IF m <= n THEN n - m + 1 ELSE 0
          /\ \A i \in 1..(n - m + 1) : a[i] = q[m + i - 1]
      BY <1>0, <2>3, SubSeqProperties
    <3>2. /\ r \in Seq(Tasks) /\ Len(r) = IF m <= n THEN n - m + 1 ELSE 0
          /\ \A i \in 1..(n - m + 1) : r[i] = queue[m + i - 1]
      BY <1>0, SubSeqProperties DEF Rest
    <3>3. \A i \in 1..(n - m + 1) : m + i - 1 \in (head + 1)..Len(queue)
      BY <1>0
    <3> HIDE DEF a, r
    <3>4. Len(a) = Len(r) /\ \A i \in 1..Len(a) : a[i] = r[i]
      BY <1>0, <2>3, <3>1, <3>2, <3>3
    <3> QED BY <3>1, <3>2, <3>4, SeqEqual DEF a
  <2> QED BY <2>2, <2>4, AppendIsConcat
<1> QED BY <1>3, <1>8, <1>9 DEF q, st

LEMMA EndIsSound ==
    ASSUME IndInv, NEW t \in Tasks, state[t] = "running", NEW result \in {"ok", "failed"}
    PROVE  /\ Sound(queue, head, runningCount - 1, Ended(t, result))
           /\ Running(Ended(t, result)) = Running(state) \ {t}
<1> DEFINE st == Ended(t, result)
<1>0. Sound(queue, head, runningCount, state) /\ state \in [Tasks -> TaskStates]
  BY DEF IndInv, Sound
<1>1. st \in [Tasks -> TaskStates] /\ st[t] = result /\ \A u \in Tasks : u # t => st[u] = state[u]
  BY <1>0 DEF Ended, TaskStates
<1> HIDE DEF st
<1>2. Running(st) = Running(state) \ {t} /\ t \in Running(state)
  BY <1>1 DEF Running
<1>3. Cardinality(Running(st)) = runningCount - 1 /\ runningCount - 1 \in 0..MaxConcurrent
  <2>1. IsFiniteSet(Running(state)) /\ Cardinality(Running(state)) = runningCount
        /\ Cardinality(Running(st)) \in Nat
    BY <1>0, SubsetsOfTasks DEF Running, Sound
  <2>2. Cardinality(Running(st)) = runningCount - 1
    BY <1>2, <2>1, FS_RemoveElement
  <2> QED BY <1>0, <2>1, <2>2, QueueConstants DEF Sound
<1>4. \A i \in (head + 1)..Len(queue) : queue[i] \in Tasks /\ queue[i] # t
  BY <1>0 DEF Sound
<1> QED BY <1>0, <1>1, <1>2, <1>3, <1>4 DEF Sound, st

-----------------------------------------------------------------------------
(* The operations.                                                         *)

LEMMA StepKeepsPump == ASSUME IndInv, Next PROVE PumpInv'
  BY PumpStep DEF IndInv

\* enqueue: the task belongs to the round in progress, or opens one.
LEMMA EnqueueKeeps == ASSUME IndInv, NEW t \in Tasks, Enqueue(t) PROVE IndInv'
<1> DEFINE st == Submitted(t)
<1>0. state \in [Tasks -> TaskStates] /\ state[t] = "fresh" /\ epoch \subseteq Tasks
  BY DEF IndInv, Sound, Enqueue, RoundIsOpen
<1>1. Pumped(Append(queue, t), head, runningCount, st)
  BY <1>0, EnqueueIsSound, ProcessIsSound DEF Enqueue, Submitted
<1>2. st[t] = "queued" /\ \A u \in Tasks : u # t => st[u] = state[u]
  BY <1>0 DEF Submitted
<1> HIDE DEF st
<1>3. /\ state'[t] \in {"queued", "running"}
      /\ \A u \in Tasks : u # t => state'[u] = state[u] \/ (state[u] = "queued" /\ state'[u] = "running")
  BY <1>1, <1>2 DEF Pumped, OnlyStarts
<1>4. FinalStays
  BY <1>0, <1>3 DEF FinalStays, Final
<1>5. started' /\ started' \in BOOLEAN /\ (started => epoch' = epoch \cup {t}) /\ (~started => epoch' = {t})
  <2>1. CASE started
    BY <2>1 DEF Enqueue, stats, IndInv
  <2>2. CASE ~started
    BY <2>2 DEF Enqueue
  <2> QED BY <2>1, <2>2
<1>6. RoundIsOpen'
  <2>1. \A w \in Waiters : waiter'[w] = "waiting" => started'
    BY <1>5
  <2>2. \A u \in Tasks : state'[u] \in {"queued", "running"} => started' /\ u \in epoch'
    BY <1>0, <1>3, <1>5 DEF IndInv, RoundIsOpen
  <2>3. epoch' \subseteq Tasks /\ \A u \in epoch' : state'[u] # "fresh"
    BY <1>0, <1>3, <1>5 DEF IndInv, RoundIsOpen
  <2> QED BY <2>1, <2>2, <2>3 DEF RoundIsOpen
<1>7. Counted'
  <2>1. CASE started
    <3>1. settledCount' = settledCount /\ failedCount' = failedCount
      BY <2>1 DEF Enqueue, stats
    <3>2. SettledOf(epoch', state') = SettledOf(epoch, state)
      BY <1>0, <1>3, <1>5, <2>1 DEF SettledOf
    <3>3. FailedOf(epoch', state') = FailedOf(epoch, state)
      BY <1>0, <1>3, <1>5, <2>1 DEF FailedOf
    <3> QED BY <3>1, <3>2, <3>3 DEF IndInv, Counted
  <2>2. CASE ~started
    <3>1. settledCount' = 0 /\ failedCount' = 0
      BY <2>2 DEF Enqueue
    <3>2. SettledOf(epoch', state') = {} /\ FailedOf(epoch', state') = {}
      BY <1>3, <1>5, <2>2 DEF SettledOf, FailedOf
    <3> QED BY <3>1, <3>2, FS_EmptySet DEF Counted
  <2> QED BY <2>1, <2>2
<1>8. ReportIsComplete'
  BY <1>4, NobodyIsToldKeepsReports DEF Enqueue, IndInv
<1>9. PumpInv'
  BY StepKeepsPump DEF Next
<1> QED BY <1>1, <1>5, <1>6, <1>7, <1>8, <1>9 DEF IndInv, Pumped, Enqueue

\* A task settles: it is counted, and the last one of the round ends it.
LEMMA ExecuteTaskEndsKeeps ==
    ASSUME IndInv, NEW t \in Tasks, NEW result \in {"ok", "failed"}, ExecuteTaskEnds(t, result)
    PROVE  IndInv'
<1> DEFINE st == Ended(t, result)
<1>0. /\ state \in [Tasks -> TaskStates] /\ state[t] = "running" /\ epoch \subseteq Tasks /\ epoch' = epoch
      /\ started /\ t \in epoch /\ Sound(queue, head, runningCount, state)
  BY DEF IndInv, Sound, ExecuteTaskEnds, RoundIsOpen
<1>1. Sound(queue, head, runningCount - 1, st)
  BY <1>0, EndIsSound
<1>2. st \in [Tasks -> TaskStates] /\ st[t] = result /\ \A u \in Tasks : u # t => st[u] = state[u]
  BY <1>0 DEF Ended, TaskStates
<1>e. st = [state EXCEPT ![t] = result]
  BY DEF Ended
<1> HIDE DEF st
<1>3. Sound(queue', head', runningCount', state') /\ OnlyStarts(st)
  <2>1. CASE Finished(queue, head, runningCount - 1)
    BY <1>1, <1>e, <2>1 DEF ExecuteTaskEnds, OnlyStarts
  <2>2. CASE ~Finished(queue, head, runningCount - 1)
    <3>1. Process(queue, head, runningCount - 1, st)
      BY <1>e, <2>2 DEF ExecuteTaskEnds, AfterTask
    <3> QED BY <1>1, <3>1, ProcessIsSound DEF Pumped
  <2> QED BY <2>1, <2>2
<1>4. /\ state'[t] = result
      /\ \A u \in Tasks : u # t => state'[u] = state[u] \/ (state[u] = "queued" /\ state'[u] = "running")
  BY <1>2, <1>3 DEF OnlyStarts
<1>5. FinalStays
  BY <1>0, <1>4 DEF FinalStays, Final
<1>6. Counted'
  <2>1. SettledOf(epoch, state') = SettledOf(epoch, state) \cup {t} /\ t \notin SettledOf(epoch, state)
    BY <1>0, <1>4 DEF SettledOf
  <2>2. CASE result = "failed"
    <3>1. FailedOf(epoch, state') = FailedOf(epoch, state) \cup {t} /\ t \notin FailedOf(epoch, state)
      BY <1>0, <1>4, <2>2 DEF FailedOf
    <3>2. failedCount' = failedCount + 1 /\ settledCount' = settledCount + 1
      BY <2>2 DEF ExecuteTaskEnds
    <3>3. IsFiniteSet(FailedOf(epoch, state)) /\ IsFiniteSet(SettledOf(epoch, state))
      BY <1>0, SubsetsOfTasks DEF FailedOf, SettledOf
    <3> QED BY <1>0, <2>1, <3>1, <3>2, <3>3, FS_AddElement DEF IndInv, Counted
  <2>3. CASE result = "ok"
    <3>1. FailedOf(epoch, state') = FailedOf(epoch, state)
      BY <1>0, <1>4, <2>3 DEF FailedOf
    <3>2. failedCount' = failedCount + 0 /\ settledCount' = settledCount + 1
      BY <2>3 DEF ExecuteTaskEnds
    <3>3. IsFiniteSet(SettledOf(epoch, state)) /\ Cardinality(FailedOf(epoch, state)) \in Nat
      BY <1>0, SubsetsOfTasks DEF SettledOf, FailedOf
    <3>4. failedCount' = failedCount /\ failedCount = Cardinality(FailedOf(epoch, state))
          /\ settledCount = Cardinality(SettledOf(epoch, state))
      BY <3>2, <3>3 DEF IndInv, Counted
    <3>5. Cardinality(SettledOf(epoch, state')) = settledCount + 1
      BY <2>1, <3>3, <3>4, FS_AddElement
    <3> QED BY <1>0, <3>1, <3>2, <3>4, <3>5 DEF Counted
  <2> QED BY <2>2, <2>3
<1>7. PumpInv'
  BY StepKeepsPump DEF Next
<1>8. CASE Finished(queue, head, runningCount - 1)
  <2>1. TriggerFinish(settledCount', failedCount') /\ state' = st
    BY <1>e, <1>8 DEF ExecuteTaskEnds
  <2>2. \A u \in Tasks : state'[u] \notin {"queued", "running"}
    <3>1. head >= Len(queue) /\ runningCount - 1 = 0 /\ head \in 0..Len(queue) /\ Len(queue) \in Nat
      BY <1>1, <1>8 DEF Finished, Sound
    <3>2. Running(st) = {}
      BY <1>1, <3>1, SubsetsOfTasks DEF Sound, Running
    <3>3. \A u \in Tasks : st[u] # "queued"
      BY <1>1, <3>1 DEF Sound
    <3> QED BY <2>1, <3>2, <3>3 DEF Running
  <2>3. waiter' = [w \in Waiters |-> IF waiter[w] = "waiting" THEN "resolved" ELSE waiter[w]] /\ started' = FALSE
    BY <1>0, <2>1 DEF TriggerFinish
  <2>4. RoundIsOpen'
    <3>1. \A u \in epoch' : state'[u] # "fresh"
      BY <1>0, <1>4 DEF IndInv, RoundIsOpen
    <3>2. \A w \in Waiters : waiter'[w] # "waiting"
      BY <2>3
    <3> QED BY <1>0, <2>2, <3>1, <3>2 DEF RoundIsOpen
  <2>5. started' \in BOOLEAN
    BY <2>3
  <2> QED BY <1>0, <1>3, <1>5, <1>6, <1>7, <2>1, <2>2, <2>4, <2>5, FinishKeepsReports DEF IndInv, Sound
<1>9. CASE ~Finished(queue, head, runningCount - 1)
  <2>1. UNCHANGED <<started, waiter, report>>
    BY <1>9 DEF ExecuteTaskEnds
  <2>2. RoundIsOpen'
    <3>1. \A u \in Tasks : state'[u] \in {"queued", "running"} => u \in epoch'
      BY <1>0, <1>4 DEF IndInv, RoundIsOpen
    <3>2. \A u \in epoch' : state'[u] # "fresh"
      BY <1>0, <1>4 DEF IndInv, RoundIsOpen
    <3>3. started'
      BY <1>0, <2>1
    <3> QED BY <1>0, <3>1, <3>2, <3>3 DEF RoundIsOpen
  <2>3. ReportIsComplete'
    BY <1>5, <2>1, NobodyIsToldKeepsReports DEF IndInv
  <2> QED BY <1>3, <1>6, <1>7, <2>1, <2>2, <2>3 DEF IndInv
<1> QED BY <1>8, <1>9

\* The timer: the array may be cut, and the pump takes another turn.
LEMMA DelayElapsesIsSound ==
    ASSUME IndInv, DelayElapses
    PROVE  Sound(queue', head', runningCount', state') /\ OnlyStarts(state) /\ StartsFirst(queue, head, state)
<1> DEFINE cut == Cleaned(queue, head)
<1>1. Sound(cut[1], cut[2], runningCount, state) /\ Rest(cut[1], cut[2]) = Rest(queue, head)
  BY CutIsSound DEF IndInv
<1>2. Turn(cut[1], cut[2], runningCount, state, timers - 1)
  BY DEF DelayElapses
<1> HIDE DEF cut
<1>3. Pumped(cut[1], cut[2], runningCount, state)
  BY <1>1, <1>2, TurnIsSound
<1> QED BY <1>1, <1>3 DEF Pumped, StartsFirst

LEMMA DelayElapsesKeeps == ASSUME IndInv, DelayElapses PROVE IndInv'
<1>0. state \in [Tasks -> TaskStates] /\ epoch \subseteq Tasks /\ UNCHANGED <<stats, waiter, epoch, report>>
  BY DEF IndInv, Sound, DelayElapses, RoundIsOpen
<1>1. Sound(queue', head', runningCount', state') /\ OnlyStarts(state)
  BY DelayElapsesIsSound
<1>2. FinalStays
  BY <1>1 DEF FinalStays, OnlyStarts, Final
<1>3. RoundIsOpen'
  BY <1>0, <1>1 DEF IndInv, RoundIsOpen, OnlyStarts, stats
<1>4. Counted'
  <2>1. SettledOf(epoch, state') = SettledOf(epoch, state)
    BY <1>0, <1>1 DEF SettledOf, OnlyStarts
  <2>2. FailedOf(epoch, state') = FailedOf(epoch, state)
    BY <1>0, <1>1 DEF FailedOf, OnlyStarts
  <2> QED BY <1>0, <2>1, <2>2 DEF IndInv, Counted, stats
<1>5. ReportIsComplete'
  BY <1>0, <1>2, NobodyIsToldKeepsReports DEF IndInv
<1>6. PumpInv'
  BY StepKeepsPump DEF Next
<1> QED BY <1>0, <1>1, <1>3, <1>4, <1>5, <1>6 DEF IndInv, stats

\* The pool is empty as waitUntilFinished and triggerFinish see it.
LEMMA FinishedMeansOver ==
    ASSUME NEW q, NEW h, NEW running, NEW st, Sound(q, h, running, st)
    PROVE  Finished(q, h, running) <=> \A t \in Tasks : st[t] \notin {"queued", "running"}
<1>0. h \in 0..Len(q) /\ Len(q) \in Nat /\ q \in Seq(Tasks)
  BY DEF Sound
<1>1. running = 0 <=> \A t \in Tasks : st[t] # "running"
  BY SubsetsOfTasks DEF Sound, Running
<1>2. ASSUME h >= Len(q) PROVE \A t \in Tasks : st[t] # "queued"
  BY <1>0, <1>2 DEF Sound
<1>3. ASSUME h < Len(q) PROVE \E t \in Tasks : st[t] = "queued"
  <2>1. h + 1 \in 1..Len(q) /\ h + 1 \in (h + 1)..Len(q)
    BY <1>0, <1>3
  <2> QED BY <1>0, <2>1 DEF Sound
<1> QED BY <1>0, <1>1, <1>2, <1>3 DEF Finished

\* waitUntilFinished: told at once, or waiting for a round that is open.
LEMMA WaitUntilFinishedKeeps == ASSUME IndInv, NEW w \in Waiters, WaitUntilFinished(w) PROVE IndInv'
<1>0. /\ UNCHANGED <<queue, head, runningCount, isProcessing, stats, state, timers, epoch>>
      /\ waiter \in [Waiters -> {"idle", "waiting", "resolved"}] /\ waiter[w] = "idle"
      /\ Sound(queue, head, runningCount, state)
  BY DEF WaitUntilFinished, IndInv
<1>1. PumpInv' /\ Sound(queue', head', runningCount', state') /\ Counted' /\ FinalStays
  BY <1>0 DEF IndInv, PumpInv, PumpIsOne, Sound, Counted, FinalStays, stats
<1>2. started' \in BOOLEAN
  BY <1>0 DEF IndInv, stats
<1>3. CASE Finished(queue, head, runningCount)
  <2> DEFINE told == [tasks |-> epoch, settled |-> settledCount, failed |-> failedCount]
  <2>1. waiter' = [waiter EXCEPT ![w] = "resolved"] /\ report' = [report EXCEPT ![w] = told]
    BY <1>3 DEF WaitUntilFinished
  <2>2. \A t \in Tasks : state[t] \notin {"queued", "running"}
    BY <1>0, <1>3, FinishedMeansOver
  <2>3. RoundIsOpen'
    BY <1>0, <2>1 DEF IndInv, RoundIsOpen, stats
  <2>4. Complete(told, state')
    BY <1>0, <1>1, <2>2, <2>3, RoundReportIsComplete DEF Sound, stats
  <2>5. told \in [tasks: SUBSET Tasks, settled: Nat, failed: Nat]
    <3>1. epoch \subseteq Tasks /\ SettledOf(epoch, state) \in SUBSET Tasks /\ FailedOf(epoch, state) \in SUBSET Tasks
      BY DEF IndInv, RoundIsOpen, SettledOf, FailedOf
    <3>2. settledCount \in Nat /\ failedCount \in Nat
      BY <3>1, SubsetsOfTasks DEF IndInv, Counted
    <3> QED BY <3>1, <3>2
  <2> HIDE DEF told
  <2>6. /\ report' \in [Waiters -> [tasks: SUBSET Tasks, settled: Nat, failed: Nat]]
        /\ waiter' \in [Waiters -> {"idle", "waiting", "resolved"}]
    BY <1>0, <2>1, <2>5 DEF IndInv
  <2>7. ASSUME NEW v \in Waiters, waiter'[v] = "resolved" PROVE Complete(report'[v], state')
    <3>1. CASE v = w
      BY <2>1, <2>4, <3>1 DEF IndInv
    <3>2. CASE v # w
      <4>1. waiter[v] = "resolved" /\ report'[v] = report[v]
        BY <1>0, <2>1, <2>7, <3>2 DEF IndInv
      <4> QED BY <1>0, <4>1, ReportsAreComplete DEF IndInv
    <3> QED BY <3>1, <3>2
  <2>8. ReportIsComplete'
    BY <2>7 DEF ReportIsComplete, Complete, Final, SettledOf, FailedOf
  <2> QED BY <1>1, <1>2, <2>3, <2>6, <2>8 DEF IndInv
<1>4. CASE ~Finished(queue, head, runningCount)
  <2>1. waiter' = [waiter EXCEPT ![w] = "waiting"] /\ report' = report
    BY <1>4 DEF WaitUntilFinished
  <2>2. PICK t \in Tasks : state[t] \in {"queued", "running"}
    BY <1>0, <1>4, FinishedMeansOver
  <2>3. started
    BY <2>2 DEF IndInv, RoundIsOpen
  <2>4. RoundIsOpen'
    BY <1>0, <2>1, <2>3 DEF IndInv, RoundIsOpen, stats
  <2>5. waiter' \in [Waiters -> {"idle", "waiting", "resolved"}]
    BY <1>0, <2>1
  <2>6. ReportIsComplete'
    BY <1>0, <1>1, <2>1, <2>5, NobodyIsToldKeepsReports
  <2> QED BY <1>1, <1>2, <2>1, <2>4, <2>5, <2>6 DEF IndInv
<1> QED BY <1>3, <1>4

\* clear: the dropped tasks are over, and with nothing running so is the round.
LEMMA ClearKeeps == ASSUME IndInv, Clear PROVE IndInv'
<1>0. /\ UNCHANGED <<runningCount, isProcessing, settledCount, failedCount, timers, epoch>>
      /\ state \in [Tasks -> TaskStates] /\ epoch \subseteq Tasks
      /\ Sound(queue, head, runningCount, state)
      /\ state' = [t \in Tasks |-> IF state[t] = "queued" THEN "dropped" ELSE state[t]]
  BY DEF Clear, IndInv, Sound, RoundIsOpen
<1>1. /\ state' \in [Tasks -> TaskStates]
      /\ \A t \in Tasks : state'[t] # "queued"
      /\ \A t \in Tasks : state'[t] = state[t] \/ (state[t] = "queued" /\ state'[t] = "dropped")
  BY <1>0 DEF TaskStates
<1>2. FinalStays /\ Running(state') = Running(state)
  BY <1>1 DEF FinalStays, Final, Running
<1>3. Sound(queue', head', runningCount', state')
  <2>1. queue' = <<>> /\ head' = 0 /\ Len(<<>>) = 0 /\ <<>> \in Seq(Tasks)
    BY DEF Clear
  <2> QED BY <1>0, <1>1, <1>2, <2>1 DEF Sound
<1>4. Counted'
  <2>1. SettledOf(epoch, state') = SettledOf(epoch, state)
    BY <1>0, <1>1 DEF SettledOf
  <2>2. FailedOf(epoch, state') = FailedOf(epoch, state)
    BY <1>0, <1>1 DEF FailedOf
  <2> QED BY <1>0, <2>1, <2>2 DEF IndInv, Counted
<1>5. PumpInv'
  BY StepKeepsPump DEF Next
<1>6. \A u \in epoch' : state'[u] # "fresh"
  BY <1>0, <1>1 DEF IndInv, RoundIsOpen
<1>7. CASE runningCount = 0
  <2>1. TriggerFinish(settledCount', failedCount')
    BY <1>0, <1>7 DEF Clear
  <2>2. \A u \in Tasks : state'[u] \notin {"queued", "running"}
    <3>1. Running(state) = {}
      BY <1>0, <1>7, SubsetsOfTasks DEF Sound, Running
    <3> QED BY <1>1, <1>2, <3>1 DEF Running
  <2>3. started' \in BOOLEAN /\ \A w \in Waiters : waiter'[w] # "waiting"
    <3>1. CASE started
      BY <2>1, <3>1 DEF TriggerFinish
    <3>2. CASE ~started
      <4>1. UNCHANGED <<started, waiter, report>>
        BY <2>1, <3>2 DEF TriggerFinish
      <4> QED BY <3>2, <4>1 DEF IndInv, RoundIsOpen
    <3> QED BY <3>1, <3>2
  <2>4. RoundIsOpen'
    BY <1>0, <1>6, <2>2, <2>3 DEF RoundIsOpen
  <2> QED BY <1>0, <1>1, <1>2, <1>3, <1>4, <1>5, <2>1, <2>2, <2>3, <2>4, FinishKeepsReports DEF IndInv
<1>8. CASE runningCount # 0
  <2>1. UNCHANGED <<started, waiter, report>>
    BY <1>8 DEF Clear
  <2>2. RoundIsOpen'
    BY <1>0, <1>1, <1>6, <2>1 DEF IndInv, RoundIsOpen
  <2>3. ReportIsComplete'
    BY <1>2, <2>1, NobodyIsToldKeepsReports DEF IndInv
  <2> QED BY <1>3, <1>4, <1>5, <2>1, <2>2, <2>3 DEF IndInv
<1> QED BY <1>7, <1>8

LEMMA StutterKeeps == ASSUME IndInv, UNCHANGED vars PROVE IndInv'
<1>1. PumpInv' /\ Sound(queue', head', runningCount', state') /\ Counted' /\ RoundIsOpen' /\ FinalStays
  BY DEF IndInv, PumpInv, PumpIsOne, Sound, Counted, RoundIsOpen, FinalStays, vars, stats
<1>2. ReportIsComplete'
  BY <1>1, NobodyIsToldKeepsReports DEF IndInv, vars
<1> QED BY <1>1, <1>2 DEF IndInv, vars, stats

LEMMA InitIndInv == Init => IndInv
<1> SUFFICES ASSUME Init PROVE IndInv
  OBVIOUS
<1>1. PumpInv
  <2>1. 0 # 1
    OBVIOUS
  <2> QED BY <2>1, Zenon DEF Init, PumpInv, PumpIsOne
<1>2. Sound(queue, head, runningCount, state)
  <2>1. Running(state) = {}
    BY DEF Init, Running
  <2>2. Cardinality(Running(state)) = 0 /\ 0 \in 0..MaxConcurrent
    BY <2>1, FS_EmptySet, QueueConstants
  <2>3. <<>> \in Seq(Tasks) /\ Len(<<>>) = 0
    OBVIOUS
  <2>4. state \in [Tasks -> TaskStates] /\ \A t \in Tasks : state[t] # "queued"
    BY DEF Init, TaskStates
  <2> QED BY <2>2, <2>3, <2>4 DEF Init, Sound
<1>3. RoundIsOpen
  BY DEF Init, RoundIsOpen
<1>4. Counted
  <2>1. SettledOf(epoch, state) = {} /\ FailedOf(epoch, state) = {}
    BY DEF Init, SettledOf, FailedOf
  <2> QED BY <2>1, FS_EmptySet DEF Init, Counted
<1>5. ReportIsComplete
  BY DEF Init, ReportIsComplete
<1> QED BY <1>1, <1>2, <1>3, <1>4, <1>5 DEF Init, IndInv

LEMMA IndInvHolds == Spec => []IndInv
<1>1. IndInv /\ [Next]_vars => IndInv'
  BY EnqueueKeeps, ExecuteTaskEndsKeeps, DelayElapsesKeeps, WaitUntilFinishedKeeps, ClearKeeps,
     StutterKeeps DEF Next
<1> QED BY <1>1, InitIndInv, PTL DEF Spec

\* The variables keep their types: in particular the counters never exceed the
\* number of tasks, nor the running ones the limit.
THEOREM QueueTypes == Spec => []TypeOK
<1>1. IndInv => TypeOK
  <2> SUFFICES ASSUME IndInv PROVE TypeOK
    OBVIOUS
  <2>1. SettledOf(epoch, state) \in SUBSET Tasks /\ FailedOf(epoch, state) \in SUBSET SettledOf(epoch, state)
    BY DEF IndInv, RoundIsOpen, SettledOf, FailedOf
  <2>2. settledCount \in 0..Cardinality(Tasks) /\ IsFiniteSet(SettledOf(epoch, state)) /\ settledCount \in Nat
    BY <2>1, SubsetsOfTasks DEF IndInv, Counted
  <2>3. failedCount \in 0..settledCount
    BY <2>1, <2>2, FS_Subset, FS_CardinalityType DEF IndInv, Counted
  <2>4. isProcessing \in BOOLEAN /\ timers \in Nat
    BY DEF IndInv, PumpInv
  <2> QED BY <2>2, <2>3, <2>4 DEF IndInv, TypeOK, Sound, TaskStates, RoundIsOpen
<1> QED BY <1>1, IndInvHolds, PTL

\* Whoever waited for the queue is told of every task of its round, with exact
\* counts of the settled and the failed ones.
THEOREM NobodyIsToldTooEarly == Spec => []ReportIsComplete
<1>1. IndInv => ReportIsComplete
  BY DEF IndInv
<1> QED BY <1>1, IndInvHolds, PTL

-----------------------------------------------------------------------------
(* The safety core of NoWakeUpIsLost: no state is stuck.                   *)

\* With a task left to start the pump is asleep, and so will run again, or the
\* limit is reached, and so a task will settle and run it.
PumpIsAwake == head < Len(queue) => isProcessing \/ Full(runningCount)

\* Nobody waits for a queue in which nothing is left.
Unfinished(st) == \E t \in Tasks : st[t] \in {"queued", "running"}
WaitersHaveWork == \A w \in Waiters : waiter[w] = "waiting" => Unfinished(state)

ProgressInv == PumpIsAwake /\ WaitersHaveWork

\* Whenever a task is queued or a caller waits, a rate-limit delay is pending or
\* a task runs: the two events that run the pump. A wake-up that was lost would
\* be a state with neither, from which no fairness leads on.
SomethingIsUnderWay ==
    (\E t \in Tasks : state[t] = "queued") \/ (\E w \in Waiters : waiter[w] = "waiting")
        => timers > 0 \/ \E t \in Tasks : state[t] = "running"

\* However it is entered, the pump stops only where it may.
LEMMA TurnLeavesPumpAwake ==
    ASSUME NEW q, NEW h, NEW running, NEW st, NEW pendingTimers,
           Sound(q, h, running, st), Turn(q, h, running, st, pendingTimers)
    PROVE  PumpIsAwake'
<1>0. h \in Nat /\ Len(q) \in Nat
  BY DEF Sound
<1>1. CASE isProcessing' = TRUE
  BY <1>1 DEF PumpIsAwake
<1>2. CASE (h >= Len(q) \/ Full(running)) /\ queue' = q /\ head' = h /\ runningCount' = running
  <2>1. h < Len(q) => Full(running)
    BY <1>0, <1>2
  <2>2. (head < Len(queue))' <=> h < Len(q)
    BY <1>2
  <2>3. Full(runningCount)' <=> Full(running)
    BY <1>2 DEF Full
  <2> QED BY <2>1, <2>2, <2>3 DEF PumpIsAwake
<1> QED BY <1>1, <1>2 DEF Turn

LEMMA ProcessLeavesPumpAwake ==
    ASSUME NEW q, NEW h, NEW running, NEW st, Sound(q, h, running, st), Process(q, h, running, st)
    PROVE  PumpIsAwake'
<1>1. CASE isProcessing /\ UNCHANGED isProcessing
  BY <1>1 DEF PumpIsAwake
<1>2. CASE Turn(q, h, running, st, timers)
  BY <1>2, TurnLeavesPumpAwake
<1> QED BY <1>1, <1>2 DEF Process

\* The pump finishes nothing.
LEMMA StartsKeepUnfinished ==
    ASSUME NEW st, OnlyStarts(st), Unfinished(st)
    PROVE  Unfinished(state')
  BY DEF OnlyStarts, Unfinished

LEMMA EnqueueProgresses == ASSUME IndInv, NEW t \in Tasks, Enqueue(t) PROVE ProgressInv'
<1>0. state \in [Tasks -> TaskStates] /\ state[t] = "fresh"
  BY DEF IndInv, Sound, Enqueue
<1>1. Process(Append(queue, t), head, runningCount, Submitted(t))
  BY DEF Enqueue, Submitted
<1>2. Sound(Append(queue, t), head, runningCount, Submitted(t))
  BY <1>0, EnqueueIsSound
<1>3. OnlyStarts(Submitted(t))
  BY <1>1, <1>2, ProcessIsSound DEF Pumped
<1>4. Unfinished(Submitted(t))
  BY <1>0 DEF Unfinished, Submitted
<1>5. WaitersHaveWork'
  BY <1>3, <1>4, StartsKeepUnfinished DEF WaitersHaveWork
<1> QED BY <1>1, <1>2, <1>5, ProcessLeavesPumpAwake DEF ProgressInv

\* A task that settles runs the pump, or releases everybody who waits.
LEMMA ExecuteTaskEndsProgresses ==
    ASSUME IndInv, NEW t \in Tasks, NEW result \in {"ok", "failed"}, ExecuteTaskEnds(t, result)
    PROVE  ProgressInv'
<1> DEFINE st == Ended(t, result)
<1>0. state[t] = "running" /\ started
  BY DEF IndInv, ExecuteTaskEnds, RoundIsOpen
<1>1. Sound(queue, head, runningCount - 1, st)
  BY <1>0, EndIsSound
<1>2. CASE Finished(queue, head, runningCount - 1)
  <2>1. queue' = queue /\ head' = head /\ \A w \in Waiters : waiter'[w] # "waiting"
    BY <1>0, <1>2 DEF ExecuteTaskEnds, TriggerFinish
  <2>2. ~(head < Len(queue))
    BY <1>1, <1>2 DEF Finished, Sound
  <2> QED BY <2>1, <2>2 DEF ProgressInv, PumpIsAwake, WaitersHaveWork
<1>3. CASE ~Finished(queue, head, runningCount - 1)
  <2>1. Process(queue, head, runningCount - 1, st)
    BY <1>3 DEF ExecuteTaskEnds, AfterTask, Ended
  <2>2. OnlyStarts(st)
    BY <1>1, <2>1, ProcessIsSound DEF Pumped
  <2>3. Unfinished(st)
    BY <1>1, <1>3, FinishedMeansOver DEF Unfinished
  <2>4. WaitersHaveWork'
    BY <2>2, <2>3, StartsKeepUnfinished DEF WaitersHaveWork
  <2> QED BY <1>1, <2>1, <2>4, ProcessLeavesPumpAwake DEF ProgressInv
<1> QED BY <1>2, <1>3

LEMMA DelayElapsesProgresses == ASSUME IndInv, ProgressInv, DelayElapses PROVE ProgressInv'
<1> DEFINE cut == Cleaned(queue, head)
<1>1. Sound(cut[1], cut[2], runningCount, state)
  BY CutIsSound DEF IndInv
<1>2. Turn(cut[1], cut[2], runningCount, state, timers - 1) /\ waiter' = waiter
  BY DEF DelayElapses
<1>3. OnlyStarts(state)
  BY DelayElapsesIsSound
<1>4. WaitersHaveWork'
  BY <1>2, <1>3, StartsKeepUnfinished DEF ProgressInv, WaitersHaveWork
<1> QED BY <1>1, <1>2, <1>4, TurnLeavesPumpAwake DEF ProgressInv

LEMMA WaitUntilFinishedProgresses ==
    ASSUME IndInv, ProgressInv, NEW w \in Waiters, WaitUntilFinished(w)
    PROVE  ProgressInv'
<1>1. UNCHANGED <<queue, head, runningCount, isProcessing, state>>
      /\ waiter \in [Waiters -> {"idle", "waiting", "resolved"}]
  BY DEF WaitUntilFinished, IndInv
<1>2. PumpIsAwake'
  BY <1>1 DEF ProgressInv, PumpIsAwake, Full
<1>3. CASE Finished(queue, head, runningCount)
  BY <1>1, <1>2, <1>3 DEF WaitUntilFinished, ProgressInv, WaitersHaveWork
<1>4. CASE ~Finished(queue, head, runningCount)
  <2>1. Unfinished(state)
    BY <1>4, FinishedMeansOver DEF Unfinished, IndInv
  <2> QED BY <1>1, <1>2, <2>1 DEF ProgressInv, WaitersHaveWork
<1> QED BY <1>3, <1>4

\* clear leaves nothing to start, and nobody waiting unless a task runs.
LEMMA ClearProgresses == ASSUME IndInv, ProgressInv, Clear PROVE ProgressInv'
<1>1. PumpIsAwake'
  <2>1. queue' = <<>> /\ head' = 0 /\ ~(0 < Len(<<>>))
    BY DEF Clear
  <2> QED BY <2>1 DEF PumpIsAwake
<1>2. CASE runningCount = 0 /\ started
  BY <1>1, <1>2 DEF Clear, TriggerFinish, ProgressInv, WaitersHaveWork
<1>3. CASE runningCount = 0 /\ ~started
  <2>1. waiter' = waiter /\ \A w \in Waiters : waiter[w] # "waiting"
    BY <1>3 DEF Clear, TriggerFinish, IndInv, RoundIsOpen
  <2> QED BY <1>1, <2>1 DEF ProgressInv, WaitersHaveWork
<1>4. CASE runningCount # 0
  <2>1. PICK t \in Tasks : state[t] = "running"
    BY <1>4, SubsetsOfTasks DEF IndInv, Sound, Running
  <2>2. state'[t] = "running"
    BY <2>1 DEF Clear
  <2> QED BY <1>1, <2>2 DEF ProgressInv, WaitersHaveWork, Unfinished
<1> QED BY <1>2, <1>3, <1>4 DEF IndInv

\* The queue is never stuck: with something queued or somebody waiting, a delay
\* or a task is under way that runs the pump when it ends.
THEOREM QueueIsNeverStuck == Spec => []SomethingIsUnderWay
<1>1. Init => ProgressInv
  <2> SUFFICES ASSUME Init PROVE ProgressInv
    OBVIOUS
  <2>1. ~(head < Len(queue))
    BY DEF Init
  <2> QED BY <2>1 DEF Init, ProgressInv, PumpIsAwake, WaitersHaveWork
<1>2. IndInv /\ ProgressInv /\ [Next]_vars => ProgressInv'
  <2>1. ASSUME ProgressInv, UNCHANGED vars PROVE ProgressInv'
    BY <2>1 DEF ProgressInv, PumpIsAwake, WaitersHaveWork, Full, Unfinished, vars
  <2> QED BY <2>1, EnqueueProgresses, ExecuteTaskEndsProgresses, DelayElapsesProgresses,
             WaitUntilFinishedProgresses, ClearProgresses DEF Next
<1>3. IndInv /\ ProgressInv => SomethingIsUnderWay
  <2> SUFFICES ASSUME IndInv, ProgressInv, \A t \in Tasks : state[t] # "running",
                      (\E t \in Tasks : state[t] = "queued") \/ (\E w \in Waiters : waiter[w] = "waiting")
               PROVE  timers > 0
    BY DEF SomethingIsUnderWay
  <2>1. PICK t \in Tasks : state[t] = "queued"
    BY DEF ProgressInv, WaitersHaveWork, Unfinished
  <2>2. head < Len(queue)
    <3>1. PICK i \in (head + 1)..Len(queue) : queue[i] = t
      BY <2>1 DEF IndInv, Sound
    <3>2. head \in Nat /\ Len(queue) \in Nat
      BY DEF IndInv, Sound
    <3> QED BY <3>1, <3>2
  <2>3. ~Full(runningCount)
    <3>1. Running(state) = {}
      BY DEF Running
    <3>2. runningCount = 0
      BY <3>1, FS_EmptySet DEF IndInv, Sound
    <3> QED BY <3>2, QueueConstants DEF Full
  <2>4. isProcessing
    BY <2>2, <2>3 DEF ProgressInv, PumpIsAwake
  <2> QED BY <2>4 DEF IndInv, PumpInv, PumpIsOne
<1> QED BY <1>1, <1>2, <1>3, IndInvHolds, PTL DEF Spec

-----------------------------------------------------------------------------
(* The queue implements the pool.                                          *)

Idle(st) == {t \in Tasks : st[t] = "fresh"}
WaitingOf(wt) == {w \in Waiters : wt[w] = "waiting"}

\* The mapping, in the operators of this module.
LEMMA MappingIs ==
    /\ InState("fresh") = Idle(state) /\ InState("running") = Running(state)
    /\ {w \in Waiters : waiter[w] = "waiting"} = WaitingOf(waiter)
    /\ SubSeq(queue, head + 1, Len(queue)) = Rest(queue, head)
  BY DEF InState, Idle, Running, WaitingOf, Rest

LEMMA MappingIsAfter ==
    /\ InState("fresh")' = Idle(state') /\ InState("running")' = Running(state')
    /\ {w \in Waiters : waiter[w] = "waiting"}' = WaitingOf(waiter')
    /\ SubSeq(queue, head + 1, Len(queue))' = Rest(queue', head')
  BY DEF InState, Idle, Running, WaitingOf, Rest

LEMMA SameCardinality == ASSUME NEW S PROVE Pool!Cardinality(S) = Cardinality(S)
  BY DEF Pool!Cardinality, Cardinality

\* A start of the pump, in the words of the pool.
LEMMA StartsFirstIsAbstract ==
    ASSUME NEW q, NEW h, NEW st, StartsFirst(q, h, st)
    PROVE  Pool!StartAtMostOne(Rest(q, h), Running(st))
<1>1. Pool!Cardinality(Running(st)) = Cardinality(Running(st))
  BY SameCardinality
<1> QED BY <1>1, MappingIsAfter DEF StartsFirst, Pool!StartAtMostOne

\* Empty in the pool's sense and finished in the queue's are the same.
LEMMA FinishedIsEmpty ==
    ASSUME NEW q, NEW h, NEW running, NEW st, Sound(q, h, running, st)
    PROVE  Finished(q, h, running) <=> Rest(q, h) = <<>> /\ Running(st) = {}
<1>0. h \in 0..Len(q) /\ Len(q) \in Nat /\ q \in Seq(Tasks) /\ \A i \in (h + 1)..Len(q) : q[i] \in Tasks
  BY DEF Sound
<1>1. running = 0 <=> Running(st) = {}
  BY SubsetsOfTasks DEF Sound, Running
<1>2. Len(Rest(q, h)) = IF h + 1 <= Len(q) THEN Len(q) - (h + 1) + 1 ELSE 0
  BY <1>0, SubSeqProperties DEF Rest
<1>3. h >= Len(q) => Rest(q, h) = <<>>
  BY <1>0, SubSeqEmpty DEF Rest
<1>4. h < Len(q) => Rest(q, h) # <<>>
  BY <1>0, <1>2
<1> QED BY <1>0, <1>1, <1>3, <1>4 DEF Finished

LEMMA EnqueueIsSubmit == ASSUME IndInv, NEW t \in Tasks, Enqueue(t) PROVE Pool!Submit(t)
<1>0. state \in [Tasks -> TaskStates] /\ state[t] = "fresh" /\ waiter' = waiter
  BY DEF IndInv, Sound, Enqueue
<1>1. Pumped(Append(queue, t), head, runningCount, Submitted(t))
  BY <1>0, EnqueueIsSound, ProcessIsSound DEF Enqueue, Submitted
<1>2. Pool!StartAtMostOne(Append(Rest(queue, head), t), Running(state))
  BY <1>0, <1>1, EnqueueIsSound, StartsFirstIsAbstract DEF Pumped
<1>3. Idle(state') = Idle(state) \ {t}
  BY <1>0, <1>1 DEF Pumped, OnlyStarts, Submitted, Idle
<1>4. t \in Idle(state) /\ WaitingOf(waiter') = WaitingOf(waiter)
  BY <1>0 DEF Idle
<1> QED BY <1>2, <1>3, <1>4, MappingIs, MappingIsAfter DEF Pool!Submit

LEMMA DelayElapsesIsStart == ASSUME IndInv, DelayElapses PROVE Pool!Start
<1>1. OnlyStarts(state) /\ StartsFirst(queue, head, state) /\ state \in [Tasks -> TaskStates] /\ waiter' = waiter
  BY DelayElapsesIsSound DEF DelayElapses, IndInv, Sound
<1>2. Idle(state') = Idle(state)
  BY <1>1 DEF OnlyStarts, Idle
<1>3. Pool!StartAtMostOne(Rest(queue, head), Running(state))
  BY <1>1, StartsFirstIsAbstract
<1>4. WaitingOf(waiter') = WaitingOf(waiter)
  BY <1>1
<1> QED BY <1>2, <1>3, <1>4, MappingIs, MappingIsAfter DEF Pool!Start

\* The waiters leave with the last task, and with no other.
LEMMA ExecuteTaskEndsIsComplete ==
    ASSUME IndInv, IndInv', NEW t \in Tasks, NEW result \in {"ok", "failed"}, ExecuteTaskEnds(t, result)
    PROVE  Pool!Complete(t)
<1> DEFINE st == Ended(t, result)
<1>0. state \in [Tasks -> TaskStates] /\ state[t] = "running" /\ started
  BY DEF IndInv, Sound, ExecuteTaskEnds, RoundIsOpen
<1>1. Sound(queue, head, runningCount - 1, st) /\ Running(st) = Running(state) \ {t} /\ t \in Running(state)
  BY <1>0, EndIsSound DEF Running
<1>2. \A u \in Tasks : st[u] = "fresh" <=> state[u] = "fresh"
  BY <1>0 DEF Ended
<1>e. st = [state EXCEPT ![t] = result]
  BY DEF Ended
<1> HIDE DEF st
<1>3. CASE Finished(queue, head, runningCount - 1)
  <2>1. queue' = queue /\ head' = head /\ state' = st /\ TriggerFinish(settledCount', failedCount')
    BY <1>e, <1>3 DEF ExecuteTaskEnds
  <2>2. Rest(queue, head) = <<>> /\ Running(st) = {}
    BY <1>1, <1>3, FinishedIsEmpty
  <2>3. WaitingOf(waiter') = {}
    BY <1>0, <2>1 DEF TriggerFinish, WaitingOf
  <2>4. StartsFirst(queue, head, st)
    BY <2>1 DEF StartsFirst
  <2>5. Pool!StartAtMostOne(Rest(queue, head), Running(state) \ {t})
    BY <1>1, <2>4, StartsFirstIsAbstract
  <2>6. Idle(state') = Idle(state)
    BY <1>2, <2>1 DEF Idle
  <2> QED BY <1>1, <2>1, <2>2, <2>3, <2>5, <2>6, MappingIs, MappingIsAfter
          DEF Pool!Complete, Pool!ReleaseIfEmpty
<1>4. CASE ~Finished(queue, head, runningCount - 1)
  <2>1. Process(queue, head, runningCount - 1, st) /\ waiter' = waiter
    BY <1>e, <1>4 DEF ExecuteTaskEnds, AfterTask
  <2>2. Pumped(queue, head, runningCount - 1, st)
    BY <1>1, <2>1, ProcessIsSound
  <2>3. ~(Rest(queue', head') = <<>> /\ Running(state') = {})
    BY <1>1, <1>4, <2>2, FinishedIsEmpty DEF Pumped, StartsFirst
  <2>4. Pool!StartAtMostOne(Rest(queue, head), Running(state) \ {t})
    BY <1>1, <2>2, StartsFirstIsAbstract DEF Pumped
  <2>5. Idle(state') = Idle(state)
    BY <1>2, <2>2 DEF Idle, Pumped, OnlyStarts
  <2>6. WaitingOf(waiter') = WaitingOf(waiter)
    BY <2>1
  <2> QED BY <1>1, <2>3, <2>4, <2>5, <2>6, MappingIs, MappingIsAfter
          DEF Pool!Complete, Pool!ReleaseIfEmpty
<1> QED BY <1>3, <1>4

\* A caller of waitUntilFinished waits exactly when the pool is not empty.
LEMMA WaitIsWait ==
    ASSUME IndInv, NEW w \in Waiters, WaitUntilFinished(w)
    PROVE  Pool!Wait(w) \/ UNCHANGED Pool!vars
<1>0. /\ queue' = queue /\ head' = head /\ state' = state /\ waiter[w] = "idle"
      /\ waiter \in [Waiters -> {"idle", "waiting", "resolved"}]
      /\ Sound(queue, head, runningCount, state)
  BY DEF WaitUntilFinished, IndInv
<1>1. Rest(queue', head') = Rest(queue, head) /\ Running(state') = Running(state) /\ Idle(state') = Idle(state)
  BY <1>0
<1>2. CASE Finished(queue, head, runningCount)
  <2>1. WaitingOf(waiter') = WaitingOf(waiter)
    BY <1>0, <1>2 DEF WaitUntilFinished, WaitingOf
  <2> QED BY <1>1, <2>1, MappingIs, MappingIsAfter DEF Pool!vars
<1>3. CASE ~Finished(queue, head, runningCount)
  <2>1. WaitingOf(waiter') = WaitingOf(waiter) \cup {w}
    BY <1>0, <1>3 DEF WaitUntilFinished, WaitingOf
  <2>2. Rest(queue, head) # <<>> \/ Running(state) # {}
    BY <1>0, <1>3, FinishedIsEmpty
  <2> QED BY <1>1, <2>1, <2>2, MappingIs, MappingIsAfter DEF Pool!Wait
<1> QED BY <1>2, <1>3

\* clear releases the waiters when nothing runs.
LEMMA ClearIsDiscard == ASSUME IndInv, Clear PROVE Pool!Discard
<1>0. /\ state \in [Tasks -> TaskStates] /\ Sound(queue, head, runningCount, state)
      /\ state' = [t \in Tasks |-> IF state[t] = "queued" THEN "dropped" ELSE state[t]]
  BY DEF Clear, IndInv, Sound
<1>1. Running(state') = Running(state) /\ Idle(state') = Idle(state)
  BY <1>0 DEF Running, Idle
<1>2. Rest(queue', head') = <<>>
  <2>1. queue' = <<>> /\ head' = 0 /\ Len(<<>>) = 0
    BY DEF Clear
  <2> QED BY <2>1, SubSeqEmpty DEF Rest
<1>3. runningCount = 0 <=> Running(state) = {}
  BY <1>0, SubsetsOfTasks DEF Sound, Running
<1>4. WaitingOf(waiter') = IF Running(state') = {} THEN {} ELSE WaitingOf(waiter)
  <2>1. CASE runningCount = 0 /\ started
    BY <1>1, <1>3, <2>1 DEF Clear, TriggerFinish, WaitingOf
  <2>2. CASE runningCount = 0 /\ ~started
    <3>1. waiter' = waiter
      BY <2>2 DEF Clear, TriggerFinish
    <3>2. WaitingOf(waiter) = {}
      BY <2>2 DEF IndInv, RoundIsOpen, WaitingOf
    <3> QED BY <3>1, <3>2
  <2>3. CASE runningCount # 0
    BY <1>1, <1>3, <2>3 DEF Clear
  <2> QED BY <2>1, <2>2, <2>3
<1> QED BY <1>1, <1>2, <1>4, MappingIs, MappingIsAfter DEF Pool!Discard, Pool!ReleaseIfEmpty

\* The queue, with its array, head pointer, pump and timer, is the pool: tasks
\* start in the order of enqueue, each once, never more than maxConcurrent, and
\* waiters are released when nothing is left and not before.
THEOREM QueueImplementsPool == Spec => ImplementsPool
<1>1. Init => Pool!Init
  <2> SUFFICES ASSUME Init PROVE Pool!Init
    OBVIOUS
  <2>1. Idle(state) = Tasks /\ Running(state) = {} /\ WaitingOf(waiter) = {}
    BY DEF Init, Idle, Running, WaitingOf
  <2>2. Rest(queue, head) = <<>>
    <3>1. queue = <<>> /\ head = 0 /\ Len(<<>>) = 0
      BY DEF Init
    <3> QED BY <3>1, SubSeqEmpty DEF Rest
  <2> QED BY <2>1, <2>2, MappingIs DEF Pool!Init
<1>2. IndInv /\ IndInv' /\ [Next]_vars => [Pool!Next]_(Pool!vars)
  <2> SUFFICES ASSUME IndInv, IndInv', [Next]_vars PROVE Pool!Next \/ UNCHANGED Pool!vars
    OBVIOUS
  <2>1. CASE UNCHANGED vars
    <3>1. /\ Idle(state') = Idle(state) /\ Running(state') = Running(state)
          /\ WaitingOf(waiter') = WaitingOf(waiter) /\ Rest(queue', head') = Rest(queue, head)
      BY <2>1 DEF vars
    <3> QED BY <3>1, MappingIs, MappingIsAfter DEF Pool!vars
  <2>2. CASE Next
    BY <2>2, EnqueueIsSubmit, ExecuteTaskEndsIsComplete, DelayElapsesIsStart, WaitIsWait, ClearIsDiscard
       DEF Next, Pool!Next
  <2> QED BY <2>1, <2>2
<1> QED BY <1>1, <1>2, IndInvHolds, PTL DEF Spec, ImplementsPool, Pool!Spec

=============================================================================
