------------------------------ MODULE TaskPool ------------------------------
(***************************************************************************)
(* What a TaskQueue promises its caller, without timers, pointers, flags   *)
(* or counters: tasks start in the order they were submitted, at most      *)
(* MaxConcurrent run at once, each runs at most once, and whoever waits    *)
(* for the pool is released when it is empty and not before.               *)
(***************************************************************************)
EXTENDS Naturals, FiniteSets, Sequences

CONSTANTS Tasks, Waiters, MaxConcurrent

VARIABLES
    fresh,    \* tasks nobody submitted yet
    pending,  \* submitted tasks, in order
    active,   \* running tasks
    waiting   \* callers waiting for the pool to be empty

vars == <<fresh, pending, active, waiting>>

Init ==
    /\ fresh = Tasks
    /\ pending = <<>>
    /\ active = {}
    /\ waiting = {}

\* The next state has "todo" left to start and "now" running, or one task of
\* the former moved to the latter.
StartAtMostOne(todo, now) ==
    \/ pending' = todo /\ active' = now
    \/ /\ todo # <<>>
       /\ Cardinality(now) < MaxConcurrent
       /\ pending' = Tail(todo)
       /\ active' = now \cup {Head(todo)}

\* Waiters leave together, and exactly when nothing is left.
ReleaseIfEmpty == waiting' = IF pending' = <<>> /\ active' = {} THEN {} ELSE waiting

Submit(t) ==
    /\ t \in fresh
    /\ fresh' = fresh \ {t}
    /\ StartAtMostOne(Append(pending, t), active)
    /\ UNCHANGED waiting

Start ==
    /\ StartAtMostOne(pending, active)
    /\ UNCHANGED <<fresh, waiting>>

Complete(t) ==
    /\ t \in active
    /\ StartAtMostOne(pending, active \ {t})
    /\ ReleaseIfEmpty
    /\ UNCHANGED fresh

Discard ==
    /\ pending' = <<>>
    /\ UNCHANGED <<fresh, active>>
    /\ ReleaseIfEmpty

Wait(w) ==
    /\ pending # <<>> \/ active # {}
    /\ waiting' = waiting \cup {w}
    /\ UNCHANGED <<fresh, pending, active>>

Next ==
    \/ \E t \in Tasks : Submit(t) \/ Complete(t)
    \/ Start \/ Discard
    \/ \E w \in Waiters : Wait(w)

Spec == Init /\ [][Next]_vars

=============================================================================
