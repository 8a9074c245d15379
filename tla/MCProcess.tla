----------------------------- MODULE MCProcess -----------------------------
EXTENDS Process, TLC

CONSTANTS sender, events, p1, e1, e2

MCWorkers == {sender, events}
MCPollers == {p1, e1, e2}
MCWorkerOf == p1 :> sender @@ e1 :> events @@ e2 :> events
MCProcessingDeadline == sender :> 3 @@ events :> 3

Siblings == Permutations({e1, e2})

=============================================================================
