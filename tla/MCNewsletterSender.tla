------------------------- MODULE MCNewsletterSender -------------------------
(* Two batches: the first has two recipients, the second one.              *)
EXTENDS NewsletterSender

CONSTANTS b1, b2, e1, e2, t1, t2, t3, a1, a2

MCBatches == {b1, b2}
MCEmailIds == {e1, e2}
MCEmailIdOf == [b \in MCBatches |-> IF b = b1 THEN e1 ELSE e2]
MCTasks == {t1, t2, t3}
MCBatchOf == [t \in MCTasks |-> IF t = t3 THEN b2 ELSE b1]
MCAddresses == {a1, a2}
MCAddressOf == [t \in MCTasks |-> IF t = t2 THEN a2 ELSE a1]

(* One batch that lists the same address twice.                            *)
TwinBatches == {b1}
TwinEmailIds == {e1}
TwinEmailIdOf == [b \in TwinBatches |-> e1]
TwinTasks == {t1, t2}
TwinBatchOf == [t \in TwinTasks |-> b1]
TwinAddresses == {a1}
TwinAddressOf == [t \in TwinTasks |-> a1]

(* The second of two batches is one that no worker can prepare.            *)
MCPoison == {b2}
NoBatch == {}

=============================================================================
