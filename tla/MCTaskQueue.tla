---------------------------- MODULE MCTaskQueue ----------------------------
EXTENDS TaskQueue

CONSTANTS t1, t2, t3, w1, w2

MCTasks == {t1, t2, t3}
MCWaiters == {w1, w2}

=============================================================================
