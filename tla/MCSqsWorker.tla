---------------------------- MODULE MCSqsWorker ----------------------------
EXTENDS SqsWorker

CONSTANTS q1, q2, m1, m2

MCPollers == {q1, q2}
MCMessages == {m1, m2}

=============================================================================
