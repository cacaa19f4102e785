----------------------------- MODULE MCKeQueue -----------------------------
(* KeQueue for TLC.                                                           *)
EXTENDS KeQueue
CONSTANTS t1, t2, e1, q1, q2, reap

TwoThreads == {t1, t2}
TwoQueues == {q1, q2}
OneQueue == {q1}

(* With a user mode call with a timeout, and a poll at APC_LEVEL.             *)
Caller == [irql0 |-> TRUE, mode |-> "UserMode", timeout |-> "time"]
Poller == [irql0 |-> FALSE, mode |-> "KernelMode", timeout |-> "zero"]
AllArgs == {ExpWorkerThread, Caller, Poller}
WorkerArgs == {ExpWorkerThread}
=============================================================================
