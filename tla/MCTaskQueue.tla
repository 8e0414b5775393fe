------------------------------ MODULE MCTaskQueue ------------------------------
(* An instance of WorkerPool, with its TaskQueue, for TLC. *)
EXTENDS WorkerPool

CONSTANTS t1, t2, w1, w2, i1, i2

TwoTasks == {t1, t2}
TwoWorkers == {w1, w2}
TwoIds == {i1, i2}
================================================================================
