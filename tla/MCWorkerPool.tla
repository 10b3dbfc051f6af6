----------------------------- MODULE MCWorkerPool -----------------------------
(* Render threads that share one place in the pool.                        *)
EXTENDS WorkerPool, TLC

CONSTANTS t1, t2, t3
-----------------------------------------------------------------------------
MCThreads == {t1, t2, t3}

MCBudgets == {
  \* two threads whose calls may call again, while workers die, hang and print rubbish
  [threads |-> {t1, t2}, depth |-> 2, calls |-> 2, asks |-> 1, faults |-> 2, waits |-> 1],
  \* three threads, two of them waiting for one worker
  [threads |-> MCThreads, depth |-> 1, calls |-> 3, asks |-> 0, faults |-> 1, waits |-> 0]}
=============================================================================
