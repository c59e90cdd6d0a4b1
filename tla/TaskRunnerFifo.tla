--------------------------- MODULE TaskRunnerFifo ---------------------------
(***************************************************************************)
(* The runner with one worker and PRIORITY_FIFO tasks only, and the pool it *)
(* implements.  With a second worker, or with PRIORITY_HIGH, pop_front may  *)
(* remove another element than the one front() returned.                    *)
(***************************************************************************)
EXTENDS TaskRunner

CONSTANT Worker1

OneWorker == Workers = {Worker1} /\ HighPrio = {}

\* The worker has taken the front element but not yet popped it.
Taken == pc[Worker1] \in {"pop", "popping"}

first == IF Taken THEN start + 1 ELSE start
pending == [i \in 1..(finish - first) |-> slots[first + i - 1]]

Pool == INSTANCE TaskPool WITH
  Capacity <- mMaxTaskSize + 1,
  running <- task[Worker1],
  done <- freed

\* Lines 96-113 and 147-185: every interleaving of one worker with the clients
\* that call addTask behaves like the pool of TaskPool; no task is lost between
\* front() and pop_front(), run twice, or overtaken.
ImplementsPool == Pool!Spec
=============================================================================
