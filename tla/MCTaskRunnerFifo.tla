-------------------------- MODULE MCTaskRunnerFifo --------------------------
(* Small instances of the runner with one worker.                           *)
EXTENDS TaskRunnerFifo

ASSUME SingleWorker == OneWorker

\* The owner of main.cpp: start, then delete.
PlanMain == {<<"start", "flush_nowait">>}
=============================================================================
