---------------------------- MODULE MCTaskRunner ----------------------------
(* Small instances of TaskRunner.                                           *)
EXTENDS TaskRunner

\* The owner of main.cpp: start, then delete.
PlanMain == {<<"start", "flush_nowait">>}

\* A graceful flush before the destructor's, two flushes, and a restart.
PlansAll == PlanMain \cup
            {<<"start", "flush_gracefull", "flush_nowait">>,
             <<"start", "flush_nowait", "flush_nowait">>,
             <<"start", "flush_nowait", "start", "flush_nowait">>}
=============================================================================
