----------------------------- MODULE MCEventLoop -----------------------------
(* Instances of EventLoop.                                                  *)
EXTENDS EventLoop

NoLoops == AllAppOps \ {"schedule", "unschedule", "loop"}
=============================================================================
