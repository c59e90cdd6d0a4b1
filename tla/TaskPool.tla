------------------------------ MODULE TaskPool ------------------------------
(***************************************************************************)
(* What a pool with one worker promises: the tasks it accepts are run one   *)
(* at a time, each at most once, in the order they were accepted, and at    *)
(* most Capacity of them wait.  A pool may stop at any moment and leave the *)
(* tasks that wait undone.                                                  *)
(***************************************************************************)
EXTENDS Naturals, Sequences

CONSTANTS Tasks, Null, Capacity

VARIABLES
  pending,  \* the accepted tasks no worker has taken, oldest first
  running,  \* the task the worker has taken, or Null
  done      \* the tasks the worker has finished

vars == <<pending, running, done>>

Known == {pending[i] : i \in DOMAIN pending} \cup {running} \cup done

Init == pending = <<>> /\ running = Null /\ done = {}

Accept(t) ==
  /\ t \notin Known
  /\ Len(pending) < Capacity
  /\ pending' = Append(pending, t)
  /\ UNCHANGED <<running, done>>

Take ==
  /\ running = Null
  /\ pending # <<>>
  /\ running' = Head(pending)
  /\ pending' = Tail(pending)
  /\ done' = done

Finish ==
  /\ running # Null
  /\ done' = done \cup {running}
  /\ running' = Null
  /\ pending' = pending

Next == (\E t \in Tasks : Accept(t)) \/ Take \/ Finish

Spec == Init /\ [][Next]_vars
=============================================================================
