---------------------------- MODULE TimerService ----------------------------
(***************************************************************************)
(* What the timers package promises its client: a set of scheduled timers   *)
(* with deadlines.  A pass of timer_run calls back every timer that was due *)
(* when the pass began, earliest first, none before its deadline, none that *)
(* is not scheduled; a one-shot timer is descheduled when its callback      *)
(* returns, a periodic one is scheduled one period later.                   *)
(***************************************************************************)
EXTENDS Integers

CONSTANTS Timers, NULL, Times

VARIABLES
  now,       \* the time timer_run goes by: the clock, but fixed during a pass
  deadline,  \* the scheduled timers and their deadlines
  due,       \* the timers this pass has still to call back
  running    \* the timer whose callback runs, or NULL

vars == <<now, deadline, due, running>>

Scheduled == DOMAIN deadline
Without(t) == [s \in Scheduled \ {t} |-> deadline[s]]
With(t, when) == [s \in Scheduled \cup {t} |-> IF s = t THEN when ELSE deadline[s]]

Init == now = 0 /\ deadline = [t \in {} |-> 0] /\ due = {} /\ running = NULL

Pass == \E time \in Times : time > now /\ now' = time /\ UNCHANGED <<deadline, due, running>>

Schedule(t) ==
  /\ t \notin Scheduled
  /\ \E when \in Times : when >= now /\ deadline' = With(t, when)
  /\ UNCHANGED <<now, due, running>>

\* A timer that is given a new deadline is not owed a callback in this pass.
Reset(t) ==
  /\ t \in Scheduled
  /\ \E when \in Times : when >= now /\ deadline' = With(t, when)
  /\ due' = due \ {t}
  /\ UNCHANGED <<now, running>>

Cancel(t) ==
  /\ t \in Scheduled
  /\ deadline' = Without(t)
  /\ due' = due \ {t}
  /\ UNCHANGED <<now, running>>

Clear ==
  /\ running = NULL /\ due = {}
  /\ deadline' = [t \in {} |-> 0]
  /\ UNCHANGED <<now, due, running>>

Begin ==
  /\ running = NULL /\ due = {}
  /\ due' = {t \in Scheduled : deadline[t] <= now}
  /\ UNCHANGED <<now, deadline, running>>

CallBack(t) ==
  /\ running = NULL
  /\ t \in Scheduled /\ deadline[t] <= now
  /\ \A s \in due : deadline[t] <= deadline[s]
  /\ running' = t
  /\ due' = due \ {t}
  /\ UNCHANGED <<now, deadline>>

\* The callback returns: the timer is gone, or waits for its next period.
Return ==
  /\ running # NULL
  /\ \/ deadline' = Without(running)
     \/ \E when \in Times : when > deadline[running] /\ deadline' = With(running, when)
  /\ running' = NULL
  /\ UNCHANGED <<now, due>>

Next ==
  \/ \E t \in Timers : Schedule(t) \/ Reset(t) \/ Cancel(t) \/ CallBack(t)
  \/ Pass \/ Begin \/ Return \/ Clear

Spec == Init /\ [][Next]_vars
=============================================================================
