------------------------------ MODULE TimerList -----------------------------
(***************************************************************************)
(* The timers package (src/libMTPerfBase/PerfBasic/MTTimer.cpp; the file    *)
(* src/libMTPerfBase/MTTimer.cpp is a copy of it): a doubly linked list of  *)
(* timers sorted by time, a free list threaded through the same next        *)
(* pointers, and timer_run, which walks the list and calls the timers back. *)
(* A callback is client code: it may call the package again.  A timeval is  *)
(* a number of microseconds: the code keeps tv_usec below one second, so    *)
(* comparing seconds first and microseconds second compares that number.    *)
(***************************************************************************)
EXTENDS Integers, Sequences, FiniteSets

CONSTANTS
  Timers,      \* the Timer structs malloc can return
  NULL,
  Delays,      \* the values of usecs
  Periods,     \* the values of usecs for a periodic timer
  CallbackOps, \* what a callback does to the package
  MaxClock,    \* bound on the clock
  MaxTime      \* bound on the times this leads to

Ops == {"create", "reset_self", "cancel_self", "reset_other", "cancel_other"}

ASSUME DelaysAssumption == Delays \subseteq Nat /\ Periods \subseteq Nat /\ MaxClock \in Nat
ASSUME TimesAssumption == MaxTime \in Nat /\ \A d \in Delays \cup {0} : MaxClock + 2 * d <= MaxTime
ASSUME TimersAssumption == IsFiniteSet(Timers) /\ NULL \notin Timers /\ CallbackOps \subseteq Ops

VARIABLES
  timers, free_timers, \* the two heads
  next, prev,          \* the pointers of every Timer
  time, usecs, periodic,
  heap,                \* the Timers obtained from malloc and not yet freed
  clock,               \* what gettimeofday returns
  phase,               \* the client's code, timer_run's loop, or a callback in it
  now, current, t_next, \* the locals now, t and next of timer_run
  due                  \* the timers due when timer_run began and not yet run

list == <<timers, free_timers, next, prev>>
fields == <<time, usecs, periodic>>
locals == <<now, current, t_next>>
timers_vars == <<list, fields, heap, clock, phase, locals, due>>

\* A pointer never points to a Timer that was freed.
Pointer == heap \cup {NULL}

TimersTypeOK ==
  /\ heap \subseteq Timers
  /\ timers \in Pointer /\ free_timers \in Pointer
  /\ next \in [Timers -> Pointer] /\ prev \in [Timers -> Pointer]
  /\ time \in [Timers -> Nat] /\ usecs \in [Timers -> Nat]
  /\ periodic \in [Timers -> BOOLEAN]
  /\ clock \in 0..MaxClock /\ now \in 0..MaxClock
  /\ phase \in {"client", "walk", "callback"}
  /\ current \in Pointer /\ t_next \in Pointer
  /\ due \subseteq Timers

TimersInit ==
  /\ timers = NULL /\ free_timers = NULL
  /\ next = [x \in Timers |-> NULL] /\ prev = [x \in Timers |-> NULL]
  /\ time = [x \in Timers |-> 0] /\ usecs = [x \in Timers |-> 0]
  /\ periodic = [x \in Timers |-> FALSE]
  /\ heap = {} /\ clock = 0 /\ phase = "client"
  /\ now = 0 /\ current = NULL /\ t_next = NULL /\ due = {}

-----------------------------------------------------------------------------
(* The lists.  An operation on the active list is a function from a record  *)
(* of its head and pointers to another.                                     *)

\* The sequence of the timers from a head on; one longer than the number of
\* timers when the pointers form a cycle.
Chain(head, nx) ==
  LET N == Cardinality(Timers)
      nth[k \in 0..N] == IF k = 0 THEN head
                         ELSE LET x == nth[k - 1] IN IF x = NULL THEN NULL ELSE nx[x]
      length == Cardinality({k \in 0..N : nth[k] # NULL})
  IN  [k \in 1..length |-> nth[k - 1]]

Nodes(chain) == {chain[k] : k \in DOMAIN chain}
Active == Nodes(Chain(timers, next))
Free == Nodes(Chain(free_timers, next))

Linked(s, p, x, q) ==
  [head |-> IF p = NULL THEN x ELSE s.head,
   nx |-> [y \in Timers |-> IF y = x THEN q ELSE IF y = p THEN x ELSE s.nx[y]],
   pv |-> [y \in Timers |-> IF y = x THEN p ELSE IF y = q THEN x ELSE s.pv[y]]]

Before(when, other) == when < other

\* The timer after which x goes: the last of the run of timers, from the head
\* on, that x is not before.
InsertAfter(s, x, tm) ==
  LET c == Chain(s.head, s.nx)
      ready == {k \in DOMAIN c : \A j \in 1..k : ~Before(tm[x], tm[c[j]])}
  IN  IF ready = {} THEN NULL ELSE c[CHOOSE k \in ready : \A j \in ready : j <= k]

list_add(s, x, tm) ==
  LET p == InsertAfter(s, x, tm)
  IN  Linked(s, p, x, IF p = NULL THEN s.head ELSE s.nx[p])

\* A removed timer keeps its own pointers.
list_remove(s, x) ==
  [head |-> IF s.pv[x] = NULL THEN s.nx[x] ELSE s.head,
   nx |-> [y \in Timers |-> IF y = s.pv[x] THEN s.nx[x] ELSE s.nx[y]],
   pv |-> [y \in Timers |-> IF y = s.nx[x] THEN s.pv[x] ELSE s.pv[y]]]

NotMoved(s, x, tm) == s
list_resort(s, x, tm) == list_add(list_remove(s, x), x, tm)

This == [head |-> timers, nx |-> next, pv |-> prev]
SetList(s) == timers' = s.head /\ next' = s.nx /\ prev' = s.pv

\* timer_cancel: off the active list, onto the free list.
Cancelled(x) ==
  LET s == list_remove(This, x)
  IN  /\ SetList([s EXCEPT !.nx[x] = free_timers, !.pv[x] = NULL])
      /\ free_timers' = x

-----------------------------------------------------------------------------
(* The calls a client makes, outside timer_run or in a callback.            *)

\* Outside timer_run the client may touch any scheduled timer.
Allowed(op, x) ==
  \/ phase = "client"
  \/ /\ phase = "callback"
     /\ \/ op = "create" /\ "create" \in CallbackOps
        \/ op = "reset" /\ (IF x = current THEN "reset_self" ELSE "reset_other") \in CallbackOps
        \/ op = "cancel" /\ (IF x = current THEN "cancel_self" ELSE "cancel_other") \in CallbackOps

\* The Timer comes from the free list, or from malloc.
timer_create(x, delay, period) ==
  /\ Allowed("create", x)
  /\ \/ free_timers = x /\ free_timers' = next[x] /\ heap' = heap
     \/ free_timers = NULL /\ x \notin heap /\ heap' = heap \cup {x} /\ free_timers' = NULL
  /\ period => delay \in Periods
  /\ usecs' = [usecs EXCEPT ![x] = delay]
  /\ periodic' = [periodic EXCEPT ![x] = period]
  /\ time' = [time EXCEPT ![x] = clock + delay]
  /\ SetList(list_add(This, x, time'))
  /\ UNCHANGED <<clock, phase, locals, due>>

timer_reset(x) ==
  /\ Allowed("reset", x)
  /\ x \in Active
  /\ time' = [time EXCEPT ![x] = clock + usecs[x]]
  /\ SetList(list_resort(This, x, time'))
  /\ due' = due \ {x}
  /\ UNCHANGED <<free_timers, usecs, periodic, heap, clock, phase, locals>>

timer_cancel(x) ==
  /\ Allowed("cancel", x)
  /\ x \in Active
  /\ Cancelled(x)
  /\ due' = due \ {x}
  /\ UNCHANGED <<fields, heap, clock, phase, locals>>

\* What a freed Timer held is gone.
Zeroed(f, gone, zero) == [x \in Timers |-> IF x \in gone THEN zero ELSE f[x]]
Freed(gone) ==
  /\ heap' = heap \ gone
  /\ free_timers' = NULL
  /\ next' = Zeroed(next, gone, NULL) /\ prev' = Zeroed(prev, gone, NULL)
  /\ time' = Zeroed(time, gone, 0) /\ usecs' = Zeroed(usecs, gone, 0)
  /\ periodic' = Zeroed(periodic, gone, FALSE)

timer_cleanup ==
  /\ phase = "client"
  /\ Freed(Free)
  /\ UNCHANGED <<timers, clock, phase, locals, due>>

timer_destroy ==
  /\ phase = "client"
  /\ Freed(Active \cup Free)
  /\ timers' = NULL
  /\ UNCHANGED <<clock, phase, locals, due>>

\* timer_timeout: how long until the first timer, NULL when there is none.
timer_timeout ==
  IF timers = NULL THEN NULL
  ELSE IF time[timers] <= clock THEN 0 ELSE time[timers] - clock

-----------------------------------------------------------------------------
(* timer_run.                                                               *)

RunBegin ==
  /\ phase = "client"
  /\ now' = clock
  /\ current' = timers
  /\ due' = {x \in Active : time[x] <= clock}
  /\ phase' = "walk"
  /\ UNCHANGED <<list, fields, heap, clock, t_next>>

NotReadyYet(x) == time[x] >= now
NotReady(x) == time[x] > now

\* The next timer is remembered before the callback.
RunCall ==
  /\ phase = "walk"
  /\ current # NULL
  /\ ~NotReady(current)
  /\ t_next' = next[current]
  /\ due' = due \ {current}
  /\ phase' = "callback"
  /\ UNCHANGED <<list, fields, heap, clock, now, current>>

RunEnd ==
  /\ phase = "walk"
  /\ IF current = NULL THEN TRUE ELSE NotReady(current)
  /\ current' = NULL /\ now' = 0
  /\ phase' = "client"
  /\ UNCHANGED <<list, fields, heap, clock, t_next, due>>

NotAdvanced(x) == time[x]
Rescheduled(x) == time[x] + usecs[x]

\* The callback returns: reschedule or deschedule, and go on.
RunReturn ==
  /\ phase = "callback"
  /\ \/ /\ periodic[current]
        /\ time' = [time EXCEPT ![current] = Rescheduled(current)]
        /\ SetList(list_resort(This, current, time'))
        /\ free_timers' = free_timers
     \/ /\ ~periodic[current]
        /\ Cancelled(current)
        /\ time' = time
  /\ current' = t_next /\ t_next' = NULL
  /\ phase' = "walk"
  /\ UNCHANGED <<usecs, periodic, heap, clock, now, due>>

Tick == clock < MaxClock /\ clock' = clock + 1
        /\ UNCHANGED <<list, fields, heap, phase, locals, due>>

TimersNext ==
  \/ \E x \in Timers : \/ \E d \in Delays, p \in BOOLEAN : timer_create(x, d, p)
                       \/ timer_reset(x) \/ timer_cancel(x)
  \/ timer_cleanup \/ timer_destroy
  \/ RunBegin \/ RunCall \/ RunEnd \/ RunReturn \/ Tick

TimersSpec == TimersInit /\ [][TimersNext]_timers_vars

-----------------------------------------------------------------------------
\* Lines 153-170: the timeout given to select ends when the earliest timer is due,
\* neither later (a timer would be late) nor earlier unless one is overdue.
TimeoutIsEarliest ==
  IF Active = {} THEN timer_timeout = NULL
  ELSE \E x \in Active :
         /\ \A y \in Active : time[x] <= time[y]
         /\ timer_timeout = IF time[x] > clock THEN time[x] - clock ELSE 0

\* Lines 54-111 and 208-216: whatever the callbacks create and reset, the two
\* lists are finite, share no timer, hold all that malloc gave, the active one is
\* sorted, its prev pointers are the inverse of its next pointers, and select's
\* timeout is the time until its earliest timer.
ListsSound ==
  LET a == Chain(timers, next)
      f == Chain(free_timers, next)
      N == Cardinality(Timers)
  IN  /\ TimersTypeOK
      /\ Len(a) + Len(f) = Cardinality(heap)
      /\ Nodes(a) \cup Nodes(f) = heap
      /\ \A k \in 1..Len(a) - 1 : time[a[k]] <= time[a[k + 1]]
      /\ \A k \in 1..Len(a) : prev[a[k]] = IF k = 1 THEN NULL ELSE a[k - 1]
      /\ TimeoutIsEarliest

\* The package implements the service, with the clock value of the pass.
Service == INSTANCE TimerService WITH
  Times <- 0..MaxTime,
  now <- IF phase = "client" THEN clock ELSE now,
  deadline <- [x \in Active |-> time[x]],
  running <- IF phase = "callback" THEN current ELSE NULL

\* Lines 172-216: every timer due when the pass begins is called back in the
\* pass, earliest first, none early and none that was cancelled.
ImplementsService == Service!Spec

\* ... and none is left over when the pass ends.
AllDueRun == phase = "client" => due = {}
=============================================================================
