------------------------------ MODULE EventLoop ------------------------------
(***************************************************************************)
(* The event loop of live555 (BasicTaskScheduler.cpp, BasicTaskScheduler0    *)
(* .cpp), in which the RTSP server and clients run: a step of it waits in    *)
(* select until a socket is readable or a delayed task is due, and then      *)
(* calls at most one socket's handler, one triggered event's handler and     *)
(* one delayed task.  Whatever is called may change the sockets, the         *)
(* triggers and the tasks, and may run the loop within itself.              *)
(*                                                                         *)
(* Sockets are handled for reading only: writing and exceptions are other    *)
(* bits of the same sets.  A handler is its socket's, a task its token's.    *)
(***************************************************************************)
EXTENDS DelayQueue, SequencesExt

CONSTANTS
  TICK,         \* the task that wakes the loop regularly, a member of Tasks
  Granularity,  \* maxSchedulerGranularity
  Socks,        \* socket numbers
  MAX_NUM_EVENT_TRIGGERS,
  AppOps,       \* what the program's callbacks do, see AllAppOps
  MaxDepth      \* bound on loops within loops

AllAppOps == {"schedule", "unschedule", "turnOn", "turnOff", "move", "create", "delete", "trigger", "loop"}
Triggers == 0..MAX_NUM_EVENT_TRIGGERS - 1
None == -1

ASSUME LoopAssumption ==
  /\ TICK \in Tasks /\ Granularity \in Delays
  /\ Socks \subseteq Nat
  /\ MAX_NUM_EVENT_TRIGGERS \in Nat \ {0}
  /\ AppOps \subseteq AllAppOps /\ MaxDepth \in Nat

VARIABLES
  phase,       \* where SingleStep is, or "callback" and "back" in a callback
  back,        \* where it goes on after the callback, and the trigger it then notes as last
  frames,      \* the callbacks that run a loop, outermost first
  handlers,    \* the list of sockets with a handler
  readSet,     \* fReadSet
  maxNum,      \* fMaxNumSockets
  lastSock,    \* fLastHandledSocketNum
  result,      \* readSet after select
  ready,       \* the sockets with something to read
  procs,       \* the triggers with a handler
  awaiting,    \* fTriggersAwaitingHandling
  lastTrig     \* fLastUsedTriggerNum

socks == <<handlers, readSet, maxNum>>
trigs == <<procs, awaiting, lastTrig>>
lvars == <<phase, back, frames, handlers, readSet, maxNum, lastSock, result, ready,
           procs, awaiting, lastTrig>>
vars == <<qvars, lvars>>

Back == [phase : {"trigger", "alarm", "top"}, trig : Triggers \cup {None}]
ToTop == [phase |-> "top", trig |-> None]

LoopTypeOK ==
  /\ phase \in {"top", "select", "socket", "trigger", "alarm", "alarmed", "tick", "callback", "back"}
  /\ back \in Back /\ frames \in Seq(Back)
  /\ handlers \in Seq(Socks) /\ readSet \subseteq Socks /\ maxNum \in Nat
  /\ lastSock \in Socks \cup {None}
  /\ result \subseteq Socks /\ ready \subseteq Socks
  /\ procs \subseteq Triggers /\ awaiting \subseteq Triggers /\ lastTrig \in Triggers

TypeOK == QueueTypeOK /\ LoopTypeOK

\* The constructor schedules the first tick; the program has one socket handled.
Init ==
  /\ QueueInit
  /\ phase = "tick" /\ back = ToTop /\ frames = <<>>
  /\ \E s \in Socks : handlers = <<s>> /\ readSet = {s} /\ maxNum = s + 1
  /\ lastSock = None /\ result = {} /\ ready = {}
  /\ procs = {} /\ awaiting = {} /\ lastTrig = MAX_NUM_EVENT_TRIGGERS - 1

Quiet == at = "idle"

-----------------------------------------------------------------------------
(* The environment.                                                         *)

\* Something comes for a socket.
Arrive(s) ==
  /\ s \notin ready
  /\ ready' = ready \cup {s}
  /\ UNCHANGED <<qvars, phase, back, frames, socks, lastSock, result, trigs>>

Clock == (Tick \/ SetBack) /\ UNCHANGED lvars

-----------------------------------------------------------------------------
(* SingleStep, and doEventLoop around it.                                   *)

\* doEventLoop looks at its watch variable, and SingleStep at the delay queue.
Top ==
  /\ phase = "top" /\ TimeToNextAlarm
  /\ phase' = "select"
  /\ UNCHANGED <<back, frames, socks, lastSock, result, ready, trigs>>

\* The watch variable of a loop within a callback is set.
Leave ==
  /\ phase = "top" /\ Quiet /\ frames # <<>>
  /\ phase' = "back" /\ back' = Last(frames) /\ frames' = Front(frames)
  /\ UNCHANGED <<qvars, socks, lastSock, result, ready, trigs>>

Looked == {s \in readSet : s < maxNum}

\* select returns with what can be read, or with nothing when its time is up, by
\* a clock that is not set back, ...
Select ==
  /\ phase = "select" /\ Quiet
  /\ result' = Looked \cap ready
  /\ phase' = "socket"
  /\ UNCHANGED <<qvars, back, frames, socks, lastSock, ready, trigs>>

\* ... or a signal interrupts it, and the set is as it was before.
Interrupted ==
  /\ phase = "select" /\ Quiet
  /\ result' = readSet
  /\ phase' = "socket"
  /\ UNCHANGED <<qvars, back, frames, socks, lastSock, ready, trigs>>

\* Mutant: the handlers are always looked at from the first one.
FromFirst(h) == h

\* lookupHandler: the first handler of socket s in the list h.
Place(h, s) == CHOOSE i \in 1..Len(h) : h[i] = s /\ \A j \in 1..i - 1 : h[j] # s

\* The handlers in the order in which they are looked at: from behind the one
\* that was called last, and those up to it when none is found.
Order(h) ==
  IF lastSock # None /\ Contains(h, lastSock)
  THEN SubSeq(h, Place(h, lastSock) + 1, Len(h)) \o SubSeq(h, 1, Place(h, lastSock))
  ELSE h

Called(s) ==
  LET h == Order(handlers)
  IN  \E i \in 1..Len(h) : h[i] = s /\ s \in result /\ \A j \in 1..i - 1 : h[j] \notin result

\* One handler is called; it may leave something to read.
CallSocket(s) ==
  /\ phase = "socket" /\ Called(s)
  /\ lastSock' = s
  /\ ready' \in {ready, ready \ {s}}
  /\ result' = {}
  /\ phase' = "callback" /\ back' = [phase |-> "trigger", trig |-> None]
  /\ UNCHANGED <<qvars, frames, socks, trigs>>

NoSocket ==
  /\ phase = "socket" /\ \A s \in Socks : ~Called(s)
  /\ lastSock' = None
  /\ phase' = "trigger"
  /\ UNCHANGED <<qvars, back, frames, socks, result, ready, trigs>>

\* The trigger that is handled: the last one when it is alone, or else the next
\* one behind it that awaits handling.
Distance(i) == (i - lastTrig - 1) % MAX_NUM_EVENT_TRIGGERS

\* Mutant: the one with the lowest number.
LowestTrigger(i) == i \in awaiting /\ \A j \in awaiting : i <= j
NextTrigger(i) == i \in awaiting /\ \A j \in awaiting : Distance(i) <= Distance(j)

CallTrigger(i) ==
  /\ phase = "trigger" /\ NextTrigger(i)
  /\ awaiting' = awaiting \ {i}
  /\ IF i \in procs
     THEN /\ phase' = "callback" /\ UNCHANGED lastTrig
          /\ back' = [phase |-> "alarm", trig |-> IF awaiting = {lastTrig} THEN None ELSE i]
     ELSE phase' = "alarm" /\ lastTrig' = i /\ UNCHANGED back
  /\ UNCHANGED <<qvars, frames, socks, lastSock, result, ready, procs>>

NoTrigger ==
  /\ phase = "trigger" /\ awaiting = {}
  /\ phase' = "alarm"
  /\ UNCHANGED <<qvars, back, frames, socks, lastSock, result, ready, trigs>>

Alarm ==
  /\ phase = "alarm" /\ HandleAlarm
  /\ phase' = "alarmed"
  /\ UNCHANGED <<back, frames, socks, lastSock, result, ready, trigs>>

\* The task that is due is run: the tick, or one of the program's.
RunTask(t) ==
  /\ phase = "alarmed" /\ Fire(t)
  /\ phase' = IF t = TICK THEN "tick" ELSE "callback"
  /\ back' = ToTop
  /\ UNCHANGED <<frames, socks, lastSock, result, ready, trigs>>

NoTask ==
  /\ phase = "alarmed" /\ NothingDue
  /\ phase' = "top"
  /\ UNCHANGED <<back, frames, socks, lastSock, result, ready, trigs>>

\* schedulerTickTask
SchedulerTick ==
  /\ phase = "tick" /\ AddEntry(TICK, Granularity)
  /\ phase' = "back"
  /\ UNCHANGED <<back, frames, socks, lastSock, result, ready, trigs>>

\* The delay queue's loops.
Walk == (SyncStep \/ InsertStep) /\ UNCHANGED lvars

Return ==
  /\ phase \in {"callback", "back"} /\ Quiet
  /\ phase' = back.phase
  /\ lastTrig' = IF back.trig = None THEN lastTrig ELSE back.trig
  /\ back' = ToTop
  /\ UNCHANGED <<qvars, frames, socks, lastSock, result, ready, procs, awaiting>>

-----------------------------------------------------------------------------
(* What a callback does, any number of times.                               *)

Callback(o) == phase = "callback" /\ o \in AppOps /\ Quiet /\ UNCHANGED phase

Schedule(t, d) ==
  /\ Callback("schedule") /\ t # TICK /\ AddEntry(t, d)
  /\ UNCHANGED <<back, frames, socks, lastSock, result, ready, trigs>>

Unschedule(t) ==
  /\ Callback("unschedule") /\ t # TICK /\ RemoveEntry(t)
  /\ UNCHANGED <<back, frames, socks, lastSock, result, ready, trigs>>

\* Mutant: the last number counts, not the highest.
Latest(s) == s + 1
Higher(s) == IF s + 1 > maxNum THEN s + 1 ELSE maxNum

\* setBackgroundHandling: a socket that had no handler comes first in the list.
TurnOn(s) ==
  /\ Callback("turnOn")
  /\ handlers' = IF Contains(handlers, s) THEN handlers ELSE <<s>> \o handlers
  /\ readSet' = readSet \cup {s}
  /\ maxNum' = Higher(s)
  /\ UNCHANGED <<qvars, back, frames, lastSock, result, ready, trigs>>

TurnOff(s) ==
  /\ Callback("turnOff")
  /\ handlers' = IF Contains(handlers, s) THEN RemoveAt(handlers, Place(handlers, s)) ELSE handlers
  /\ readSet' = readSet \ {s}
  /\ maxNum' = IF s + 1 = maxNum THEN maxNum - 1 ELSE maxNum
  /\ UNCHANGED <<qvars, back, frames, lastSock, result, ready, trigs>>

\* moveSocketHandling, to a number that had none (the socket was just made).
Move(s, n) ==
  /\ Callback("move") /\ s # n /\ ~Contains(handlers, n)
  /\ handlers' = [i \in 1..Len(handlers) |-> IF handlers[i] = s THEN n ELSE handlers[i]]
  /\ readSet' = IF s \in readSet THEN (readSet \ {s}) \cup {n} ELSE readSet
  /\ maxNum' = LET m == IF s + 1 = maxNum THEN maxNum - 1 ELSE maxNum
               IN  IF n + 1 > m THEN n + 1 ELSE m
  /\ UNCHANGED <<qvars, back, frames, lastSock, result, ready, trigs>>

\* createEventTrigger: the next free number behind the last one, if any.
Create ==
  /\ Callback("create")
  /\ \/ procs = Triggers /\ UNCHANGED <<procs, lastTrig>>
     \/ \E i \in Triggers \ procs :
          /\ \A j \in Triggers \ procs : Distance(i) <= Distance(j)
          /\ procs' = procs \cup {i} /\ lastTrig' = i
  /\ UNCHANGED <<qvars, back, frames, socks, lastSock, result, ready, awaiting>>

Delete(i) ==
  /\ Callback("delete") /\ i \in procs
  /\ procs' = procs \ {i} /\ awaiting' = awaiting \ {i}
  /\ UNCHANGED <<qvars, back, frames, socks, lastSock, result, ready, lastTrig>>

TriggerEvent(i) ==
  /\ Callback("trigger")
  /\ awaiting' = awaiting \cup {i}
  /\ UNCHANGED <<qvars, back, frames, socks, lastSock, result, ready, procs, lastTrig>>

\* doEventLoop within the callback.
Nest ==
  /\ phase = "callback" /\ "loop" \in AppOps /\ Quiet /\ Len(frames) < MaxDepth
  /\ phase' = "top" /\ frames' = Append(frames, back) /\ back' = ToTop
  /\ UNCHANGED <<qvars, socks, lastSock, result, ready, trigs>>

AppStep ==
  \/ \E t \in Tasks : Unschedule(t) \/ \E d \in Delays : Schedule(t, d)
  \/ \E s \in Socks : TurnOn(s) \/ TurnOff(s) \/ \E n \in Socks : Move(s, n)
  \/ \E i \in Triggers : Delete(i) \/ TriggerEvent(i)
  \/ Create \/ Nest

LoopStep ==
  \/ Top \/ Select \/ NoSocket \/ NoTrigger \/ Alarm \/ NoTask \/ SchedulerTick \/ Walk \/ Return
  \/ \E s \in Socks : CallSocket(s)
  \/ \E i \in Triggers : CallTrigger(i)
  \/ \E t \in Tasks : RunTask(t)

Next ==
  \/ LoopStep \/ AppStep \/ Leave \/ Interrupted
  \/ Clock
  \/ \E s \in Socks : Arrive(s)

Spec == Init /\ [][Next]_vars

\* The loop runs, its callbacks return, and time passes.
FairSpec ==
  Spec /\ WF_vars(LoopStep) /\ SF_vars(Return) /\ WF_vars(Tick /\ UNCHANGED lvars)

-----------------------------------------------------------------------------
\* BasicTaskScheduler.cpp:216-255, BasicTaskScheduler0.cpp:175-210: select looks
\* at just the sockets that have a handler, whatever is turned on, off and moved.
SelectSeesHandlers ==
  /\ Looked = ToSet(handlers)
  /\ \A i, j \in 1..Len(handlers) : i # j => handlers[i] # handlers[j]

\* BasicTaskScheduler.cpp:132-176, "To ensure forward progress through the
\* handlers": once no more handlers come and go, a socket that has something to
\* read is handled in the end, whatever the other sockets do.
SocketServed ==
  <>[][UNCHANGED handlers]_vars =>
    \A s \in Socks : (s \in ready /\ s \in readSet) ~>
      (s \notin readSet \/ (phase = "callback" /\ back.phase = "trigger" /\ lastSock = s))

\* BasicTaskScheduler.cpp:188-209, "making sure that we make forward progress
\* through all possible triggers": once no more triggers are made and deleted,
\* one that is set is handled in the end.
TriggerHandled ==
  <>[][UNCHANGED procs]_vars => \A i \in Triggers : i \in awaiting ~> i \notin awaiting
=============================================================================
