----------------------------- MODULE DelayQueue -----------------------------
(***************************************************************************)
(* The queue of delayed tasks of live555's task scheduler (DelayQueue.cpp,  *)
(* and the part of BasicTaskScheduler0.cpp that fills it).  An entry keeps  *)
(* the time that remains after the entry before it; the queue is brought up *)
(* to date with the clock only when it is used, and the clock may be set    *)
(* back between two uses.                                                   *)
(*                                                                         *)
(* Time is counted in units of which the code has 1000000 a second.  The    *)
(* entry that closes the queue, with a delay of ETERNITY (68 years), is not *)
(* modelled: no time reaches it.  A task stands for its token; the code     *)
(* never uses a token twice, the model does once the task is no longer      *)
(* queued.  The loops over the queue are walked entry by entry.             *)
(***************************************************************************)
EXTENDS Integers, Sequences

CONSTANTS
  Tasks,     \* tokens of delayed tasks
  Delays,    \* delays that tasks are scheduled with
  MaxLag,    \* bound on the time between two uses of the queue
  MaxLate,   \* bound on how late a task is
  MaxBack    \* bound on how often, and by how much, the clock is set back

ASSUME DelayAssumption ==
  Delays \subseteq Nat /\ MaxLag \in Nat /\ MaxLate \in Nat /\ MaxBack \in Nat

VARIABLES
  queue,   \* the entries: a task and fDeltaTimeRemaining
  lag,     \* the clock, as the distance from fLastSyncTime
  backs,   \* how often it was set back (history)
  op,      \* what the queue is used for
  at,      \* where it is in that: "idle", or a loop, or "due" before a task is run
  cur,     \* curEntry, or cur: the position of the entry the loop is at
  rest,    \* timeSinceLastSync, or newEntry->fDeltaTimeRemaining
  left,    \* the time until each queued task is due (history)
  gone     \* during synchronize: the time since the use before (history)

qvars == <<queue, lag, backs, op, at, cur, rest, left, gone>>

Entry == [task : Tasks, delta : Nat]
NoOp == [kind |-> "none"]
Ops == {NoOp, [kind |-> "next"], [kind |-> "alarm"]} \cup [kind : {"add"}, task : Tasks, delay : Delays]

Queued == {queue[i].task : i \in 1..Len(queue)}

QueueTypeOK ==
  /\ queue \in Seq(Entry)
  /\ lag \in Int /\ backs \in 0..MaxBack
  /\ op \in Ops /\ at \in {"idle", "sync", "insert", "due"}
  /\ cur \in Nat /\ rest \in Nat
  /\ left \in [Tasks -> Int]
  /\ gone \in Nat

QueueInit ==
  /\ queue = <<>> /\ lag = 0 /\ backs = 0
  /\ op = NoOp /\ at = "idle" /\ cur = 0 /\ rest = 0
  /\ left = [t \in Tasks |-> 0] /\ gone = 0

-----------------------------------------------------------------------------
(* The clock.                                                               *)

Tick ==
  /\ lag < MaxLag /\ \A t \in Queued : left[t] - lag > -MaxLate
  /\ lag' = lag + 1
  /\ UNCHANGED <<queue, backs, op, at, cur, rest, left, gone>>

SetBack ==
  /\ backs < MaxBack
  /\ backs' = backs + 1
  /\ \E n \in 1..MaxBack : lag' = lag - n
  /\ UNCHANGED <<queue, op, at, cur, rest, left, gone>>

-----------------------------------------------------------------------------
(* synchronize, for the use o.                                              *)

\* What follows it.
After(o) == IF o.kind = "add" THEN "insert" ELSE IF o.kind = "alarm" THEN "due" ELSE "idle"

\* The loop of "insert" begins with the new entry's delay; the other uses have none.
Start(o) ==
  /\ op' = IF o.kind = "next" THEN NoOp ELSE o
  /\ at' = After(o)
  /\ cur' = IF o.kind = "add" THEN 1 ELSE 0
  /\ rest' = IF o.kind = "add" THEN o.delay ELSE 0
  /\ gone' = 0

\* Beginning of a use: when the clock was set back, nothing happens to the entries.
Synchronize(o) ==
  /\ at = "idle"
  /\ IF lag < 0
     THEN Start(o) /\ lag' = 0 /\ UNCHANGED left
     ELSE /\ op' = o /\ at' = "sync" /\ cur' = 1 /\ rest' = lag
          /\ lag' = 0
          /\ gone' = lag
          /\ left' = [t \in Tasks |-> IF t \in Queued THEN left[t] - lag ELSE 0]
  /\ UNCHANGED <<queue, backs>>

\* The entry at cur is due, or the rest of the time is taken off it.
SyncStep ==
  /\ at = "sync"
  /\ IF cur <= Len(queue) /\ rest >= queue[cur].delta
     THEN /\ rest' = rest - queue[cur].delta
          /\ queue' = [queue EXCEPT ![cur].delta = 0]
          /\ cur' = cur + 1
          /\ UNCHANGED <<op, at, gone>>
     ELSE /\ queue' = IF cur <= Len(queue) THEN [queue EXCEPT ![cur].delta = @ - rest] ELSE queue
          /\ Start(op)
  /\ UNCHANGED <<lag, backs, left>>

-----------------------------------------------------------------------------
(* The operations.                                                          *)

\* scheduleDelayedTask, addEntry
AddEntry(t, d) == t \notin Queued /\ Synchronize([kind |-> "add", task |-> t, delay |-> d])

\* Mutant: an entry is not passed when both are due at the same time.
Later(d) == rest > d
Reaches(d) == rest >= d

\* Mutant: the entry after the new one keeps its delta.
InsertedOnly(q, p, t, d) ==
  [i \in 1..Len(q) + 1 |->
     IF i < p THEN q[i] ELSE IF i = p THEN [task |-> t, delta |-> d] ELSE q[i - 1]]

\* q with an entry for task t put before position p.
Inserted(q, p, t, d) ==
  [i \in 1..Len(q) + 1 |->
     IF i < p THEN q[i]
     ELSE IF i = p THEN [task |-> t, delta |-> d]
     ELSE IF i = p + 1 THEN [q[p] EXCEPT !.delta = @ - d]
     ELSE q[i - 1]]

InsertStep ==
  /\ at = "insert"
  /\ IF cur <= Len(queue) /\ Reaches(queue[cur].delta)
     THEN /\ rest' = rest - queue[cur].delta
          /\ cur' = cur + 1
          /\ UNCHANGED <<queue, op, at, left>>
     ELSE /\ queue' = Inserted(queue, cur, op.task, rest)
          /\ left' = [left EXCEPT ![op.task] = op.delay]
          /\ op' = NoOp /\ at' = "idle" /\ cur' = 0 /\ rest' = 0
  /\ UNCHANGED <<lag, backs, gone>>

\* Mutant: the delta of the entry that goes is lost.
DeltaLost(q, p) == [i \in 1..Len(q) - 1 |-> IF i < p THEN q[i] ELSE q[i + 1]]

\* q without the entry at p, whose time goes to the next one.
Removed(q, p) ==
  [i \in 1..Len(q) - 1 |->
     IF i < p THEN q[i]
     ELSE IF i = p THEN [q[p + 1] EXCEPT !.delta = @ + q[p].delta]
     ELSE q[i + 1]]

\* unscheduleDelayedTask; a task that is not queued any more is not found.
RemoveEntry(t) ==
  /\ at = "idle"
  /\ \/ \E p \in 1..Len(queue) : queue[p].task = t /\ queue' = Removed(queue, p)
     \/ t \notin Queued /\ UNCHANGED queue
  /\ left' = [left EXCEPT ![t] = 0]
  /\ UNCHANGED <<lag, backs, op, at, cur, rest, gone>>

HeadDue == queue # <<>> /\ queue[1].delta = 0

\* timeToNextAlarm and handleAlarm leave the clock alone when a task is due.
TimeToNextAlarm ==
  /\ at = "idle"
  /\ IF HeadDue THEN UNCHANGED qvars ELSE Synchronize([kind |-> "next"])

HandleAlarm ==
  /\ at = "idle"
  /\ IF HeadDue THEN /\ at' = "due" /\ op' = [kind |-> "alarm"]
                     /\ UNCHANGED <<queue, lag, backs, cur, rest, left, gone>>
     ELSE Synchronize([kind |-> "alarm"])

\* The end of handleAlarm: the first task leaves the queue, if it is due.
Fire(t) ==
  /\ at = "due" /\ HeadDue /\ queue[1].task = t
  /\ queue' = Removed(queue, 1)
  /\ left' = [left EXCEPT ![t] = 0]
  /\ op' = NoOp /\ at' = "idle" /\ cur' = 0 /\ rest' = 0
  /\ UNCHANGED <<lag, backs, gone>>

NothingDue ==
  /\ at = "due" /\ ~HeadDue
  /\ op' = NoOp /\ at' = "idle" /\ cur' = 0 /\ rest' = 0
  /\ UNCHANGED <<queue, lag, backs, left, gone>>

QueueNext ==
  \/ Tick \/ SetBack
  \/ SyncStep \/ InsertStep
  \/ \E t \in Tasks : RemoveEntry(t) \/ Fire(t) \/ \E d \in Delays : AddEntry(t, d)
  \/ TimeToNextAlarm \/ HandleAlarm \/ NothingDue

QueueSpec == QueueInit /\ [][QueueNext]_qvars

-----------------------------------------------------------------------------
NotBefore0(n) == IF n > 0 THEN n ELSE 0

\* The time until entry i is due, as the queue can know it.
Until(i) == IF i = 0 THEN 0 ELSE NotBefore0(left[queue[i].task])

\* DelayQueue.cpp:121-200: whatever is added, removed and run, and however the
\* clock goes, the deltas add up to the time until each task is due, and the
\* tasks are queued in the order in which they are due.
DeltasRight ==
  at = "idle" =>
    /\ \A i \in 1..Len(queue) : queue[i].delta = Until(i) - Until(i - 1)
    /\ \A i, j \in 1..Len(queue) :
         i < j => queue[i].task # queue[j].task /\ left[queue[i].task] <= left[queue[j].task]

\* DelayQueue.cpp:166-176: a task that is run was due, and none that is queued
\* was due before it; when none is run none is due.
AlarmRight ==
  at = "due" =>
    /\ HeadDue => left[queue[1].task] <= 0 /\ \A t \in Queued : left[queue[1].task] <= left[t]
    /\ ~HeadDue => \A t \in Queued : left[t] > 0

\* DelayQueue.cpp:125-135: a task that is added comes after those that are due no
\* later, those due at the same time too, and before the others.
AddedLast ==
  [][\A p \in 1..Len(queue') : queue'[p].task \notin Queued =>
       \A i \in 1..Len(queue) : i < p <=> left[queue[i].task] <= left'[queue'[p].task]]_qvars
=============================================================================
