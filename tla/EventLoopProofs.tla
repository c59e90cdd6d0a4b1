--------------------------- MODULE EventLoopProofs ---------------------------
(***************************************************************************)
(* Theorems about DelayQueue and EventLoop, for every set of sockets and     *)
(* tasks, every delays, every way the clock goes and whatever the callbacks  *)
(* do.  Of the queue: the type invariant, that the differences kept in it    *)
(* are those of the times at which its tasks are due, and that what is run   *)
(* is what is due first.  Of the loop: a step of it uses the queue as        *)
(* DelayQueue says, so that all this holds in the loop, and select looks at  *)
(* the sockets that have a handler.                                         *)
(***************************************************************************)
EXTENDS EventLoop, SequenceTheorems, TLAPS

-----------------------------------------------------------------------------
(* The delay queue.                                                         *)


\* What entry i had to wait when synchronize began.
Before(i) == IF i = 0 THEN 0 ELSE NotBefore0(left[queue[i].task] + gone)

\* What each place of the code is reached for.
Purpose ==
  /\ at = "idle" => op.kind = "none"
  /\ at = "due" => op.kind = "alarm"
  /\ at = "insert" => op.kind = "add"
  /\ at = "sync" => op.kind # "none"
  /\ op.kind = "add" => op.task \notin Queued

\* The tasks differ, and come in the order in which they are due.
Ordered ==
  \A i, j \in 1..Len(queue) :
    i < j => queue[i].task # queue[j].task /\ left[queue[i].task] <= left[queue[j].task]

Synced ==
  at # "sync" => \A i \in 1..Len(queue) : queue[i].delta = Until(i) - Until(i - 1)

\* Within synchronize: the entries passed are due, the others still wait from before.
Syncing ==
  at = "sync" =>
    /\ cur \in 1..Len(queue) + 1
    /\ rest = gone - Before(cur - 1)
    /\ \A i \in 1..Len(queue) :
         /\ i < cur => queue[i].delta = 0 /\ left[queue[i].task] <= 0
         /\ i >= cur => queue[i].delta = Before(i) - Before(i - 1)

\* Within addEntry: the new entry's delay counts from the entry passed last.
Inserting ==
  at = "insert" =>
    /\ cur \in 1..Len(queue) + 1
    /\ rest = op.delay - Until(cur - 1)

QueueInv == QueueTypeOK /\ Purpose /\ Ordered /\ Synced /\ Syncing /\ Inserting

-----------------------------------------------------------------------------
(* Sequences of entries.                                                    *)

LEMMA SeqOfEntries ==
  ASSUME NEW n \in Nat, NEW f \in [1..n -> Entry]
  PROVE  f \in Seq(Entry) /\ Len(f) = n
OBVIOUS

LEMMA EntryAt ==
  ASSUME NEW q \in Seq(Entry), NEW i \in 1..Len(q)
  PROVE  q[i] \in Entry /\ q[i].task \in Tasks /\ q[i].delta \in Nat
<1>1. q[i] \in Entry
  OBVIOUS
<1> QED
  BY <1>1 DEF Entry

LEMMA InsertedIs ==
  ASSUME NEW q \in Seq(Entry), NEW p \in 1..Len(q) + 1, NEW t \in Tasks, NEW d \in Nat,
         p <= Len(q) => d <= q[p].delta
  PROVE  /\ Inserted(q, p, t, d) \in Seq(Entry)
         /\ Len(Inserted(q, p, t, d)) = Len(q) + 1
         /\ \A i \in 1..Len(q) + 1 :
              Inserted(q, p, t, d)[i] =
                IF i < p THEN q[i]
                ELSE IF i = p THEN [task |-> t, delta |-> d]
                ELSE IF i = p + 1 THEN [task |-> q[p].task, delta |-> q[p].delta - d]
                ELSE q[i - 1]
<1> DEFINE f == Inserted(q, p, t, d)
<1>1. Len(q) \in Nat /\ Len(q) + 1 \in Nat
  OBVIOUS
<1>2. \A i \in 1..Len(q) : q[i] \in Entry /\ q[i].task \in Tasks /\ q[i].delta \in Nat
  BY EntryAt
<1>3. [task |-> t, delta |-> d] \in Entry
  BY DEF Entry
<1>4. p <= Len(q) => /\ [q[p] EXCEPT !.delta = @ - d] = [task |-> q[p].task, delta |-> q[p].delta - d]
                     /\ [task |-> q[p].task, delta |-> q[p].delta - d] \in Entry
  BY <1>2 DEF Entry
<1>5. f = [i \in 1..Len(q) + 1 |->
             IF i < p THEN q[i]
             ELSE IF i = p THEN [task |-> t, delta |-> d]
             ELSE IF i = p + 1 THEN [task |-> q[p].task, delta |-> q[p].delta - d]
             ELSE q[i - 1]]
  BY <1>4 DEF Inserted
<1>6. f \in [1..Len(q) + 1 -> Entry]
  BY <1>2, <1>3, <1>4, <1>5
<1> QED
  BY <1>1, <1>5, <1>6, SeqOfEntries

LEMMA RemovedIs ==
  ASSUME NEW q \in Seq(Entry), NEW p \in 1..Len(q)
  PROVE  /\ Removed(q, p) \in Seq(Entry)
         /\ Len(Removed(q, p)) = Len(q) - 1
         /\ \A i \in 1..Len(q) - 1 :
              Removed(q, p)[i] =
                IF i < p THEN q[i]
                ELSE IF i = p THEN [task |-> q[p + 1].task, delta |-> q[p + 1].delta + q[p].delta]
                ELSE q[i + 1]
<1> DEFINE f == Removed(q, p)
<1>1. Len(q) \in Nat /\ Len(q) - 1 \in Nat
  OBVIOUS
<1>2. \A i \in 1..Len(q) : q[i] \in Entry /\ q[i].task \in Tasks /\ q[i].delta \in Nat
  BY EntryAt
<1>3. p <= Len(q) - 1 =>
        /\ [q[p + 1] EXCEPT !.delta = @ + q[p].delta]
             = [task |-> q[p + 1].task, delta |-> q[p + 1].delta + q[p].delta]
        /\ [task |-> q[p + 1].task, delta |-> q[p + 1].delta + q[p].delta] \in Entry
  <2>1. \A e \in Entry : \A d \in Nat :
          [e EXCEPT !.delta = @ + d] = [task |-> e.task, delta |-> e.delta + d]
    BY DEF Entry
  <2> HAVE p <= Len(q) - 1
  <2>2. p + 1 \in 1..Len(q)
    OBVIOUS
  <2>3. q[p + 1] \in Entry /\ q[p + 1].task \in Tasks /\ q[p + 1].delta \in Nat /\ q[p].delta \in Nat
    BY <1>2, <2>2
  <2>4. q[p + 1].delta + q[p].delta \in Nat
    BY <2>3
  <2> QED
    BY <2>1, <2>3, <2>4 DEF Entry
<1>4. f = [i \in 1..Len(q) - 1 |->
             IF i < p THEN q[i]
             ELSE IF i = p THEN [task |-> q[p + 1].task, delta |-> q[p + 1].delta + q[p].delta]
             ELSE q[i + 1]]
  BY <1>3 DEF Removed
<1>5. f \in [1..Len(q) - 1 -> Entry]
  BY <1>2, <1>3, <1>4
<1> QED
  BY <1>1, <1>4, <1>5, SeqOfEntries

-----------------------------------------------------------------------------
(* The invariant, use by use.                                               *)

LEMMA QueueFacts ==
  ASSUME QueueTypeOK
  PROVE  /\ Len(queue) \in Nat
         /\ \A i \in 1..Len(queue) :
              /\ queue[i].task \in Tasks /\ queue[i].delta \in Nat
              /\ left[queue[i].task] \in Int
              /\ Until(i) \in Nat /\ Before(i) \in Nat
         /\ Until(0) = 0 /\ Before(0) = 0
<1>1. queue \in Seq(Entry) /\ left \in [Tasks -> Int] /\ gone \in Nat
  BY DEF QueueTypeOK
<1>2. \A i \in 1..Len(queue) : queue[i].task \in Tasks /\ queue[i].delta \in Nat
  BY <1>1, EntryAt
<1>3. Len(queue) \in Nat
  BY <1>1
<1> QED
  BY <1>1, <1>2, <1>3 DEF Until, Before, NotBefore0

LEMMA InitInv == QueueInit => QueueInv
<1> SUFFICES ASSUME QueueInit PROVE QueueInv
  OBVIOUS
<1>1. queue = <<>> /\ Len(queue) = 0 /\ queue \in Seq(Entry)
  BY DEF QueueInit
<1>2. QueueTypeOK
  BY <1>1, DelayAssumption DEF QueueInit, QueueTypeOK, Ops
<1>3. Purpose
  BY DEF QueueInit, Purpose, NoOp
<1> QED
  BY <1>1, <1>2, <1>3 DEF QueueInit, QueueInv, Ordered, Synced, Syncing, Inserting

LEMMA OpFacts ==
  ASSUME NEW o \in Ops
  PROVE  /\ o.kind \in {"none", "next", "alarm", "add"}
         /\ o.kind = "add" => o.task \in Tasks /\ o.delay \in Delays /\ o.delay \in Nat
<1>1. CASE o = NoOp \/ o = [kind |-> "next"] \/ o = [kind |-> "alarm"]
  BY <1>1 DEF NoOp
<1>2. CASE o \in [kind : {"add"}, task : Tasks, delay : Delays]
  BY <1>2, DelayAssumption
<1> QED
  BY <1>1, <1>2 DEF Ops

\* The queue is left, and what follows synchronize begins.
LEMMA StartInv ==
  ASSUME QueueTypeOK, QueueTypeOK', NEW o \in Ops, Start(o),
         o.kind # "none", o.kind = "add" => o.task \notin Queued',
         Ordered',
         \A i \in 1..Len(queue') : (queue[i].delta)' = (Until(i) - Until(i - 1))'
  PROVE  QueueInv'
<1>1. o.kind \in {"next", "alarm", "add"} /\ (o.kind = "add" => o.delay \in Nat)
  BY OpFacts
<1>2. at' = After(o) /\ op' = (IF o.kind = "next" THEN NoOp ELSE o)
      /\ cur' = (IF o.kind = "add" THEN 1 ELSE 0) /\ rest' = (IF o.kind = "add" THEN o.delay ELSE 0)
  BY DEF Start
<1>3. at' # "sync"
  BY <1>1, <1>2 DEF After
<1>4. Purpose'
  BY <1>1, <1>2 DEF After, Purpose, NoOp
<1>5. Inserting'
  <2>1. Until(0)' = 0 /\ Len(queue') \in Nat
    BY DEF Until, QueueTypeOK
  <2> QED
    BY <1>1, <1>2, <2>1 DEF After, Inserting
<1> QED
  BY <1>3, <1>4, <1>5 DEF QueueInv, Synced, Syncing

LEMMA SynchronizeInv ==
  ASSUME QueueInv, NEW o \in Ops, o.kind # "none", o.kind = "add" => o.task \notin Queued,
         Synchronize(o)
  PROVE  QueueInv'
<1> USE DEF QueueInv
<1>1. at = "idle" /\ queue' = queue /\ backs' = backs /\ lag \in Int /\ queue \in Seq(Entry)
  BY DEF Synchronize, QueueTypeOK
<1>2. Queued' = Queued
  BY <1>1 DEF Queued
<1>3. o.kind \in {"next", "alarm", "add"} /\ (o.kind = "add" => o.task \in Tasks /\ o.delay \in Nat)
  BY OpFacts
<1>4. CASE lag < 0
  <2>1. Start(o) /\ lag' = 0 /\ left' = left
    BY <1>4 DEF Synchronize
  <2>2. op' \in Ops /\ at' \in {"idle", "insert", "due"} /\ cur' \in Nat /\ rest' \in Nat /\ gone' = 0
    BY <1>3, <2>1 DEF Start, After, Ops
  <2>3. QueueTypeOK'
    BY <1>1, <2>1, <2>2 DEF QueueTypeOK
  <2>4. Ordered'
    BY <1>1, <2>1 DEF Ordered
  <2>5. \A i \in 1..Len(queue') : (queue[i].delta)' = (Until(i) - Until(i - 1))'
    BY <1>1, <2>1 DEF Synced, Until
  <2> QED
    BY <1>2, <2>1, <2>3, <2>4, <2>5, StartInv
<1>5. CASE ~(lag < 0)
  <2>1. /\ op' = o /\ at' = "sync" /\ cur' = 1 /\ rest' = lag /\ lag' = 0 /\ gone' = lag
        /\ left' = [t \in Tasks |-> IF t \in Queued THEN left[t] - lag ELSE 0]
    BY <1>5 DEF Synchronize
  <2>2. QueueTypeOK' /\ lag \in Nat /\ left \in [Tasks -> Int]
    BY <1>1, <1>5, <2>1 DEF QueueTypeOK
  <2>3. \A i \in 1..Len(queue) : queue[i].task \in Tasks /\ left'[queue[i].task] = left[queue[i].task] - lag
    BY <1>1, <2>1, QueueFacts DEF Queued
  <2>4. Purpose'
    BY <1>2, <2>1 DEF Purpose
  <2>5. Ordered'
    BY <1>1, <2>2, <2>3 DEF Ordered
  <2>6. \A i \in 1..Len(queue) : Before(i)' = Until(i)
    BY <1>1, <2>1, <2>2, <2>3 DEF Before, Until
  <2>7. Before(0)' = 0 /\ Until(0) = 0
    BY DEF Before, Until
  <2>8. Syncing'
    <3>1. rest' = (gone - Before(cur - 1))' /\ cur' \in 1..Len(queue') + 1
      BY <1>1, <2>1, <2>2, <2>7, QueueFacts
    <3>2. ASSUME NEW i \in 1..Len(queue)
          PROVE  queue[i].delta = Before(i)' - Before(i - 1)'
      <4>1. queue[i].delta = Until(i) - Until(i - 1)
        BY <1>1 DEF Synced
      <4>2. i = 1 \/ i - 1 \in 1..Len(queue)
        BY QueueFacts
      <4>3. Before(i - 1)' = Until(i - 1)
        BY <2>6, <2>7, <4>2
      <4> QED
        BY <2>6, <4>1, <4>3
    <3> QED
      BY <1>1, <2>1, <3>1, <3>2 DEF Syncing
  <2> QED
    BY <2>1, <2>2, <2>4, <2>5, <2>8 DEF Synced, Inserting
<1> QED
  BY <1>4, <1>5

LEMMA SyncStepInv ==
  ASSUME QueueInv, SyncStep
  PROVE  QueueInv'
<1> USE DEF QueueInv
<1>1. /\ at = "sync" /\ left' = left /\ backs' = backs /\ lag' = lag
      /\ queue \in Seq(Entry) /\ Len(queue) \in Nat /\ gone \in Nat /\ rest \in Nat
      /\ left \in [Tasks -> Int]
  BY DEF SyncStep, QueueTypeOK
<1>2. /\ cur \in 1..Len(queue) + 1 /\ rest = gone - Before(cur - 1)
      /\ \A i \in 1..Len(queue) :
           /\ i < cur => queue[i].delta = 0 /\ left[queue[i].task] <= 0
           /\ i >= cur => queue[i].delta = Before(i) - Before(i - 1)
  BY <1>1 DEF Syncing
<1>3. \A i \in 1..Len(queue) : /\ queue[i] \in Entry /\ queue[i].task \in Tasks
                               /\ queue[i].delta \in Nat /\ left[queue[i].task] \in Int
  BY <1>1, EntryAt
<1>4. op \in Ops /\ op.kind # "none" /\ (op.kind = "add" => op.task \notin Queued)
  BY <1>1 DEF QueueTypeOK, Purpose
<1>5. CASE cur <= Len(queue) /\ rest >= queue[cur].delta
  <2>1. /\ rest' = rest - queue[cur].delta /\ cur' = cur + 1
        /\ queue' = [queue EXCEPT ![cur].delta = 0] /\ op' = op /\ at' = at /\ gone' = gone
    BY <1>5 DEF SyncStep
  <2>2. cur \in 1..Len(queue)
    BY <1>2, <1>5
  <2>3. /\ Len(queue') = Len(queue) /\ queue' \in Seq(Entry)
        /\ \A i \in 1..Len(queue) :
             /\ queue'[i].task = queue[i].task
             /\ queue'[i].delta = IF i = cur THEN 0 ELSE queue[i].delta
    <3>1. queue' = [queue EXCEPT ![cur] = [queue[cur] EXCEPT !.delta = 0]]
      BY <2>1
    <3>2. \A e \in Entry : /\ [e EXCEPT !.delta = 0] \in Entry
                           /\ [e EXCEPT !.delta = 0].task = e.task
                           /\ [e EXCEPT !.delta = 0].delta = 0
      BY DEF Entry
    <3> QED
      BY <1>1, <1>3, <2>2, <3>1, <3>2
  <2>4. Queued' = Queued
    BY <2>3 DEF Queued
  <2>5. QueueTypeOK'
    BY <1>1, <1>2, <1>3, <1>5, <2>1, <2>2, <2>3 DEF QueueTypeOK
  <2>6. Purpose'
    BY <1>1, <1>4, <2>1, <2>4 DEF Purpose
  <2>7. Ordered'
    BY <1>1, <2>3 DEF Ordered
  <2>8. \A i \in 0..Len(queue) : Before(i)' = Before(i)
    BY <1>1, <2>1, <2>3 DEF Before
  <2>9. queue[cur].delta = Before(cur) - Before(cur - 1) /\ Before(cur) \in Nat /\ Before(cur - 1) \in Nat
    <3>1. cur - 1 = 0 \/ cur - 1 \in 1..Len(queue)
      BY <2>2
    <3> QED
      BY <1>2, <2>2, <3>1, QueueFacts
  <2>10. rest' = gone - Before(cur) /\ rest' \in Nat
    BY <1>2, <1>5, <2>1, <2>9, <1>1
  <2>11. left[queue[cur].task] <= 0
    BY <1>1, <1>3, <2>2, <2>10, <2>9 DEF Before, NotBefore0
  <2>12. Syncing'
    <3>1. rest' = (gone - Before(cur - 1))' /\ cur' \in 1..Len(queue') + 1
      BY <2>1, <2>2, <2>3, <2>8, <2>10
    <3>2. ASSUME NEW i \in 1..Len(queue)
          PROVE  /\ i < cur + 1 => queue'[i].delta = 0 /\ left[queue'[i].task] <= 0
                 /\ i >= cur + 1 => queue'[i].delta = Before(i)' - Before(i - 1)'
      <4>1. CASE i < cur
        BY <1>2, <2>2, <2>3, <4>1
      <4>2. CASE i = cur
        BY <2>2, <2>3, <2>11, <4>2
      <4>3. CASE i > cur
        <5>1. i \in 0..Len(queue) /\ i - 1 \in 0..Len(queue)
          BY <1>1
        <5>2. queue'[i].delta = queue[i].delta /\ queue[i].delta = Before(i) - Before(i - 1)
          BY <1>2, <2>2, <2>3, <4>3
        <5> QED
          BY <2>2, <2>8, <4>3, <5>1, <5>2
      <4> QED
        BY <2>2, <4>1, <4>2, <4>3
    <3> QED
      BY <1>1, <2>1, <2>3, <3>1, <3>2 DEF Syncing
  <2> QED
    BY <1>1, <2>1, <2>5, <2>6, <2>7, <2>12 DEF Synced, Inserting
<1>6. CASE ~(cur <= Len(queue) /\ rest >= queue[cur].delta)
  <2>1. /\ queue' = IF cur <= Len(queue) THEN [queue EXCEPT ![cur].delta = @ - rest] ELSE queue
        /\ Start(op)
    BY <1>6 DEF SyncStep
  <2>2. /\ Len(queue') = Len(queue) /\ queue' \in Seq(Entry)
        /\ \A i \in 1..Len(queue) :
             /\ queue'[i].task = queue[i].task
             /\ queue'[i].delta = IF i = cur THEN queue[i].delta - rest ELSE queue[i].delta
    <3>1. CASE cur <= Len(queue)
      <4>1. queue' = [queue EXCEPT ![cur] = [queue[cur] EXCEPT !.delta = @ - rest]]
        BY <2>1, <3>1
      <4>2. \A e \in Entry : e.delta >= rest =>
                           /\ [e EXCEPT !.delta = @ - rest] \in Entry
                           /\ [e EXCEPT !.delta = @ - rest].task = e.task
                           /\ [e EXCEPT !.delta = @ - rest].delta = e.delta - rest
        BY <1>1 DEF Entry
      <4>3. cur \in 1..Len(queue) /\ queue[cur].delta >= rest
        BY <1>1, <1>2, <1>3, <1>6, <3>1
      <4> QED
        BY <1>1, <1>3, <4>1, <4>2, <4>3
    <3>2. CASE ~(cur <= Len(queue))
      BY <1>1, <1>2, <2>1, <3>2
    <3> QED
      BY <3>1, <3>2
  <2>3. Queued' = Queued
    BY <2>2 DEF Queued
  <2>4. op' \in Ops /\ at' \in {"idle", "insert", "due"} /\ cur' \in Nat /\ rest' \in Nat /\ gone' = 0
    BY <1>4, <2>1, OpFacts DEF Start, After, Ops
  <2>5. QueueTypeOK'
    BY <1>1, <2>2, <2>4 DEF QueueTypeOK
  <2>6. Ordered'
    BY <1>1, <2>2, SMTT(30) DEF Ordered
  <2>7. ASSUME NEW i \in 1..Len(queue')
        PROVE  (queue[i].delta)' = (Until(i) - Until(i - 1))'
    <3>1. \A j \in 0..Len(queue) : Until(j)' = Until(j)
      BY <1>1, <2>2 DEF Until
    <3>2. i \in 1..Len(queue) /\ i - 1 \in 0..Len(queue)
      BY <2>2
    <3>3. CASE i < cur
      <4>1. Until(i) = 0 /\ Until(i - 1) = 0
        BY <1>2, <1>3, <3>2, <3>3 DEF Until, NotBefore0
      <4> QED
        BY <1>2, <2>2, <3>1, <3>2, <3>3, <4>1
    <3>4. CASE i >= cur
      <4>1. cur \in 1..Len(queue) /\ rest < queue[cur].delta
        BY <1>1, <1>2, <1>3, <1>6, <3>2, <3>4
      <4>2. cur - 1 = 0 \/ cur - 1 \in 1..Len(queue)
        BY <4>1
      <4>7. queue[cur].delta = Before(cur) - Before(cur - 1) /\ rest = gone - Before(cur - 1)
        BY <1>2, <4>1
      <4>8. Before(cur) \in Nat /\ Before(cur - 1) \in Nat
        BY <4>1, <4>2, QueueFacts
      <4>3. Before(cur) > gone /\ queue[cur].delta - rest = Before(cur) - gone
        BY <1>1, <4>1, <4>7, <4>8
      <4>4. left[queue[cur].task] > 0 /\ Before(cur) - gone = left[queue[cur].task]
        BY <1>1, <1>3, <4>1, <4>3 DEF Before, NotBefore0
      <4>5. CASE i = cur
        <5>1. Until(cur) = left[queue[cur].task]
          BY <4>1, <4>4 DEF Until, NotBefore0
        <5>2. Until(cur - 1) = 0
          BY <1>2, <1>3, <4>1, <4>2 DEF Until, NotBefore0
        <5> QED
          BY <1>3, <2>2, <3>1, <3>2, <4>1, <4>3, <4>4, <4>5, <5>1, <5>2
      <4>6. CASE i > cur
        <5>1. i - 1 \in 1..Len(queue) /\ i - 1 >= cur
          BY <3>2, <4>1, <4>6
        <5>2. left[queue[i].task] > 0 /\ left[queue[i - 1].task] > 0
          <6>1. left[queue[cur].task] <= left[queue[i].task]
            BY <3>2, <4>1, <4>6 DEF Ordered
          <6>2. left[queue[cur].task] <= left[queue[i - 1].task]
            BY <1>3, <4>1, <5>1 DEF Ordered
          <6> QED
            BY <1>3, <3>2, <4>1, <4>4, <5>1, <6>1, <6>2
        <5>3. Before(i) - Before(i - 1) = left[queue[i].task] - left[queue[i - 1].task]
          BY <1>1, <1>3, <3>2, <5>1, <5>2 DEF Before, NotBefore0
        <5>4. Until(i) - Until(i - 1) = left[queue[i].task] - left[queue[i - 1].task]
          BY <1>3, <3>2, <5>1, <5>2 DEF Until, NotBefore0
        <5> QED
          BY <1>2, <2>2, <3>1, <3>2, <3>4, <4>6, <5>3, <5>4
      <4> QED
        BY <1>2, <3>2, <3>4, <4>5, <4>6
    <3> QED
      BY <1>2, <3>2, <3>3, <3>4
  <2> QED
    BY <1>4, <2>1, <2>3, <2>5, <2>6, <2>7, StartInv
<1> QED
  BY <1>5, <1>6

\* An entry leaves the queue, and its task is not queued any more.
LEMMA RemovedInv ==
  ASSUME QueueInv, at # "sync", NEW p \in 1..Len(queue),
         queue' = Removed(queue, p), left' = [left EXCEPT ![queue[p].task] = 0]
  PROVE  /\ queue' \in Seq(Entry) /\ left' \in [Tasks -> Int]
         /\ Queued' \subseteq Queued
         /\ Ordered'
         /\ \A i \in 1..Len(queue') : (queue[i].delta)' = (Until(i) - Until(i - 1))'
<1> USE DEF QueueInv
<1> DEFINE idx(i) == IF i < p THEN i ELSE i + 1
<1>1. queue \in Seq(Entry) /\ Len(queue) \in Nat /\ left \in [Tasks -> Int]
  BY DEF QueueTypeOK
<1>2. \A i \in 1..Len(queue) : /\ queue[i].task \in Tasks /\ queue[i].delta \in Nat
                               /\ left[queue[i].task] \in Int /\ Until(i) \in Nat
                               /\ queue[i].delta = Until(i) - Until(i - 1)
  BY QueueFacts DEF Synced
<1>3. /\ queue' \in Seq(Entry) /\ Len(queue') = Len(queue) - 1
      /\ \A i \in 1..Len(queue) - 1 :
           queue'[i] = IF i < p THEN queue[i]
                       ELSE IF i = p THEN [task |-> queue[p + 1].task,
                                           delta |-> queue[p + 1].delta + queue[p].delta]
                       ELSE queue[i + 1]
  BY <1>1, RemovedIs
<1>4. \A i \in 1..Len(queue) - 1 : idx(i) \in 1..Len(queue) /\ idx(i) # p /\ queue'[i].task = queue[idx(i)].task
  BY <1>1, <1>3, SMTT(30)
<1>5. \A i \in 1..Len(queue) : i # p => queue[i].task # queue[p].task
  BY <1>1 DEF Ordered
<1>6. \A i \in 1..Len(queue) - 1 : left'[queue'[i].task] = left[queue[idx(i)].task]
  BY <1>1, <1>2, <1>4, <1>5
<1>7. Queued' \subseteq Queued
  BY <1>3, <1>4 DEF Queued
<1>8. Ordered'
  <2> SUFFICES ASSUME NEW i \in 1..Len(queue) - 1, NEW j \in 1..Len(queue) - 1, i < j
               PROVE  queue'[i].task # queue'[j].task /\ left'[queue'[i].task] <= left'[queue'[j].task]
    BY <1>3 DEF Ordered
  <2>1. idx(i) < idx(j) /\ idx(i) \in 1..Len(queue) /\ idx(j) \in 1..Len(queue)
    BY <1>4
  <2> QED
    BY <1>4, <1>6, <2>1 DEF Ordered
<1>9. ASSUME NEW i \in 1..Len(queue')
      PROVE  (queue[i].delta)' = (Until(i) - Until(i - 1))'
  <2>1. i \in 1..Len(queue) - 1
    BY <1>3
  <2>2. \A j \in 1..Len(queue) - 1 : Until(j)' = Until(idx(j))
    BY <1>3, <1>6, <1>4 DEF Until
  <2>3. Until(0)' = 0 /\ Until(0) = 0
    BY DEF Until
  <2>4. i - 1 = 0 \/ i - 1 \in 1..Len(queue) - 1
    BY <2>1
  <2>5. CASE i < p
    <3>1. queue'[i].delta = queue[i].delta /\ Until(i)' = Until(i)
      BY <1>3, <2>1, <2>2, <2>5
    <3>2. Until(i - 1)' = Until(i - 1)
      BY <2>2, <2>3, <2>4, <2>5
    <3> QED
      BY <1>2, <2>1, <3>1, <3>2
  <2>6. CASE i = p
    <3>1. queue'[i].delta = queue[i + 1].delta + queue[i].delta /\ Until(i)' = Until(i + 1)
      BY <1>3, <2>1, <2>2, <2>6
    <3>2. Until(i - 1)' = Until(i - 1)
      BY <2>2, <2>3, <2>4, <2>6
    <3>3. i + 1 \in 1..Len(queue) /\ (i + 1) - 1 = i
      BY <2>1
    <3>4. queue[i + 1].delta = Until(i + 1) - Until(i)
      BY <1>2, <3>3
    <3>5. queue[i].delta = Until(i) - Until(i - 1) /\ Until(i) \in Nat /\ Until(i + 1) \in Nat
      BY <1>2, <2>6, <3>3
    <3>6. Until(i - 1) \in Nat
      BY <1>2, <2>1, <2>3, <2>4
    <3> QED
      BY <3>1, <3>2, <3>4, <3>5, <3>6
  <2>7. CASE i > p
    <3>1. queue'[i].delta = queue[i + 1].delta /\ Until(i)' = Until(i + 1)
      BY <1>3, <2>1, <2>2, <2>7
    <3>2. i - 1 \in 1..Len(queue) - 1 /\ idx(i - 1) = i
      BY <2>1, <2>7
    <3>3. Until(i - 1)' = Until(i)
      BY <2>2, <3>2
    <3>4. i + 1 \in 1..Len(queue) /\ (i + 1) - 1 = i
      BY <2>1
    <3> QED
      BY <1>2, <3>1, <3>3, <3>4
  <2> QED
    BY <2>1, <2>5, <2>6, <2>7
<1>10. left' \in [Tasks -> Int]
  <2>1. queue[p].task \in Tasks
    BY <1>2
  <2> QED
    BY <1>1, <2>1
<1> QED
  BY <1>3, <1>7, <1>8, <1>9, <1>10

LEMMA RemoveEntryInv ==
  ASSUME QueueInv, NEW t \in Tasks, RemoveEntry(t)
  PROVE  QueueInv'
<1> USE DEF QueueInv
<1>1. at = "idle" /\ left' = [left EXCEPT ![t] = 0] /\ UNCHANGED <<lag, backs, op, at, cur, rest, gone>>
  BY DEF RemoveEntry
<1>2. CASE \E p \in 1..Len(queue) : queue[p].task = t /\ queue' = Removed(queue, p)
  <2>1. PICK p \in 1..Len(queue) : queue[p].task = t /\ queue' = Removed(queue, p)
    BY <1>2
  <2>2. /\ queue' \in Seq(Entry) /\ left' \in [Tasks -> Int] /\ Queued' \subseteq Queued /\ Ordered'
        /\ \A i \in 1..Len(queue') : (queue[i].delta)' = (Until(i) - Until(i - 1))'
    BY <1>1, <2>1, RemovedInv
  <2> QED
    BY <1>1, <2>2 DEF QueueTypeOK, Purpose, Synced, Syncing, Inserting
<1>3. CASE t \notin Queued /\ queue' = queue
  <2>1. \A i \in 1..Len(queue) : queue[i].task # t
    BY <1>3 DEF Queued
  <2>2. queue \in Seq(Entry) /\ Len(queue) \in Nat /\ left \in [Tasks -> Int]
    BY DEF QueueTypeOK
  <2>3. \A i \in 1..Len(queue) : left'[queue'[i].task] = left[queue[i].task]
    BY <1>1, <1>3, <2>1, <2>2, EntryAt
  <2>4. Queued' = Queued
    BY <1>3 DEF Queued
  <2>5. QueueTypeOK' /\ Purpose'
    BY <1>1, <1>3, <2>2, <2>4 DEF QueueTypeOK, Purpose
  <2>6. Ordered'
    BY <1>3, <2>3 DEF Ordered
  <2>7. \A i \in 0..Len(queue) : Until(i)' = Until(i)
    BY <1>3, <2>3 DEF Until
  <2>8. Synced'
    BY <1>1, <1>3, <2>2, <2>7 DEF Synced
  <2> QED
    BY <1>1, <2>5, <2>6, <2>8 DEF Syncing, Inserting
<1>4. \/ \E p \in 1..Len(queue) : queue[p].task = t /\ queue' = Removed(queue, p)
      \/ t \notin Queued /\ queue' = queue
  BY Zenon DEF RemoveEntry
<1> QED
  BY <1>2, <1>3, <1>4

LEMMA FireInv ==
  ASSUME QueueInv, NEW t \in Tasks, Fire(t)
  PROVE  QueueInv'
<1> USE DEF QueueInv
<1>1. /\ at = "due" /\ queue # <<>> /\ queue[1].task = t /\ queue' = Removed(queue, 1)
      /\ left' = [left EXCEPT ![t] = 0] /\ op' = NoOp /\ at' = "idle" /\ cur' = 0 /\ rest' = 0
      /\ UNCHANGED <<lag, backs, gone>>
  BY DEF Fire, HeadDue
<1>2. 1 \in 1..Len(queue)
  BY <1>1 DEF QueueTypeOK
<1>3. /\ queue' \in Seq(Entry) /\ left' \in [Tasks -> Int] /\ Queued' \subseteq Queued /\ Ordered'
      /\ \A i \in 1..Len(queue') : (queue[i].delta)' = (Until(i) - Until(i - 1))'
  BY <1>1, <1>2, RemovedInv
<1>4. QueueTypeOK'
  BY <1>1, <1>3 DEF QueueTypeOK, Ops
<1> QED
  BY <1>1, <1>3, <1>4 DEF Purpose, NoOp, Synced, Syncing, Inserting

LEMMA InsertFacts ==
  ASSUME QueueInv, InsertStep, ~(cur <= Len(queue) /\ rest >= queue[cur].delta)
  PROVE  /\ cur \in 1..Len(queue) + 1 /\ Len(queue) \in Nat
         /\ op.kind = "add" /\ op.task \in Tasks /\ op.delay \in Nat
         /\ op' = NoOp /\ at' = "idle" /\ cur' = 0 /\ rest' = 0
         /\ cur <= Len(queue) => rest < queue[cur].delta /\ Until(cur) > op.delay
         /\ queue' \in Seq(Entry) /\ Len(queue') = Len(queue) + 1
         /\ \A i \in 1..Len(queue) : i < cur => queue'[i].task = queue[i].task /\ queue'[i].delta = queue[i].delta
         /\ queue'[cur].task = op.task /\ queue'[cur].delta = rest
         /\ \A i \in 1..Len(queue) : i >= cur =>
              /\ queue'[i + 1].task = queue[i].task
              /\ queue'[i + 1].delta = IF i = cur THEN queue[i].delta - rest ELSE queue[i].delta
         /\ \A i \in 1..Len(queue) : queue[i].task # op.task
         /\ left' \in [Tasks -> Int] /\ left'[op.task] = op.delay
         /\ \A i \in 1..Len(queue) : left'[queue[i].task] = left[queue[i].task]
         /\ \A i \in 1..Len(queue) : i < cur => left[queue[i].task] <= op.delay
         /\ \A i \in 1..Len(queue) : i >= cur => left[queue[i].task] > op.delay
<1> USE DEF QueueInv
<1>1. /\ at = "insert" /\ UNCHANGED <<lag, backs, gone>>
      /\ queue \in Seq(Entry) /\ Len(queue) \in Nat /\ left \in [Tasks -> Int]
      /\ rest \in Nat /\ cur \in 1..Len(queue) + 1 /\ rest = op.delay - Until(cur - 1)
  BY DEF InsertStep, QueueTypeOK, Inserting
<1>2. op.kind = "add" /\ op.task \in Tasks /\ op.delay \in Nat /\ op.task \notin Queued
  BY <1>1, OpFacts DEF QueueTypeOK, Purpose
<1>3. \A i \in 1..Len(queue) : /\ queue[i].task \in Tasks /\ queue[i].delta \in Nat
                               /\ left[queue[i].task] \in Int /\ Until(i) \in Nat
                               /\ queue[i].delta = Until(i) - Until(i - 1)
  BY <1>1, QueueFacts DEF Synced
<1>4. cur - 1 = 0 \/ cur - 1 \in 1..Len(queue)
  BY <1>1
<1>5. Until(0) = 0 /\ Until(cur - 1) \in Nat /\ Until(cur - 1) <= op.delay
  BY <1>1, <1>2, <1>3, <1>4 DEF Until
<1>11. /\ queue' = Inserted(queue, cur, op.task, rest)
      /\ left' = [left EXCEPT ![op.task] = op.delay]
      /\ op' = NoOp /\ at' = "idle" /\ cur' = 0 /\ rest' = 0
  BY DEF InsertStep, Reaches
<1>12. cur <= Len(queue) => rest < queue[cur].delta /\ Until(cur) > op.delay
  BY <1>1, <1>2, <1>3, <1>5
<1>13. /\ queue' \in Seq(Entry) /\ Len(queue') = Len(queue) + 1
      /\ \A i \in 1..Len(queue) + 1 :
           queue'[i] =
             IF i < cur THEN queue[i]
             ELSE IF i = cur THEN [task |-> op.task, delta |-> rest]
             ELSE IF i = cur + 1 THEN [task |-> queue[cur].task, delta |-> queue[cur].delta - rest]
             ELSE queue[i - 1]
  <2>1. cur <= Len(queue) => rest <= queue[cur].delta
    <3>1. cur <= Len(queue) => cur \in 1..Len(queue)
      BY <1>1
    <3> QED
      BY <1>1, <1>3, <1>12, <3>1
  <2> QED
    BY <1>1, <1>2, <1>11, <2>1, InsertedIs
<1>14. /\ \A i \in 1..Len(queue) : i < cur => queue'[i].task = queue[i].task /\ queue'[i].delta = queue[i].delta
      /\ queue'[cur].task = op.task /\ queue'[cur].delta = rest
      /\ \A i \in 1..Len(queue) : i >= cur =>
           /\ queue'[i + 1].task = queue[i].task
           /\ queue'[i + 1].delta = IF i = cur THEN queue[i].delta - rest ELSE queue[i].delta
  <2>1. \A i \in 1..Len(queue) : i < cur => queue'[i] = queue[i]
    BY <1>1, <1>13
  <2>2. queue'[cur] = [task |-> op.task, delta |-> rest]
    BY <1>1, <1>13
  <2>3. ASSUME NEW i \in 1..Len(queue), i >= cur
        PROVE  /\ queue'[i + 1].task = queue[i].task
               /\ queue'[i + 1].delta = IF i = cur THEN queue[i].delta - rest ELSE queue[i].delta
    <3>1. i + 1 \in 1..Len(queue) + 1 /\ ~(i + 1 < cur) /\ i + 1 # cur /\ (i + 1) - 1 = i
      BY <1>1, <2>3
    <3>2. CASE i = cur
      BY <1>13, <3>1, <3>2
    <3>3. CASE i # cur
      <4>1. queue'[i + 1] = queue[i]
        BY <1>1, <1>13, <3>1, <3>3
      <4> QED
        BY <3>3, <4>1
    <3> QED
      BY <3>2, <3>3
  <2> QED
    BY <2>1, <2>2, <2>3
<1>15. \A i \in 1..Len(queue) : queue[i].task # op.task
  BY <1>2 DEF Queued
<1>16. /\ left' \in [Tasks -> Int] /\ left'[op.task] = op.delay
      /\ \A i \in 1..Len(queue) : left'[queue[i].task] = left[queue[i].task]
  BY <1>1, <1>2, <1>3, <1>11, <1>15
<1>17. \A i \in 1..Len(queue) : i < cur => left[queue[i].task] <= op.delay
  <2> SUFFICES ASSUME NEW i \in 1..Len(queue), i < cur PROVE left[queue[i].task] <= op.delay
    OBVIOUS
  <2>1. cur - 1 \in 1..Len(queue) /\ i <= cur - 1
    BY <1>1
  <2>2. left[queue[i].task] <= left[queue[cur - 1].task]
    BY <1>3, <2>1 DEF Ordered
  <2>3. left[queue[cur - 1].task] <= Until(cur - 1)
    BY <1>3, <2>1 DEF Until, NotBefore0
  <2> QED
    BY <1>2, <1>3, <1>5, <2>1, <2>2, <2>3
<1>18. \A i \in 1..Len(queue) : i >= cur => left[queue[i].task] > op.delay
  <2> SUFFICES ASSUME NEW i \in 1..Len(queue), i >= cur PROVE left[queue[i].task] > op.delay
    OBVIOUS
  <2>1. cur \in 1..Len(queue) /\ Until(cur) > op.delay
    BY <1>1, <1>12
  <2>2. left[queue[cur].task] > op.delay
    BY <1>2, <1>3, <2>1 DEF Until, NotBefore0
  <2>3. left[queue[cur].task] <= left[queue[i].task]
    BY <1>3, <2>1 DEF Ordered
  <2> QED
    BY <1>2, <1>3, <2>1, <2>2, <2>3
<1> QED
  BY <1>1, <1>2, <1>11, <1>12, <1>13, <1>14, <1>15, <1>16, <1>17, <1>18

LEMMA InsertStepInv ==
  ASSUME QueueInv, InsertStep
  PROVE  QueueInv'
<1> USE DEF QueueInv
<1>1. /\ at = "insert" /\ UNCHANGED <<lag, backs, gone>>
      /\ queue \in Seq(Entry) /\ Len(queue) \in Nat /\ left \in [Tasks -> Int]
      /\ rest \in Nat /\ cur \in 1..Len(queue) + 1 /\ rest = op.delay - Until(cur - 1)
  BY DEF InsertStep, QueueTypeOK, Inserting
<1>2. op.kind = "add" /\ op.task \in Tasks /\ op.delay \in Nat /\ op.task \notin Queued
  BY <1>1, OpFacts DEF QueueTypeOK, Purpose
<1>3. \A i \in 1..Len(queue) : /\ queue[i].task \in Tasks /\ queue[i].delta \in Nat
                               /\ left[queue[i].task] \in Int /\ Until(i) \in Nat
                               /\ queue[i].delta = Until(i) - Until(i - 1)
  BY <1>1, QueueFacts DEF Synced
<1>4. cur - 1 = 0 \/ cur - 1 \in 1..Len(queue)
  BY <1>1
<1>5. Until(0) = 0 /\ Until(cur - 1) \in Nat /\ Until(cur - 1) <= op.delay
  BY <1>1, <1>2, <1>3, <1>4 DEF Until
<1>6. CASE cur <= Len(queue) /\ rest >= queue[cur].delta
  <2>1. rest' = rest - queue[cur].delta /\ cur' = cur + 1 /\ UNCHANGED <<queue, op, at, left>>
    BY <1>6 DEF InsertStep, Reaches
  <2>2. cur \in 1..Len(queue) /\ queue[cur].delta \in Nat /\ queue[cur].delta = Until(cur) - Until(cur - 1)
    BY <1>1, <1>3, <1>6
  <2>6. Until(cur) \in Nat
    BY <1>3, <2>2
  <2>3. rest' = op.delay - Until(cur) /\ rest' \in Nat
    <3>1. rest' = rest - queue[cur].delta /\ rest >= queue[cur].delta /\ rest \in Nat
      BY <1>1, <1>6, <2>1
    <3>2. rest = op.delay - Until(cur - 1) /\ queue[cur].delta = Until(cur) - Until(cur - 1)
      BY <1>1, <2>2
    <3>3. rest' = op.delay - Until(cur)
      BY <1>2, <1>5, <2>6, <3>1, <3>2
    <3>4. rest' >= 0 /\ rest' \in Int
      BY <2>2, <3>1
    <3> QED
      BY <3>3, <3>4
  <2>4. QueueTypeOK'
    BY <1>1, <2>1, <2>3 DEF QueueTypeOK
  <2>5. Inserting'
    BY <2>1, <2>2, <2>3 DEF Inserting, Until
  <2> QED
    BY <1>1, <2>1, <2>4, <2>5 DEF Purpose, Queued, Ordered, Synced, Until, Syncing
<1>7. CASE ~(cur <= Len(queue) /\ rest >= queue[cur].delta)
  <2>1. op' = NoOp /\ at' = "idle" /\ cur' = 0 /\ rest' = 0
    BY <1>7, InsertFacts
  <2>2. cur <= Len(queue) => rest < queue[cur].delta /\ Until(cur) > op.delay
    BY <1>7, InsertFacts
  <2>3. queue' \in Seq(Entry) /\ Len(queue') = Len(queue) + 1
    BY <1>7, InsertFacts
  <2>4. /\ \A i \in 1..Len(queue) : i < cur => queue'[i].task = queue[i].task /\ queue'[i].delta = queue[i].delta
        /\ queue'[cur].task = op.task /\ queue'[cur].delta = rest
        /\ \A i \in 1..Len(queue) : i >= cur =>
             /\ queue'[i + 1].task = queue[i].task
             /\ queue'[i + 1].delta = IF i = cur THEN queue[i].delta - rest ELSE queue[i].delta
    BY <1>7, InsertFacts
  <2>5. \A i \in 1..Len(queue) : queue[i].task # op.task
    BY <1>7, InsertFacts
  <2>6. /\ left' \in [Tasks -> Int] /\ left'[op.task] = op.delay
        /\ \A i \in 1..Len(queue) : left'[queue[i].task] = left[queue[i].task]
    BY <1>7, InsertFacts
  <2>7. \A i \in 1..Len(queue) : i < cur => left[queue[i].task] <= op.delay
    BY <1>7, InsertFacts
  <2>8. \A i \in 1..Len(queue) : i >= cur => left[queue[i].task] > op.delay
    BY <1>7, InsertFacts
  <2>9. QueueTypeOK'
    BY <1>1, <2>1, <2>3, <2>6 DEF QueueTypeOK, Ops
  <2>10. \A i \in 1..Len(queue') :
           \/ i < cur /\ i \in 1..Len(queue)
           \/ i = cur
           \/ i > cur /\ i - 1 \in 1..Len(queue) /\ i - 1 >= cur
    BY <1>1, <2>3
  <2>11. Ordered'
    <3> SUFFICES ASSUME NEW i \in 1..Len(queue'), NEW j \in 1..Len(queue'), i < j
                 PROVE  queue'[i].task # queue'[j].task /\ left'[queue'[i].task] <= left'[queue'[j].task]
      BY DEF Ordered
    <3>1. CASE i < cur /\ j < cur
      <4>1. i \in 1..Len(queue) /\ j \in 1..Len(queue)
        BY <1>1, <2>3, <3>1
      <4> QED
        BY <2>4, <2>6, <3>1, <4>1 DEF Ordered
    <3>2. CASE i < cur /\ j = cur
      BY <2>4, <2>5, <2>6, <2>7, <2>10, <3>2
    <3>3. CASE i < cur /\ j > cur
      <4>1. i \in 1..Len(queue) /\ j - 1 \in 1..Len(queue) /\ j - 1 >= cur
        BY <1>1, <2>3, <3>3
      <4>3. i < j - 1 /\ (j - 1) + 1 = j
        BY <1>1, <3>3, <4>1
      <4>2. queue'[i].task = queue[i].task /\ queue'[j].task = queue[j - 1].task
        BY <2>4, <3>3, <4>1, <4>3
      <4> QED
        BY <2>6, <4>1, <4>2, <4>3 DEF Ordered
    <3>4. CASE i = cur /\ j > cur
      <4>1. j - 1 \in 1..Len(queue) /\ j - 1 >= cur /\ (j - 1) + 1 = j
        BY <2>10, <3>4
      <4>2. queue'[i].task = op.task /\ queue'[j].task = queue[j - 1].task
        BY <2>4, <3>4, <4>1
      <4>3. left'[queue'[i].task] = op.delay /\ left'[queue'[j].task] = left[queue[j - 1].task]
        BY <2>6, <4>1, <4>2
      <4>4. left[queue[j - 1].task] > op.delay /\ left[queue[j - 1].task] \in Int
        BY <1>3, <2>8, <4>1
      <4> QED
        BY <1>2, <2>5, <4>1, <4>2, <4>3, <4>4
    <3>5. CASE i > cur /\ j > cur
      <4>3. i - 1 \in 1..Len(queue) /\ i - 1 >= cur /\ j - 1 \in 1..Len(queue) /\ j - 1 >= cur
        BY <1>1, <2>3, <3>5
      <4>1. (i - 1) + 1 = i /\ (j - 1) + 1 = j /\ i - 1 < j - 1
        BY <4>3
      <4>2. queue'[i].task = queue[i - 1].task /\ queue'[j].task = queue[j - 1].task
        BY <2>4, <4>1, <4>3
      <4>4. \A k, l \in 1..Len(queue) :
               k < l => queue[k].task # queue[l].task /\ left[queue[k].task] <= left[queue[l].task]
        BY DEF Ordered
      <4>5. queue[i - 1].task # queue[j - 1].task /\ left[queue[i - 1].task] <= left[queue[j - 1].task]
        BY ONLY <4>1, <4>3, <4>4
      <4>6. left'[queue[i - 1].task] = left[queue[i - 1].task] /\ left'[queue[j - 1].task] = left[queue[j - 1].task]
        BY <2>6, <4>3
      <4> QED
        BY ONLY <4>2, <4>5, <4>6
    <3> QED
      BY <1>1, <2>3, <3>1, <3>2, <3>3, <3>4, <3>5
  <2>12. Synced'
    <3> SUFFICES ASSUME NEW i \in 1..Len(queue')
                 PROVE  queue'[i].delta = Until(i)' - Until(i - 1)'
      BY DEF Synced
    <3>0. PICK p \in 1..Len(queue) + 1 : p = cur
      BY <1>1
    <3>1. \A j \in 1..Len(queue) : j < cur => Until(j)' = Until(j)
      BY <1>1, <2>4, <2>6 DEF Until
    <3>2. Until(p)' = op.delay
      BY <3>0, <1>1, <1>2, <2>4, <2>6 DEF Until, NotBefore0
    <3>3. \A j \in 1..Len(queue) : j >= cur => Until(j + 1)' = Until(j)
      BY <1>1, <2>4, <2>6, SMTT(30) DEF Until
    <3>4. Until(0)' = 0
      BY DEF Until
    <3>5. Until(p - 1)' = Until(p - 1)
      BY <3>0, <1>1, <1>4, <1>5, <3>1, <3>4
    <3>6. CASE i < cur
      <4>1. i \in 1..Len(queue) /\ (i - 1 = 0 \/ i - 1 \in 1..Len(queue))
        BY <1>1, <2>10, <3>6
      <4>2. Until(i)' = Until(i) /\ Until(i - 1)' = Until(i - 1)
        BY <1>1, <1>5, <3>1, <3>4, <3>6, <4>1
      <4> QED
        BY <1>3, <2>4, <3>6, <4>1, <4>2
    <3>7. CASE i = cur
      BY <3>0, <1>1, <2>4, <3>2, <3>5, <3>7
    <3>8. CASE i = cur + 1
      <4>1. cur \in 1..Len(queue) /\ i - 1 = cur
        BY <1>1, <2>10, <3>8
      <4>2. queue'[i].delta = queue[cur].delta - rest /\ Until(i)' = Until(cur)
        BY <1>1, <2>4, <3>3, <3>8, <4>1
      <4>3. queue[cur].delta = Until(cur) - Until(cur - 1) /\ Until(cur) \in Nat
        BY <1>3, <4>1
      <4> QED
        BY <3>0, <1>1, <1>2, <1>5, <3>2, <4>1, <4>2, <4>3
    <3>9. CASE i > cur + 1
      <4>1. /\ i - 1 \in 1..Len(queue) /\ i - 1 > cur /\ (i - 1) + 1 = i
            /\ i - 2 \in 1..Len(queue) /\ i - 2 >= cur /\ (i - 2) + 1 = i - 1
        BY <1>1, <2>10, <3>9
      <4>2. queue'[i].delta = queue[i - 1].delta /\ Until(i)' = Until(i - 1)
        BY <1>1, <2>4, <3>3, <4>1
      <4>3. Until(i - 1)' = Until(i - 2)
        BY <1>1, <3>3, <4>1
      <4>4. queue[i - 1].delta = Until(i - 1) - Until((i - 1) - 1) /\ (i - 1) - 1 = i - 2
        BY <1>3, <4>1
      <4> QED
        BY <4>2, <4>3, <4>4
    <3> QED
      BY <1>1, <2>3, <3>6, <3>7, <3>8, <3>9
  <2> QED
    BY <2>1, <2>9, <2>11, <2>12 DEF Purpose, NoOp, Syncing, Inserting
<1> QED
  BY <1>6, <1>7

\* Only the clock moves.
LEMMA ClockInv ==
  ASSUME QueueInv, lag' \in Int, backs' \in 0..MaxBack, UNCHANGED <<queue, op, at, cur, rest, left, gone>>
  PROVE  QueueInv'
<1> USE DEF QueueInv
<1>1. QueueTypeOK' /\ Purpose'
  BY DEF QueueTypeOK, Purpose, Queued
<1>2. Ordered'
  BY DEF Ordered
<1>3. Synced'
  BY DEF Synced, Until
<1>4. Syncing'
  BY DEF Syncing, Before
<1>5. Inserting'
  BY DEF Inserting, Until
<1> QED
  BY <1>1, <1>2, <1>3, <1>4, <1>5

\* The invariant is inductive.
LEMMA StepInv == QueueInv /\ [QueueNext]_qvars => QueueInv'
<1> SUFFICES ASSUME QueueInv, [QueueNext]_qvars PROVE QueueInv'
  OBVIOUS
<1>1. CASE Tick
  <2>1. lag' \in Int /\ backs' \in 0..MaxBack /\ UNCHANGED <<queue, op, at, cur, rest, left, gone>>
    BY <1>1 DEF Tick, QueueInv, QueueTypeOK
  <2> QED
    BY <2>1, ClockInv
<1>2. CASE SetBack
  <2>1. /\ lag' \in Int /\ backs' \in 0..MaxBack
        /\ UNCHANGED <<queue, op, at, cur, rest, left, gone>>
    BY <1>2, DelayAssumption DEF SetBack, QueueInv, QueueTypeOK
  <2> QED
    BY <2>1, ClockInv
<1>3. CASE SyncStep
  BY <1>3, SyncStepInv
<1>4. CASE InsertStep
  BY <1>4, InsertStepInv
<1>5. ASSUME NEW t \in Tasks, RemoveEntry(t)
      PROVE  QueueInv'
  BY <1>5, RemoveEntryInv
<1>6. ASSUME NEW t \in Tasks, Fire(t)
      PROVE  QueueInv'
  BY <1>6, FireInv
<1>7. ASSUME NEW t \in Tasks, NEW d \in Delays, AddEntry(t, d)
      PROVE  QueueInv'
  <2> DEFINE o == [kind |-> "add", task |-> t, delay |-> d]
  <2>1. o \in Ops /\ o.kind = "add" /\ o.task = t
    BY DEF Ops
  <2>2. t \notin Queued /\ Synchronize(o)
    BY <1>7 DEF AddEntry
  <2> HIDE DEF o
  <2> QED
    BY <2>1, <2>2, SynchronizeInv
<1>8. CASE TimeToNextAlarm
  <2>1. CASE HeadDue
    BY <1>8, <2>1, ClockInv DEF TimeToNextAlarm, qvars, QueueInv, QueueTypeOK
  <2>2. CASE ~HeadDue
    <3> DEFINE o == [kind |-> "next"]
    <3>1. o \in Ops /\ o.kind = "next" /\ Synchronize(o)
      BY <1>8, <2>2 DEF Ops, TimeToNextAlarm
    <3> HIDE DEF o
    <3> QED
      BY <3>1, SynchronizeInv
  <2> QED
    BY <2>1, <2>2
<1>9. CASE HandleAlarm
  <2>1. CASE HeadDue
    <3>1. /\ at = "idle" /\ at' = "due" /\ op' = [kind |-> "alarm"] /\ op' \in Ops
          /\ UNCHANGED <<queue, lag, backs, cur, rest, left, gone>>
      BY <1>9, <2>1 DEF HandleAlarm, Ops
    <3> QED
      BY <3>1 DEF QueueInv, QueueTypeOK, Purpose, Queued, Ordered, Synced, Syncing, Inserting, Until, Before
  <2>2. CASE ~HeadDue
    <3> DEFINE o == [kind |-> "alarm"]
    <3>1. o \in Ops /\ o.kind = "alarm" /\ Synchronize(o)
      BY <1>9, <2>2 DEF Ops, HandleAlarm
    <3> HIDE DEF o
    <3> QED
      BY <3>1, SynchronizeInv
  <2> QED
    BY <2>1, <2>2
<1>10. CASE NothingDue
  <2>1. /\ at = "due" /\ op' = NoOp /\ op' \in Ops /\ at' = "idle" /\ cur' = 0 /\ rest' = 0
        /\ UNCHANGED <<queue, lag, backs, left, gone>>
    BY <1>10 DEF NothingDue, Ops
  <2> QED
    BY <2>1 DEF NoOp, QueueInv, QueueTypeOK, Purpose, Queued, Ordered, Synced, Syncing, Inserting, Until, Before
<1>11. CASE UNCHANGED qvars
  BY <1>11, ClockInv DEF qvars, QueueInv, QueueTypeOK
<1> QED
  BY <1>1, <1>2, <1>3, <1>4, <1>5, <1>6, <1>7, <1>8, <1>9, <1>10, <1>11 DEF QueueNext

-----------------------------------------------------------------------------
(* What follows from it.                                                    *)

LEMMA InvDeltas == QueueInv => DeltasRight
<1> SUFFICES ASSUME QueueInv, at = "idle"
             PROVE  /\ \A i \in 1..Len(queue) : queue[i].delta = Until(i) - Until(i - 1)
                    /\ \A i, j \in 1..Len(queue) :
                         i < j => queue[i].task # queue[j].task /\ left[queue[i].task] <= left[queue[j].task]
  BY DEF DeltasRight
<1> QED
  BY DEF QueueInv, Synced, Ordered

LEMMA InvAlarm == QueueInv => AlarmRight
<1> SUFFICES ASSUME QueueInv, at = "due"
             PROVE  /\ HeadDue => left[queue[1].task] <= 0 /\ \A t \in Queued : left[queue[1].task] <= left[t]
                    /\ ~HeadDue => \A t \in Queued : left[t] > 0
  BY DEF AlarmRight
<1> USE DEF QueueInv
<1>1. \A i \in 1..Len(queue) : /\ queue[i].delta \in Nat /\ left[queue[i].task] \in Int
                               /\ queue[i].delta = Until(i) - Until(i - 1)
  BY QueueFacts DEF Synced
<1>2. queue \in Seq(Entry) /\ Len(queue) \in Nat
  BY DEF QueueTypeOK
<1>3. ASSUME NEW t \in Queued
      PROVE  /\ 1 \in 1..Len(queue) /\ queue # <<>>
             /\ queue[1].delta = Until(1)
             /\ left[queue[1].task] \in Int /\ left[t] \in Int /\ left[queue[1].task] <= left[t]
  <2>1. PICK i \in 1..Len(queue) : queue[i].task = t
    BY DEF Queued
  <2>2. 1 \in 1..Len(queue) /\ (i = 1 \/ 1 < i)
    BY <1>2
  <2>3. queue[1].delta = Until(1) - Until(0) /\ Until(0) = 0 /\ Until(1) \in Nat
    BY <1>1, <2>2, QueueFacts
  <2>4. left[queue[1].task] <= left[queue[i].task]
    BY <1>1, <2>1, <2>2 DEF Ordered
  <2> QED
    BY <1>1, <1>2, <2>1, <2>2, <2>3, <2>4
<1>4. CASE HeadDue
  <2>1. 1 \in 1..Len(queue) /\ queue[1].delta = 0
    BY <1>2, <1>4 DEF HeadDue
  <2>2. Until(1) - Until(0) = 0 /\ Until(0) = 0 /\ Until(1) \in Nat
    BY <1>1, <2>1, QueueFacts
  <2>3. left[queue[1].task] <= 0
    BY <1>1, <2>1, <2>2 DEF Until, NotBefore0
  <2> QED
    BY <1>3, <1>4, <2>3
<1>5. CASE ~HeadDue
  <2> SUFFICES ASSUME NEW t \in Queued PROVE left[t] > 0
    BY <1>5
  <2>1. Until(1) # 0
    BY <1>3, <1>5 DEF HeadDue
  <2>2. left[queue[1].task] > 0
    BY <1>3, <2>1 DEF Until, NotBefore0
  <2> QED
    BY <1>3, <2>2
<1> QED
  BY <1>4, <1>5

\* Type correctness of the delay queue (DelayQueue.cpp:93-220).
THEOREM QueueTypeCorrect == QueueSpec => []QueueTypeOK
<1>1. QueueInv => QueueTypeOK
  BY DEF QueueInv
<1> QED
  BY <1>1, InitInv, StepInv, PTL DEF QueueSpec

\* DelayQueue.cpp:121-200, for every set of tasks and delays, and however the
\* clock goes: between two uses the differences in the queue are those of the
\* times until its tasks are due, and the tasks are in that order.
THEOREM DeltasCorrect == QueueSpec => []DeltasRight
  BY InitInv, StepInv, InvDeltas, PTL DEF QueueSpec

\* DelayQueue.cpp:179-189: what handleAlarm runs is due, and first among what is
\* queued; when it runs nothing, nothing is due.
THEOREM AlarmCorrect == QueueSpec => []AlarmRight
  BY InitInv, StepInv, InvAlarm, PTL DEF QueueSpec

\* A step that keeps the tasks of the queue adds none.
LEMMA TasksKept ==
  ASSUME \A p \in 1..Len(queue') : \E i \in 1..Len(queue) : queue'[p].task = queue[i].task
  PROVE  \A p \in 1..Len(queue') : queue'[p].task \in Queued
BY DEF Queued

LEMMA OnlyInserted ==
  ASSUME QueueInv, QueueNext, ~(at = "insert" /\ at' = "idle")
  PROVE  \A p \in 1..Len(queue') : queue'[p].task \in Queued
<1>1. queue \in Seq(Entry) /\ Len(queue) \in Nat /\ cur \in Nat
  BY DEF QueueInv, QueueTypeOK
<1>2. CASE queue' = queue
  BY <1>2, TasksKept
<1>3. ASSUME NEW p \in 1..Len(queue), queue' = Removed(queue, p)
      PROVE  \A i \in 1..Len(queue') : \E j \in 1..Len(queue) : queue'[i].task = queue[j].task
  <2> SUFFICES ASSUME NEW i \in 1..Len(queue')
               PROVE  \E j \in 1..Len(queue) : queue'[i].task = queue[j].task
    OBVIOUS
  <2>4. /\ Len(queue') = Len(queue) - 1
        /\ \A k \in 1..Len(queue) - 1 :
             queue'[k] = IF k < p THEN queue[k]
                         ELSE IF k = p THEN [task |-> queue[p + 1].task,
                                             delta |-> queue[p + 1].delta + queue[p].delta]
                         ELSE queue[k + 1]
    BY <1>1, <1>3, RemovedIs
  <2>1. i \in 1..Len(queue) - 1
    BY <2>4
  <2>2. CASE i < p
    BY <1>1, <2>1, <2>2, <2>4
  <2>3. CASE ~(i < p)
    <3>1. i + 1 \in 1..Len(queue) /\ queue'[i].task = queue[i + 1].task
      BY <1>1, <2>1, <2>3, <2>4
    <3> QED
      BY <3>1
  <2> QED
    BY <2>2, <2>3
<1>4. ASSUME NEW d \in Nat, NEW c \in 1..Len(queue), queue' = [queue EXCEPT ![c].delta = d]
      PROVE  \A i \in 1..Len(queue') : \E j \in 1..Len(queue) : queue'[i].task = queue[j].task
  <2>1. \A e \in Entry : [e EXCEPT !.delta = d].task = e.task
    BY DEF Entry
  <2>2. \A i \in 1..Len(queue) : queue[i] \in Entry
    BY <1>1, EntryAt
  <2>3. queue' = [queue EXCEPT ![c] = [queue[c] EXCEPT !.delta = d]] /\ Len(queue') = Len(queue)
    BY <1>1, <1>4
  <2> QED
    BY <1>1, <2>1, <2>2, <2>3
<1>5. CASE SyncStep
  <2>1. \/ queue' = queue
        \/ /\ cur <= Len(queue) /\ rest >= queue[cur].delta
           /\ queue' = [queue EXCEPT ![cur].delta = 0]
        \/ /\ cur <= Len(queue) /\ ~(rest >= queue[cur].delta)
           /\ queue' = [queue EXCEPT ![cur].delta = queue[cur].delta - rest]
    BY <1>5 DEF SyncStep
  <2>2. at = "sync" /\ cur \in 1..Len(queue) + 1 /\ rest \in Nat
    BY <1>5 DEF SyncStep, QueueInv, QueueTypeOK, Syncing
  <2>3. cur <= Len(queue) => cur \in 1..Len(queue) /\ queue[cur].delta \in Nat
    BY <1>1, <2>2, EntryAt
  <2>4. CASE cur <= Len(queue) /\ rest >= queue[cur].delta /\ queue' = [queue EXCEPT ![cur].delta = 0]
    BY <1>4, <2>3, <2>4, TasksKept
  <2>5. CASE /\ cur <= Len(queue) /\ ~(rest >= queue[cur].delta)
             /\ queue' = [queue EXCEPT ![cur].delta = queue[cur].delta - rest]
    <3>1. queue[cur].delta - rest \in Nat
      BY <2>2, <2>3, <2>5
    <3> QED
      BY <1>4, <2>3, <2>5, <3>1, TasksKept
  <2> QED
    BY <1>2, <2>1, <2>4, <2>5
<1>6. CASE InsertStep
  BY <1>2, <1>6 DEF InsertStep
<1>7. ASSUME NEW t \in Tasks, RemoveEntry(t)
      PROVE  \A p \in 1..Len(queue') : queue'[p].task \in Queued
  <2>1. (\E p \in 1..Len(queue) : queue' = Removed(queue, p)) \/ queue' = queue
    BY <1>7 DEF RemoveEntry
  <2> QED
    BY <1>2, <1>3, <2>1, TasksKept
<1>8. ASSUME NEW t \in Tasks, Fire(t)
      PROVE  \A p \in 1..Len(queue') : queue'[p].task \in Queued
  <2>1. queue # <<>> /\ queue' = Removed(queue, 1)
    BY <1>8 DEF Fire, HeadDue
  <2>2. 1 \in 1..Len(queue)
    BY <1>1, <2>1
  <2> QED
    BY <1>3, <2>1, <2>2, TasksKept
<1>9. CASE Tick \/ SetBack \/ NothingDue \/ TimeToNextAlarm \/ HandleAlarm
  BY <1>2, <1>9 DEF Tick, SetBack, NothingDue, TimeToNextAlarm, HandleAlarm, Synchronize, qvars
<1>10. ASSUME NEW t \in Tasks, NEW d \in Delays, AddEntry(t, d)
       PROVE  \A p \in 1..Len(queue') : queue'[p].task \in Queued
  BY <1>2, <1>10 DEF AddEntry, Synchronize
<1> QED
  BY <1>5, <1>6, <1>7, <1>8, <1>9, <1>10 DEF QueueNext

LEMMA AddedStep ==
  ASSUME QueueInv, QueueInv', QueueNext, NEW p \in 1..Len(queue'), queue'[p].task \notin Queued,
         NEW i \in 1..Len(queue)
  PROVE  i < p <=> left[queue[i].task] <= left'[queue'[p].task]
<1>1. at = "insert" /\ at' = "idle"
  BY OnlyInserted
<1>2. InsertStep
  BY <1>1, Zenon DEF QueueNext, Tick, SetBack, SyncStep, RemoveEntry, Fire, AddEntry, Synchronize,
                     TimeToNextAlarm, HandleAlarm, NothingDue, qvars
<1>3. ~(cur <= Len(queue) /\ rest >= queue[cur].delta)
  BY <1>1, <1>2 DEF InsertStep, Reaches
<1>4. /\ cur \in 1..Len(queue) + 1 /\ Len(queue) \in Nat /\ Len(queue') = Len(queue) + 1
      /\ \A k \in 1..Len(queue) : k < cur => queue'[k].task = queue[k].task
      /\ queue'[cur].task = op.task /\ left'[op.task] = op.delay
      /\ \A k \in 1..Len(queue) : k >= cur => queue'[k + 1].task = queue[k].task
      /\ \A k \in 1..Len(queue) : k < cur => left[queue[k].task] <= op.delay
      /\ \A k \in 1..Len(queue) : k >= cur => left[queue[k].task] > op.delay
  BY <1>2, <1>3, InsertFacts
<1>5. p = cur
  <2>1. CASE p < cur
    <3>1. p \in 1..Len(queue)
      BY <1>4, <2>1
    <3> QED
      BY <1>4, <2>1, <3>1 DEF Queued
  <2>2. CASE p > cur
    <3>1. p - 1 \in 1..Len(queue) /\ p - 1 >= cur /\ (p - 1) + 1 = p
      BY <1>4, <2>2
    <3>2. queue'[p].task = queue[p - 1].task
      BY <1>4, <3>1
    <3> QED
      BY <3>1, <3>2 DEF Queued
  <2> QED
    BY <1>4, <2>1, <2>2
<1>6. left[queue[i].task] \in Int /\ op.delay \in Nat
  BY <1>2, <1>3, InsertFacts, QueueFacts DEF QueueInv
<1> QED
  BY <1>4, <1>5, <1>6

\* DelayQueue.cpp:125-135: a task that is added is queued behind all those that are
\* due no later than it, and before all others.
THEOREM AddedCorrect == QueueSpec => AddedLast
<1> DEFINE A == \A p \in 1..Len(queue') : queue'[p].task \notin Queued =>
                  \A i \in 1..Len(queue) : i < p <=> left[queue[i].task] <= left'[queue'[p].task]
<1>1. QueueInv /\ [QueueNext]_qvars => [A]_qvars
  <2> SUFFICES ASSUME QueueInv, QueueNext PROVE A
    OBVIOUS
  <2>1. QueueInv'
    BY StepInv
  <2> QED
    BY <2>1, AddedStep
<1>2. QueueSpec => [][A]_qvars
  BY <1>1, InitInv, StepInv, PTL DEF QueueSpec
<1> QED
  BY <1>2 DEF AddedLast

-----------------------------------------------------------------------------
(* The sockets.                                                             *)

\* Each handler's socket is in the set that select is given, and below the bound.
SocketsInv ==
  /\ readSet = {handlers[i] : i \in 1..Len(handlers)}
  /\ \A s \in readSet : s < maxNum
  /\ \A i, j \in 1..Len(handlers) : i # j => handlers[i] # handlers[j]

LoopInv == LoopTypeOK /\ SocketsInv

-----------------------------------------------------------------------------
(* The loop and the delay queue.                                            *)

LEMMA LoopInitQueue == Init => QueueInit
BY DEF Init

LEMMA LoopStepQueue == [Next]_vars => [QueueNext]_qvars
<1> SUFFICES ASSUME [Next]_vars PROVE QueueNext \/ qvars' = qvars
  OBVIOUS
<1> USE DEF QueueNext
<1>1. CASE UNCHANGED vars
  BY <1>1 DEF vars
<1>2. CASE LoopStep
  <2>1. CASE Top
    BY <2>1 DEF Top
  <2>2. CASE Alarm
    BY <2>2 DEF Alarm
  <2>3. CASE NoTask
    BY <2>3 DEF NoTask
  <2>4. CASE SchedulerTick
    BY <2>4, LoopAssumption DEF SchedulerTick
  <2>5. CASE Walk
    BY <2>5 DEF Walk
  <2>6. ASSUME NEW t \in Tasks, RunTask(t) PROVE QueueNext
    BY <2>6 DEF RunTask
  <2>7. CASE Select \/ NoSocket \/ NoTrigger \/ Return
    BY <2>7 DEF Select, NoSocket, NoTrigger, Return
  <2>8. ASSUME NEW s \in Socks, CallSocket(s) PROVE qvars' = qvars
    BY <2>8 DEF CallSocket
  <2>9. ASSUME NEW i \in Triggers, CallTrigger(i) PROVE qvars' = qvars
    BY <2>9 DEF CallTrigger
  <2> QED
    BY <1>2, <2>1, <2>2, <2>3, <2>4, <2>5, <2>6, <2>7, <2>8, <2>9, Zenon DEF LoopStep
<1>3. CASE AppStep
  <2>1. ASSUME NEW t \in Tasks, Unschedule(t) PROVE QueueNext
    BY <2>1 DEF Unschedule
  <2>2. ASSUME NEW t \in Tasks, NEW d \in Delays, Schedule(t, d) PROVE QueueNext
    BY <2>2 DEF Schedule
  <2>3. ASSUME NEW s \in Socks, TurnOn(s) \/ TurnOff(s) \/ \E n \in Socks : Move(s, n) PROVE qvars' = qvars
    BY <2>3 DEF TurnOn, TurnOff, Move
  <2>4. ASSUME NEW i \in Triggers, Delete(i) \/ TriggerEvent(i) PROVE qvars' = qvars
    BY <2>4 DEF Delete, TriggerEvent
  <2>5. CASE Create \/ Nest
    BY <2>5 DEF Create, Nest
  <2> QED
    BY <1>3, <2>1, <2>2, <2>3, <2>4, <2>5, Zenon DEF AppStep
<1>4. CASE Clock
  BY <1>4 DEF Clock
<1>5. CASE Leave \/ Interrupted \/ \E s \in Socks : Arrive(s)
  BY <1>5 DEF Leave, Interrupted, Arrive
<1> QED
  BY <1>1, <1>2, <1>3, <1>4, <1>5 DEF Next

\* BasicTaskScheduler.cpp:66-213: whatever the loop and its callbacks do, the delay
\* queue is used as the module DelayQueue says.
THEOREM LoopUsesQueue == Spec => QueueSpec
  BY LoopInitQueue, LoopStepQueue, PTL DEF Spec, QueueSpec

\* In the loop, with whatever its callbacks schedule, unschedule and run within
\* themselves, the differences in the delay queue are those of the times at which
\* its tasks are due.
THEOREM LoopDeltas == Spec => []DeltasRight
  BY LoopUsesQueue, DeltasCorrect, PTL

\* In the loop, the task that a step runs is due, and none is due before it.
THEOREM LoopAlarm == Spec => []AlarmRight
  BY LoopUsesQueue, AlarmCorrect, PTL

\* In the loop, a task that is scheduled is queued behind those due no later.
THEOREM LoopAdded == Spec => AddedLast
  BY LoopUsesQueue, AddedCorrect, PTL

-----------------------------------------------------------------------------
(* The sockets that have a handler.                                         *)

\* The list without the socket s, which stands in it once.
LEMMA WithoutSocket ==
  ASSUME NEW h \in Seq(Socks), NEW s \in Socks, Contains(h, s),
         \A i, j \in 1..Len(h) : i # j => h[i] # h[j]
  PROVE  /\ RemoveAt(h, Place(h, s)) \in Seq(Socks)
         /\ {RemoveAt(h, Place(h, s))[i] : i \in 1..Len(RemoveAt(h, Place(h, s)))}
              = {h[i] : i \in 1..Len(h)} \ {s}
         /\ \A i, j \in 1..Len(RemoveAt(h, Place(h, s))) :
              i # j => RemoveAt(h, Place(h, s))[i] # RemoveAt(h, Place(h, s))[j]
<1>1. PICK p \in 1..Len(h) : h[p] = s
  BY DEF Contains
<1>2. Place(h, s) = p
  <2>1. \A i \in 1..Len(h) : h[i] = s => i = p
    BY <1>1
  <2>2. p \in 1..Len(h) /\ h[p] = s /\ \A j \in 1..p - 1 : h[j] # s
    BY <1>1
  <2> QED
    BY <2>1, <2>2 DEF Place
<1> DEFINE l == SubSeq(h, 1, p - 1)
           r == SubSeq(h, p + 1, Len(h))
           g == RemoveAt(h, p)
<1>3. Len(h) \in Nat /\ p - 1 \in Int /\ p + 1 \in Int
  OBVIOUS
<1>4. l \in Seq(Socks) /\ Len(l) = p - 1 /\ \A i \in 1..p - 1 : l[i] = h[i]
  <2>1. \A i \in 1..p - 1 : h[i] \in Socks
    OBVIOUS
  <2> QED
    BY <1>3, <2>1, SubSeqProperties
<1>5. r \in Seq(Socks) /\ Len(r) = Len(h) - p /\ \A i \in 1..Len(h) - p : r[i] = h[p + i]
  <2>1. \A i \in p + 1..Len(h) : h[i] \in Socks
    OBVIOUS
  <2>2. /\ r \in Seq(Socks) /\ Len(r) = (IF p + 1 <= Len(h) THEN Len(h) - (p + 1) + 1 ELSE 0)
        /\ \A i \in 1..Len(h) - (p + 1) + 1 : r[i] = h[(p + 1) + i - 1]
    BY <1>3, <2>1, SubSeqProperties
  <2> QED
    BY <1>3, <2>2
<1>6. g = l \o r
  BY DEF RemoveAt
<1>11. RemoveAt(h, Place(h, s)) = g
  BY <1>2
<1> HIDE DEF l, r, g
<1>7. /\ g \in Seq(Socks) /\ Len(g) = Len(h) - 1
      /\ \A i \in 1..Len(h) - 1 : g[i] = IF i < p THEN h[i] ELSE h[i + 1]
  <2>1. g \in Seq(Socks) /\ Len(g) = Len(l) + Len(r)
        /\ \A i \in 1..Len(l) + Len(r) : g[i] = IF i <= Len(l) THEN l[i] ELSE r[i - Len(l)]
    BY <1>4, <1>5, <1>6, ConcatProperties
  <2>2. ASSUME NEW i \in 1..Len(h) - 1
        PROVE  g[i] = IF i < p THEN h[i] ELSE h[i + 1]
    <3>1. i \in 1..Len(l) + Len(r)
      BY <1>3, <1>4, <1>5
    <3>2. CASE i < p
      BY <1>3, <1>4, <2>1, <3>1, <3>2
    <3>3. CASE ~(i < p)
      <4>1. g[i] = r[i - (p - 1)] /\ i - (p - 1) \in 1..Len(h) - p
        BY <1>3, <1>4, <2>1, <3>1, <3>3
      <4>2. r[i - (p - 1)] = h[p + (i - (p - 1))] /\ p + (i - (p - 1)) = i + 1
        BY <1>3, <1>5, <4>1
      <4> QED
        BY <3>3, <4>1, <4>2
    <3> QED
      BY <3>2, <3>3
  <2> QED
    BY <1>3, <1>4, <1>5, <2>1, <2>2
<1>8. \A i \in 1..Len(h) - 1 : (IF i < p THEN i ELSE i + 1) \in 1..Len(h) /\ (IF i < p THEN i ELSE i + 1) # p
  BY <1>3
<1>9. \A i, j \in 1..Len(g) : i # j => g[i] # g[j]
  <2> SUFFICES ASSUME NEW i \in 1..Len(h) - 1, NEW j \in 1..Len(h) - 1, i # j
               PROVE  g[i] # g[j]
    BY <1>7
  <2> DEFINE a == IF i < p THEN i ELSE i + 1
             b == IF j < p THEN j ELSE j + 1
  <2>1. g[i] = h[a] /\ g[j] = h[b]
    BY <1>7
  <2>2. a \in 1..Len(h) /\ b \in 1..Len(h) /\ a # b
    BY <1>3
  <2> HIDE DEF a, b
  <2> QED
    BY <2>1, <2>2
<1>10. {g[i] : i \in 1..Len(g)} = {h[i] : i \in 1..Len(h)} \ {s}
  <2>1. ASSUME NEW i \in 1..Len(g)
        PROVE  g[i] \in {h[k] : k \in 1..Len(h)} \ {s}
    <3>1. i \in 1..Len(h) - 1
      BY <1>7
    <3> DEFINE a == IF i < p THEN i ELSE i + 1
    <3>2. g[i] = h[a] /\ a \in 1..Len(h) /\ a # p
      BY <1>7, <1>8, <3>1
    <3> HIDE DEF a
    <3> QED
      BY <1>1, <3>2
  <2>2. ASSUME NEW k \in 1..Len(h), h[k] # s
        PROVE  \E i \in 1..Len(g) : g[i] = h[k]
    <3>1. CASE k < p
      BY <1>3, <1>7, <3>1
    <3>2. CASE k > p
      <4>1. k - 1 \in 1..Len(h) - 1 /\ ~(k - 1 < p) /\ (k - 1) + 1 = k
        BY <1>3, <3>2
      <4> QED
        BY <1>7, <4>1
    <3> QED
      BY <1>1, <1>3, <2>2, <3>1, <3>2
  <2> QED
    BY <2>1, <2>2
<1> QED
  BY <1>7, <1>9, <1>10, <1>11, ZenonT(40)

LEMMA LoopInitInv == Init => LoopInv
<1> SUFFICES ASSUME Init PROVE LoopInv
  OBVIOUS
<1>1. PICK s \in Socks : handlers = <<s>> /\ readSet = {s} /\ maxNum = s + 1
  BY DEF Init
<1>2. s \in Nat
  BY LoopAssumption
<1>3. LoopTypeOK
  BY <1>1, <1>2, LoopAssumption DEF Init, LoopTypeOK, Back, ToTop, Triggers, None
<1>4. SocketsInv
  BY <1>1, <1>2 DEF SocketsInv
<1> QED
  BY <1>3, <1>4 DEF LoopInv

LEMMA TurnOnInv ==
  ASSUME LoopInv, NEW s \in Socks, TurnOn(s)
  PROVE  LoopInv'
<1> USE DEF LoopInv
<1>1. /\ handlers \in Seq(Socks) /\ readSet \subseteq Socks /\ maxNum \in Nat /\ s \in Nat
      /\ handlers' = (IF Contains(handlers, s) THEN handlers ELSE <<s>> \o handlers)
      /\ readSet' = readSet \cup {s} /\ maxNum' = Higher(s)
      /\ UNCHANGED <<phase, back, frames, lastSock, result, ready, procs, awaiting, lastTrig>>
  BY LoopAssumption DEF LoopTypeOK, TurnOn, Callback, trigs
<1>2. maxNum' \in Nat /\ s < maxNum' /\ maxNum <= maxNum'
  BY <1>1 DEF Higher
<1>3. CASE Contains(handlers, s)
  <2>1. s \in readSet /\ handlers' = handlers /\ readSet' = readSet
    BY <1>1, <1>3 DEF Contains, SocketsInv
  <2>2. LoopTypeOK'
    BY <1>1, <1>2, <2>1 DEF LoopTypeOK
  <2>3. \A r \in readSet : r < maxNum'
    BY <1>1, <1>2, LoopAssumption DEF SocketsInv
  <2> QED
    BY <2>1, <2>2, <2>3 DEF SocketsInv
<1>4. CASE ~Contains(handlers, s)
  <2> DEFINE h == <<s>> \o handlers
  <2>1. /\ h \in Seq(Socks) /\ Len(h) = Len(handlers) + 1 /\ h[1] = s /\ Len(handlers) \in Nat
        /\ \A i \in 1..Len(handlers) : h[i + 1] = handlers[i]
    BY <1>1
  <2>2. \A i \in 1..Len(handlers) : handlers[i] # s
    BY <1>4 DEF Contains
  <2>3. handlers' = h
    BY <1>1, <1>4
  <2> HIDE DEF h
  <2>4. LoopTypeOK'
    BY <1>1, <1>2, <2>1, <2>3 DEF LoopTypeOK
  <2>5. \A r \in readSet' : r < maxNum'
    <3> SUFFICES ASSUME NEW r \in readSet PROVE r < maxNum'
      BY <1>1, <1>2
    <3>1. r < maxNum /\ r \in Nat
      BY <1>1, LoopAssumption DEF SocketsInv
    <3> QED
      BY <1>1, <1>2, <3>1
  <2>6. \A i \in 1..Len(h) : i = 1 \/ (i - 1 \in 1..Len(handlers) /\ h[i] = handlers[i - 1])
    <3> SUFFICES ASSUME NEW i \in 1..Len(h), i # 1 PROVE i - 1 \in 1..Len(handlers) /\ h[i] = handlers[i - 1]
      OBVIOUS
    <3>1. i - 1 \in 1..Len(handlers) /\ (i - 1) + 1 = i
      BY <2>1
    <3> QED
      BY <2>1, <3>1
  <2>7. \A i, j \in 1..Len(h) : i # j => h[i] # h[j]
    <3> SUFFICES ASSUME NEW i \in 1..Len(h), NEW j \in 1..Len(h), i # j PROVE h[i] # h[j]
      OBVIOUS
    <3>1. CASE i = 1 \/ j = 1
      <4>1. \A k \in 1..Len(h) : k # 1 => h[k] # s
        BY <2>2, <2>6
      <4> QED
        BY <2>1, <3>1, <4>1
    <3>2. CASE i # 1 /\ j # 1
      <4>1. i - 1 \in 1..Len(handlers) /\ j - 1 \in 1..Len(handlers) /\ i - 1 # j - 1
        BY <2>1, <2>6, <3>2
      <4>2. h[i] = handlers[i - 1] /\ h[j] = handlers[j - 1]
        BY <2>6, <3>2
      <4> QED
        BY <4>1, <4>2 DEF SocketsInv
    <3> QED
      BY <3>1, <3>2, Zenon
  <2>8. {h[i] : i \in 1..Len(h)} = {handlers[i] : i \in 1..Len(handlers)} \cup {s}
    <3>1. \A i \in 1..Len(handlers) : i + 1 \in 1..Len(h) /\ h[i + 1] = handlers[i]
      BY <2>1
    <3>2. 1 \in 1..Len(h) /\ h[1] = s
      BY <2>1
    <3>3. ASSUME NEW i \in 1..Len(h)
          PROVE  h[i] \in {handlers[k] : k \in 1..Len(handlers)} \cup {s}
      BY <2>1, <2>6
    <3>4. ASSUME NEW k \in 1..Len(handlers)
          PROVE  handlers[k] \in {h[i] : i \in 1..Len(h)}
      BY <3>1
    <3>5. s \in {h[i] : i \in 1..Len(h)}
      BY <3>2
    <3> QED
      BY <3>3, <3>4, <3>5
  <2>9. readSet' = {handlers'[i] : i \in 1..Len(handlers')}
    BY <1>1, <2>3, <2>8 DEF SocketsInv
  <2> QED
    BY <2>3, <2>4, <2>5, <2>7, <2>9 DEF SocketsInv
<1> QED
  BY <1>3, <1>4

LEMMA TurnOffInv ==
  ASSUME LoopInv, NEW s \in Socks, TurnOff(s)
  PROVE  LoopInv'
<1> USE DEF LoopInv
<1>1. /\ handlers \in Seq(Socks) /\ readSet \subseteq Socks /\ maxNum \in Nat /\ s \in Nat
      /\ handlers' = (IF Contains(handlers, s) THEN RemoveAt(handlers, Place(handlers, s)) ELSE handlers)
      /\ readSet' = readSet \ {s} /\ maxNum' = (IF s + 1 = maxNum THEN maxNum - 1 ELSE maxNum)
      /\ UNCHANGED <<phase, back, frames, lastSock, result, ready, procs, awaiting, lastTrig>>
  BY LoopAssumption DEF LoopTypeOK, TurnOff, Callback, trigs
<1>2. maxNum' \in Nat
  BY <1>1
<1>3. \A r \in readSet' : r < maxNum'
  <2> SUFFICES ASSUME NEW r \in readSet, r # s PROVE r < maxNum'
    BY <1>1
  <2>1. r < maxNum /\ r \in Nat
    BY <1>1, LoopAssumption DEF SocketsInv
  <2> QED
    BY <1>1, <2>1
<1>4. CASE Contains(handlers, s)
  <2> DEFINE g == RemoveAt(handlers, Place(handlers, s))
  <2>1. /\ g \in Seq(Socks)
        /\ {g[i] : i \in 1..Len(g)} = {handlers[i] : i \in 1..Len(handlers)} \ {s}
        /\ \A i, j \in 1..Len(g) : i # j => g[i] # g[j]
    BY <1>1, <1>4, WithoutSocket DEF SocketsInv
  <2>2. handlers' = g
    BY <1>1, <1>4
  <2> HIDE DEF g
  <2>3. LoopTypeOK'
    BY <1>1, <1>2, <2>1, <2>2 DEF LoopTypeOK
  <2> QED
    BY <1>1, <1>3, <2>1, <2>2, <2>3 DEF SocketsInv
<1>5. CASE ~Contains(handlers, s)
  <2>1. handlers' = handlers /\ readSet' = readSet
    BY <1>1, <1>5 DEF Contains, SocketsInv
  <2>2. LoopTypeOK'
    BY <1>1, <1>2, <2>1 DEF LoopTypeOK
  <2> QED
    BY <1>3, <2>1, <2>2 DEF SocketsInv
<1> QED
  BY <1>4, <1>5

LEMMA MoveInv ==
  ASSUME LoopInv, NEW s \in Socks, NEW n \in Socks, Move(s, n)
  PROVE  LoopInv'
<1> USE DEF LoopInv
<1> DEFINE h == [i \in 1..Len(handlers) |-> IF handlers[i] = s THEN n ELSE handlers[i]]
           m == IF s + 1 = maxNum THEN maxNum - 1 ELSE maxNum
<1>1. /\ handlers \in Seq(Socks) /\ readSet \subseteq Socks /\ maxNum \in Nat /\ s \in Nat /\ n \in Nat
      /\ s # n /\ ~Contains(handlers, n)
      /\ handlers' = h
      /\ readSet' = (IF s \in readSet THEN (readSet \ {s}) \cup {n} ELSE readSet)
      /\ maxNum' = (IF n + 1 > m THEN n + 1 ELSE m)
      /\ UNCHANGED <<phase, back, frames, lastSock, result, ready, procs, awaiting, lastTrig>>
  BY LoopAssumption DEF LoopTypeOK, Move, Callback, trigs
<1>2. maxNum' \in Nat /\ n < maxNum' /\ m <= maxNum'
  BY <1>1
<1>3. \A r \in readSet' : r < maxNum'
  <2> SUFFICES ASSUME NEW r \in readSet', r # n PROVE r < maxNum'
    BY <1>2
  <2>1. r \in readSet /\ r # s /\ r < maxNum /\ r \in Nat
    BY <1>1, LoopAssumption DEF SocketsInv
  <2>2. r < m
    BY <1>1, <2>1
  <2> QED
    BY <1>1, <1>2, <2>1, <2>2
<1>4. /\ h \in Seq(Socks) /\ Len(h) = Len(handlers) /\ Len(handlers) \in Nat
      /\ \A i \in 1..Len(handlers) : h[i] = IF handlers[i] = s THEN n ELSE handlers[i]
  BY <1>1
<1>5. \A i \in 1..Len(handlers) : handlers[i] # n
  BY <1>1 DEF Contains
<1> HIDE DEF h
<1>6. \A i, j \in 1..Len(h) : i # j => h[i] # h[j]
  BY <1>4, <1>5 DEF SocketsInv
<1>7. {h[i] : i \in 1..Len(h)} = readSet'
  <2>1. readSet = {handlers[i] : i \in 1..Len(handlers)}
    BY DEF SocketsInv
  <2>2. CASE s \in readSet
    <3>1. PICK p \in 1..Len(handlers) : handlers[p] = s
      BY <2>1, <2>2
    <3>2. h[p] = n /\ \A i \in 1..Len(handlers) : i # p => h[i] = handlers[i] /\ handlers[i] # s
      BY <1>4, <3>1 DEF SocketsInv
    <3>3. readSet' = (readSet \ {s}) \cup {n}
      BY <1>1, <2>2
    <3> QED
      BY <1>4, <2>1, <3>1, <3>2, <3>3
  <2>3. CASE s \notin readSet
    <3>1. \A i \in 1..Len(handlers) : h[i] = handlers[i]
      BY <1>4, <2>1, <2>3
    <3> QED
      BY <1>1, <1>4, <2>1, <2>3, <3>1
  <2> QED
    BY <2>2, <2>3
<1>8. readSet' \subseteq Socks
  BY <1>1
<1>9. LoopTypeOK'
  BY <1>1, <1>2, <1>4, <1>8 DEF LoopTypeOK
<1> QED
  BY <1>1, <1>3, <1>6, <1>7, <1>9 DEF SocketsInv

LEMMA LoopStepInv == LoopInv /\ [Next]_vars => LoopInv'
<1> SUFFICES ASSUME LoopInv, [Next]_vars PROVE LoopInv'
  OBVIOUS
<1>0. /\ ToTop \in Back /\ {None} \cup Triggers = Triggers \cup {None}
      /\ LoopTypeOK
  BY DEF Back, ToTop, LoopInv
<1>1. CASE UNCHANGED vars
  BY <1>1 DEF vars, lvars, LoopInv, LoopTypeOK, SocketsInv
<1>2. ASSUME UNCHANGED socks, LoopTypeOK' PROVE LoopInv'
  BY <1>2 DEF LoopInv, SocketsInv, socks
<1>3. CASE LoopStep
  <2>1. CASE Top
    BY <1>0, <1>2, <2>1 DEF Top, socks, trigs, LoopTypeOK
  <2>2. CASE Select
    <3>1. Looked \cap ready \subseteq Socks
      BY <1>0 DEF Looked, LoopTypeOK
    <3> QED
      BY <1>0, <1>2, <2>2, <3>1 DEF Select, socks, trigs, LoopTypeOK
  <2>3. CASE NoSocket
    BY <1>0, <1>2, <2>3 DEF NoSocket, socks, trigs, LoopTypeOK
  <2>4. CASE NoTrigger
    BY <1>0, <1>2, <2>4 DEF NoTrigger, socks, trigs, LoopTypeOK
  <2>5. CASE Alarm
    BY <1>0, <1>2, <2>5 DEF Alarm, socks, trigs, LoopTypeOK
  <2>6. CASE NoTask
    BY <1>0, <1>2, <2>6 DEF NoTask, socks, trigs, LoopTypeOK
  <2>7. CASE SchedulerTick
    BY <1>0, <1>2, <2>7 DEF SchedulerTick, socks, trigs, LoopTypeOK
  <2>8. CASE Walk
    BY <1>0, <1>2, <2>8 DEF Walk, lvars, socks, trigs, LoopTypeOK
  <2>9. CASE Return
    <3>1. back.phase \in {"trigger", "alarm", "top"} /\ back.trig \in Triggers \cup {None}
      BY <1>0 DEF LoopTypeOK, Back
    <3>2. lastTrig' \in Triggers
      BY <1>0, <2>9, <3>1 DEF Return, LoopTypeOK
    <3> QED
      BY <1>0, <1>2, <2>9, <3>1, <3>2 DEF Return, socks, LoopTypeOK
  <2>10. ASSUME NEW s \in Socks, CallSocket(s) PROVE LoopInv'
    <3>1. [phase |-> "trigger", trig |-> None] \in Back
      BY DEF Back
    <3> QED
      BY <1>0, <1>2, <2>10, <3>1 DEF CallSocket, socks, trigs, LoopTypeOK
  <2>11. ASSUME NEW i \in Triggers, CallTrigger(i) PROVE LoopInv'
    <3>1. \A x \in Triggers \cup {None} : [phase |-> "alarm", trig |-> x] \in Back
      BY DEF Back
    <3>2. back' \in Back /\ phase' \in {"callback", "alarm"} /\ lastTrig' \in Triggers /\ awaiting' \subseteq Triggers
      BY <1>0, <2>11, <3>1 DEF CallTrigger, LoopTypeOK
    <3> QED
      BY <1>0, <1>2, <2>11, <3>2 DEF CallTrigger, socks, LoopTypeOK
  <2>12. ASSUME NEW t \in Tasks, RunTask(t) PROVE LoopInv'
    BY <1>0, <1>2, <2>12 DEF RunTask, socks, trigs, LoopTypeOK
  <2> QED
    BY <1>3, <2>1, <2>2, <2>3, <2>4, <2>5, <2>6, <2>7, <2>8, <2>9, <2>10, <2>11, <2>12, Zenon DEF LoopStep
<1>4. CASE AppStep
  <2>1. ASSUME NEW t \in Tasks, Unschedule(t) PROVE LoopInv'
    BY <1>0, <1>2, <2>1 DEF Unschedule, Callback, socks, trigs, LoopTypeOK
  <2>2. ASSUME NEW t \in Tasks, NEW d \in Delays, Schedule(t, d) PROVE LoopInv'
    BY <1>0, <1>2, <2>2 DEF Schedule, Callback, socks, trigs, LoopTypeOK
  <2>3. ASSUME NEW i \in Triggers, Delete(i) PROVE LoopInv'
    BY <1>0, <1>2, <2>3 DEF Delete, Callback, socks, LoopTypeOK
  <2>4. ASSUME NEW i \in Triggers, TriggerEvent(i) PROVE LoopInv'
    BY <1>0, <1>2, <2>4 DEF TriggerEvent, Callback, socks, LoopTypeOK
  <2>5. CASE Create
    <3>1. procs' \subseteq Triggers /\ lastTrig' \in Triggers
      BY <1>0, <2>5 DEF Create, LoopTypeOK
    <3> QED
      BY <1>0, <1>2, <2>5, <3>1 DEF Create, Callback, socks, LoopTypeOK
  <2>6. CASE Nest
    <3>1. Append(frames, back) \in Seq(Back)
      BY <1>0 DEF LoopTypeOK
    <3> QED
      BY <1>0, <1>2, <2>6, <3>1 DEF Nest, socks, trigs, LoopTypeOK
  <2> QED
    BY <1>4, <2>1, <2>2, <2>3, <2>4, <2>5, <2>6, TurnOnInv, TurnOffInv, MoveInv, Zenon DEF AppStep
<1>5. CASE Clock
  BY <1>0, <1>2, <1>5 DEF Clock, lvars, socks, LoopTypeOK
<1>6. CASE Leave
  <2>1. Last(frames) \in Back /\ Front(frames) \in Seq(Back)
    <3>1. frames \in Seq(Back) /\ frames # <<>>
      BY <1>0, <1>6 DEF LoopTypeOK, Leave
    <3>2. Len(frames) \in 1..Len(frames) /\ Len(frames) - 1 \in Int /\ 1 \in Int
      BY <3>1
    <3>3. \A i \in 1..Len(frames) - 1 : frames[i] \in Back
      BY <3>1
    <3> QED
      BY <3>1, <3>2, <3>3, SubSeqProperties DEF Last, Front
  <2> QED
    BY <1>0, <1>2, <1>6, <2>1 DEF Leave, socks, trigs, LoopTypeOK
<1>7. CASE Interrupted
  BY <1>0, <1>2, <1>7 DEF Interrupted, socks, trigs, LoopTypeOK
<1>8. ASSUME NEW s \in Socks, Arrive(s) PROVE LoopInv'
  BY <1>0, <1>2, <1>8 DEF Arrive, socks, trigs, LoopTypeOK
<1> QED
  BY <1>1, <1>3, <1>4, <1>5, <1>6, <1>7, <1>8, Zenon DEF Next

\* BasicTaskScheduler.cpp:66-256: the type invariant of the loop.
THEOREM LoopTypeCorrect == Spec => []TypeOK
<1>1. LoopInv => LoopTypeOK
  BY DEF LoopInv
<1>2. Spec => []LoopInv
  BY LoopInitInv, LoopStepInv, PTL DEF Spec
<1> QED
  BY <1>1, <1>2, LoopUsesQueue, QueueTypeCorrect, PTL DEF TypeOK

\* BasicTaskScheduler.cpp:215-256: whatever the callbacks turn on and off and move,
\* select looks at just the sockets that have a handler.
THEOREM SelectSees == Spec => []SelectSeesHandlers
<1>1. LoopInv => SelectSeesHandlers
  <2> SUFFICES ASSUME LoopInv PROVE SelectSeesHandlers
    OBVIOUS
  <2>1. DOMAIN handlers = 1..Len(handlers)
    BY DEF LoopInv, LoopTypeOK
  <2>2. Looked = readSet
    BY DEF LoopInv, SocketsInv, Looked
  <2> QED
    BY <2>1, <2>2 DEF LoopInv, SocketsInv, SelectSeesHandlers, ToSet
<1> QED
  BY <1>1, LoopInitInv, LoopStepInv, PTL DEF Spec
=============================================================================
