-------------------------- MODULE TaskRunnerProofs --------------------------
(***************************************************************************)
(* Theorems about TaskRunner, for every set of workers, clients and tasks,  *)
(* every plan of the owner and every size: the type invariant, mutual       *)
(* exclusion, and that a flush that returns leaves no worker behind.  And   *)
(* for one worker and tasks of one priority: that each task is run once at  *)
(* most, that a full queue is full, and that the runner implements the pool *)
(* of TaskPool.                                                             *)
(***************************************************************************)
EXTENDS TaskRunnerFifo, SequenceTheorems, TLAPS

\* What a thread has at hand where it is: a client inside a call has a task, a
\* worker that has taken a task has it, start() has the thread it created, and
\* the owner inside a call has that call at the head of its plan.
LocalInv ==
  /\ \A c \in Clients : pc[c] # "idle" => call[c] \in Tasks
  /\ \A w \in Workers :
       pc[w] \in {"pop", "popping", "run", "running"} => task[w] \in Tasks
  /\ pc[Main] = "record" => ptrd \in Workers
  /\ pc[Main] # "idle" => todo # <<>>

TypeInv == TypeOK /\ LocalInv

USE DEF WorkerPc, ClientPc, MainPc, RUNNING, NO_WAIT, GRACEFULL, GARBAGE

LEMMA TypeInit == Init => TypeInv
<1> SUFFICES ASSUME Init PROVE TypeInv
  OBVIOUS
<1>1. mThreadQueue \in Seq(Workers) /\ todo \in Seq(Calls)
  BY PlansAssumption DEF Init
<1>2. pc \in [Threads -> WorkerPc \cup ClientPc \cup MainPc]
  BY DEF Init
<1>3. \A t \in Threads : pc[t] = IF t \in Workers THEN "none" ELSE "idle"
  BY DEF Init
<1>4. DOMAIN slots = {}
  BY DEF Init
<1>5. /\ task \in [Workers -> Tasks \cup {Null}]
      /\ cur \in [Workers \cup Clients -> Int]
      /\ call \in [Clients -> Tasks \cup {Null}]
      /\ result \in [Tasks -> {"none", "ok", "full", "shutdown"}]
      /\ runs \in [Tasks -> Nat]
  BY DEF Init
<1>6. /\ \A w \in Workers : pc[w] = "none"
      /\ \A c \in Clients : pc[c] = "idle"
      /\ pc[Main] = "idle"
  BY <1>3, ThreadsAssumption DEF Threads
<1>7. /\ mMutex = Nobody /\ mDelayCMD \in DelayCMDs
      /\ start = 0 /\ finish = 0
      /\ cancelled = {} /\ freed = {}
      /\ flag = NO_WAIT /\ index = 0 /\ ptrd = Nobody /\ crashed = FALSE
  BY DEF Init
<1>10. /\ start \in Int /\ finish \in Int /\ index \in Nat
       /\ flag \in {NO_WAIT, GRACEFULL}
  BY <1>7
<1>13. /\ mMutex \in Threads \cup {Nobody} /\ ptrd \in Workers \cup {Nobody}
       /\ crashed \in BOOLEAN
  BY <1>7, Zenon
<1>11. /\ DOMAIN slots \subseteq Int
       /\ \A i \in DOMAIN slots : slots[i] \in Tasks
  BY <1>4
<1>12. /\ \A w \in Workers : pc[w] \in WorkerPc
       /\ \A c \in Clients : pc[c] \in ClientPc
       /\ pc[Main] \in MainPc
  BY <1>6
<1>9. TypeOK
  BY <1>1, <1>2, <1>5, <1>7, <1>10, <1>11, <1>12, <1>13, Zenon DEF TypeOK
<1>8. LocalInv
  BY <1>6 DEF LocalInv
<1> QED
  BY <1>8, <1>9 DEF TypeInv

LEMMA TypeStep ==
  ASSUME TypeInv, Next
  PROVE  TypeInv'
<1>1. ASSUME NEW t \in Threads, Lock(t)
      PROVE  TypeInv'
  BY <1>1, TypeInv, ThreadsAssumption
     DEF At, Lock, Locking, Goto, TypeInv, TypeOK, LocalInv, Threads, DelayCMDs,
         deque, pool, locals, tasks, main
<1>2. ASSUME NEW w \in Workers, WorkerInit(w)
      PROVE  TypeInv'
  BY <1>2, TypeInv, ThreadsAssumption
     DEF At, WorkerInit, Goto, TypeInv, TypeOK, LocalInv, Threads, DelayCMDs,
         deque, pool, locals, tasks, main
<1>3. ASSUME NEW w \in Workers, WorkerCheck(w)
      PROVE  TypeInv'
  <2>1. PICK there \in {"wait", "exiting", "lock", "front"} : pc' = [pc EXCEPT ![w] = there]
    BY <1>3 DEF WorkerCheck, Goto
  <2>2. mMutex' \in {mMutex, Nobody}
    BY <1>3 DEF WorkerCheck
  <2>3. UNCHANGED <<mDelayCMD, mThreadQueue, start, finish, slots, task, cur, call, result,
                    cancelled, freed, runs, todo, flag, index, ptrd, crashed>>
    BY <1>3 DEF WorkerCheck, pool, deque, locals, tasks, main
  <2> QED
    BY <2>1, <2>2, <2>3, TypeInv, ThreadsAssumption DEF TypeInv, TypeOK, LocalInv, Threads
<1>4. ASSUME NEW w \in Workers, SpuriousWakeup(w)
      PROVE  TypeInv'
  BY <1>4, TypeInv, ThreadsAssumption
     DEF At, SpuriousWakeup, Reacquire, Goto, TypeInv, TypeOK, LocalInv,
         Threads, DelayCMDs, deque, pool, locals, tasks, main
<1>5. ASSUME NEW w \in Workers, WorkerFront(w)
      PROVE  TypeInv'
  <2>1. crashed' \in BOOLEAN
    BY <1>5 DEF WorkerFront, Outcomes
  <2>2. /\ mMutex' = Nobody
        /\ UNCHANGED <<mDelayCMD, mThreadQueue, start, finish, slots, cur, call, result,
                       cancelled, freed, runs, todo, flag, index, ptrd>>
    BY <1>5 DEF WorkerFront, pool, deque, tasks, main
  <2>3. CASE start \in DOMAIN slots
    <3>1. slots[start] \in Tasks
      BY <2>3, TypeInv DEF TypeInv, TypeOK
    <3>2. task' = [task EXCEPT ![w] = slots[start]] /\ pc' = [pc EXCEPT ![w] = "pop"]
      BY <1>5, <2>3 DEF WorkerFront, Goto
    <3> QED
      BY <2>1, <2>2, <3>1, <3>2, TypeInv, ThreadsAssumption
         DEF TypeInv, TypeOK, LocalInv, Threads
  <2>4. CASE start \notin DOMAIN slots
    <3>1. task' = task /\ pc' = [pc EXCEPT ![w] = "lock"]
      BY <1>5, <2>4 DEF WorkerFront, Goto
    <3> QED
      BY <2>1, <2>2, <3>1, TypeInv, ThreadsAssumption
         DEF TypeInv, TypeOK, LocalInv, Threads
  <2> QED
    BY <2>3, <2>4
<1>6. ASSUME NEW w \in Workers, WorkerPopRead(w)
      PROVE  TypeInv'
  BY <1>6, TypeInv, ThreadsAssumption
     DEF At, WorkerPopRead, Goto, TypeInv, TypeOK, LocalInv, Threads, DelayCMDs,
         deque, pool, locals, tasks, main
<1>7. ASSUME NEW w \in Workers, WorkerPopWrite(w)
      PROVE  TypeInv'
  BY <1>7, TypeInv, ThreadsAssumption
     DEF At, WorkerPopWrite, AfterPop, Goto, TypeInv, TypeOK, LocalInv, Threads,
         DelayCMDs, deque, pool, locals, tasks, main
<1>8. ASSUME NEW w \in Workers, WorkerRun(w)
      PROVE  TypeInv'
  <2>1. crashed' \in BOOLEAN
    BY <1>8 DEF WorkerRun, Outcomes
  <2>2. runs' \in [Tasks -> Nat]
    BY <1>8, TypeInv DEF At, WorkerRun, TypeInv, TypeOK, LocalInv
  <2>3. /\ pc' = [pc EXCEPT ![w] = "running"] /\ pc[w] = "run"
        /\ UNCHANGED <<mMutex, mDelayCMD, mThreadQueue, start, finish, slots, task, cur,
                       call, result, cancelled, freed, todo, flag, index, ptrd>>
    BY <1>8 DEF At, WorkerRun, Goto, pool, deque, locals, main
  <2> QED
    BY <2>1, <2>2, <2>3, TypeInv, ThreadsAssumption DEF TypeInv, TypeOK, LocalInv, Threads
<1>9. ASSUME NEW w \in Workers, WorkerDone(w)
      PROVE  TypeInv'
  <2>1. crashed' \in BOOLEAN
    BY <1>9 DEF WorkerDone, Outcomes
  <2>2. freed' \subseteq Tasks
    BY <1>9, TypeInv DEF At, WorkerDone, TypeInv, TypeOK, LocalInv
  <2>3. /\ pc' = [pc EXCEPT ![w] = "lock"] /\ task' = [task EXCEPT ![w] = Null]
        /\ UNCHANGED <<mMutex, mDelayCMD, mThreadQueue, start, finish, slots, cur,
                       call, result, cancelled, runs, todo, flag, index, ptrd>>
    BY <1>9 DEF WorkerDone, Goto, pool, deque, main
  <2> QED
    BY <2>1, <2>2, <2>3, TypeInv, ThreadsAssumption DEF TypeInv, TypeOK, LocalInv, Threads
<1>10. ASSUME NEW w \in Workers, WorkerExit(w)
      PROVE  TypeInv'
  BY <1>10, TypeInv, ThreadsAssumption
     DEF At, WorkerExit, Goto, TypeInv, TypeOK, LocalInv, Threads, DelayCMDs,
         deque, pool, locals, tasks, main
<1>11. ASSUME NEW c \in Clients, NEW t \in Tasks, ClientCall(c, t)
      PROVE  TypeInv'
  <2>1. PICK there \in {"add", "delete"} : pc' = [pc EXCEPT ![c] = there]
    BY <1>11 DEF ClientCall, Goto
  <2>2. /\ call' = [call EXCEPT ![c] = t]
        /\ UNCHANGED <<mMutex, mDelayCMD, mThreadQueue, start, finish, slots, task, cur,
                       result, cancelled, freed, runs, todo, flag, index, ptrd, crashed>>
    BY <1>11 DEF ClientCall, pool, deque, tasks, main
  <2> QED
    BY <2>1, <2>2, TypeInv, ThreadsAssumption DEF TypeInv, TypeOK, LocalInv, Threads
<1>12. ASSUME NEW c \in Clients, AddTaskReject(c)
      PROVE  TypeInv'
  <2>1. result' \in [Tasks -> {"none", "ok", "full", "shutdown"}]
    BY <1>12, TypeInv DEF AddTaskReject, TypeInv, TypeOK
  <2>2. /\ pc' = [pc EXCEPT ![c] = "idle"] /\ call' = [call EXCEPT ![c] = Null]
        /\ mMutex' = Nobody
        /\ UNCHANGED <<mDelayCMD, mThreadQueue, start, finish, slots, task, cur,
                       cancelled, freed, runs, todo, flag, index, ptrd, crashed>>
    BY <1>12 DEF AddTaskReject, Goto, pool, deque, main
  <2> QED
    BY <2>1, <2>2, TypeInv, ThreadsAssumption DEF TypeInv, TypeOK, LocalInv, Threads
<1>13. ASSUME NEW c \in Clients, AddTaskAdmit(c)
      PROVE  TypeInv'
  BY <1>13, TypeInv, ThreadsAssumption
     DEF At, AddTaskAdmit, Goto, TypeInv, TypeOK, LocalInv, Threads, DelayCMDs,
         deque, pool, locals, tasks, main
<1>14. ASSUME NEW c \in Clients, AddTaskPush(c)
      PROVE  TypeInv'
  <2>1. call[c] \in Tasks /\ start \in Int /\ finish \in Int /\ cur[c] \in Int
    BY <1>14, TypeInv DEF At, AddTaskPush, TypeInv, TypeOK, LocalInv
  <2>2. /\ start' \in Int /\ finish' \in Int
        /\ cur' \in [Workers \cup Clients -> Int]
    BY <1>14, <2>1, TypeInv DEF AddTaskPush, TypeInv, TypeOK
  <2>3. PICK i \in Int : PutSlot(i, call[c])
    BY <1>14, <2>1 DEF AddTaskPush
  <2>4. DOMAIN slots' \subseteq Int /\ \A j \in DOMAIN slots' : slots'[j] \in Tasks
    BY <2>1, <2>3, TypeInv DEF PutSlot, TypeInv, TypeOK
  <2>5. result' \in [Tasks -> {"none", "ok", "full", "shutdown"}]
    BY <1>14, TypeInv DEF AddTaskPush, TypeInv, TypeOK
  <2>6. pc' = [pc EXCEPT ![c] = "pushing"] /\ pc[c] = "push"
    BY <1>14 DEF At, AddTaskPush, Goto
  <2>7. UNCHANGED <<mMutex, mDelayCMD, mThreadQueue, task, call,
                    cancelled, freed, runs, todo, flag, index, ptrd, crashed>>
    BY <1>14 DEF AddTaskPush, pool, main
  <2> QED
    BY <2>2, <2>4, <2>5, <2>6, <2>7, TypeInv, ThreadsAssumption
       DEF TypeInv, TypeOK, LocalInv, Threads
<1>15. ASSUME NEW c \in Clients, AddTaskSignal(c)
      PROVE  TypeInv'
  <2>1. UNCHANGED <<mDelayCMD, mThreadQueue, start, finish, slots, task, cur,
                    result, cancelled, freed, runs, todo, flag, index, ptrd, crashed>>
    BY <1>15 DEF AddTaskSignal, pool, deque, tasks, main
  <2>2. mMutex' = Nobody /\ call' = [call EXCEPT ![c] = Null]
    BY <1>15 DEF AddTaskSignal
  <2>3. PICK woken \in SUBSET Workers :
          pc' = [u \in Threads |-> IF u = c THEN "idle"
                                   ELSE IF u \in woken THEN "lock" ELSE pc[u]]
    BY <1>15 DEF AddTaskSignal, Signalled, Waiting, GotoAndWake, Reacquire
  <2> QED
    BY <2>1, <2>2, <2>3, TypeInv, ThreadsAssumption DEF TypeInv, TypeOK, LocalInv, Threads
<1>16. ASSUME NEW c \in Clients, DeleteTask(c)
      PROVE  TypeInv'
  <2>1. crashed' \in BOOLEAN
    BY <1>16 DEF DeleteTask, Outcomes
  <2>2. cancelled' \subseteq Tasks
    BY <1>16, TypeInv DEF At, DeleteTask, TypeInv, TypeOK, LocalInv
  <2>3. /\ pc' = [pc EXCEPT ![c] = "idle"] /\ call' = [call EXCEPT ![c] = Null]
        /\ mMutex' = Nobody
        /\ UNCHANGED <<mDelayCMD, mThreadQueue, start, finish, slots, task, cur,
                       result, freed, runs, todo, flag, index, ptrd>>
    BY <1>16 DEF DeleteTask, Goto, pool, deque, main
  <2> QED
    BY <2>1, <2>2, <2>3, TypeInv, ThreadsAssumption DEF TypeInv, TypeOK, LocalInv, Threads
<1>17. ASSUME MainCall
      PROVE  TypeInv'
  <2>1. flag' \in {NO_WAIT, GRACEFULL} /\ index' \in Nat
    BY <1>17, TypeInv DEF MainCall, CommandOf, TypeInv, TypeOK
  <2>2. PICK there \in {"create", "flush"} : pc' = [pc EXCEPT ![Main] = there]
    BY <1>17 DEF MainCall, Goto
  <2>3. UNCHANGED <<mMutex, mDelayCMD, mThreadQueue, start, finish, slots, task, cur,
                    call, result, cancelled, freed, runs, todo, ptrd, crashed>>
    BY <1>17 DEF MainCall, pool, deque, locals, tasks
  <2>4. todo # <<>>
    BY <1>17 DEF MainCall
  <2> QED
    BY <2>1, <2>2, <2>3, <2>4, TypeInv, ThreadsAssumption DEF TypeInv, TypeOK, LocalInv, Threads
<1>18. ASSUME NEW w \in Workers, StartCreate(w)
      PROVE  TypeInv'
  BY <1>18, TypeInv, ThreadsAssumption
     DEF At, StartCreate, Recorded, TypeInv, TypeOK, LocalInv, Threads,
         DelayCMDs, deque, pool, locals, tasks, main
<1>19. ASSUME StartRecord
      PROVE  TypeInv'
  BY <1>19, TypeInv, ThreadsAssumption
     DEF At, StartRecord, Goto, TypeInv, TypeOK, LocalInv, Threads, DelayCMDs,
         deque, pool, locals, tasks, main
<1>20. ASSUME StartLeave
      PROVE  TypeInv'
  <2>1. /\ todo # <<>>
        /\ UNCHANGED <<mMutex, mDelayCMD, mThreadQueue, start, finish, slots, task, cur, call,
                       result, cancelled, freed, runs, index, ptrd, crashed>>
    BY <1>20, TypeInv DEF At, StartLeave, TypeInv, LocalInv, pool, deque, locals, tasks
  <2>2. CASE flag' = NO_WAIT /\ todo' = todo /\ pc' = [pc EXCEPT ![Main] = "flush"]
    BY <2>1, <2>2, TypeInv, ThreadsAssumption DEF TypeInv, TypeOK, LocalInv, Threads
  <2>3. CASE flag' = flag /\ todo' = Tail(todo) /\ pc' = [pc EXCEPT ![Main] = "idle"]
    <3>1. Tail(todo) \in Seq(Calls)
      BY <2>1, TypeInv DEF TypeInv, TypeOK
    <3> QED
      BY <2>1, <2>3, <3>1, TypeInv, ThreadsAssumption DEF TypeInv, TypeOK, LocalInv, Threads
  <2> QED
    BY <1>20, <2>2, <2>3 DEF StartLeave, MainReturn, Goto
<1>21. ASSUME FlushNoThreads
      PROVE  TypeInv'
  BY <1>21, TypeInv, ThreadsAssumption
     DEF At, FlushNoThreads, MainReturn, Goto, TypeInv, TypeOK, LocalInv,
         Threads, DelayCMDs, deque, pool, locals, tasks, main
<1>22. ASSUME FlushCommand
      PROVE  TypeInv'
  BY <1>22, TypeInv, ThreadsAssumption
     DEF At, FlushCommand, Broadcast, Waiting, GotoAndWake, Reacquire,
         FirstThread, TypeInv, TypeOK, LocalInv, Threads, DelayCMDs, deque,
         pool, locals, tasks, main
<1>23. ASSUME FlushJoin
      PROVE  TypeInv'
  BY <1>23, TypeInv, ThreadsAssumption
     DEF At, FlushJoin, TypeInv, TypeOK, LocalInv, Threads, DelayCMDs, deque,
         pool, locals, tasks, main
<1>24. ASSUME FlushReturn
      PROVE  TypeInv'
  BY <1>24, TypeInv, ThreadsAssumption
     DEF At, FlushReturn, MainReturn, Goto, TypeInv, TypeOK, LocalInv, Threads,
         DelayCMDs, deque, pool, locals, tasks, main
<1>25. ASSUME Ended
      PROVE  TypeInv'
  BY <1>25, TypeInv, ThreadsAssumption
     DEF Ended, vars, TypeInv, TypeOK, LocalInv, Threads, DelayCMDs, deque,
         pool, locals, tasks, main
<1> QED
  BY <1>1, <1>2, <1>3, <1>4, <1>5, <1>6, <1>7, <1>8, <1>9, <1>10, <1>11, <1>12,
     <1>13, <1>14, <1>15, <1>16, <1>17, <1>18, <1>19, <1>20, <1>21, <1>22,
     <1>23, <1>24, <1>25 DEF Next, Worker, Client, Owner

-----------------------------------------------------------------------------
\* A thread inside a critical section owns the mutex.
OwnerInv == \A t \in Threads : pc[t] \in Critical => mMutex = t

LEMMA OwnerStep ==
  ASSUME TypeInv, OwnerInv, Next
  PROVE  OwnerInv'
<1>1. ASSUME NEW t \in Threads, Lock(t)
      PROVE  OwnerInv'
  BY <1>1, TypeInv, OwnerInv, ThreadsAssumption
     DEF At, Lock, Locking, Goto, TypeInv, TypeOK, OwnerInv, Threads, Critical
<1>2. ASSUME NEW w \in Workers, WorkerInit(w)
      PROVE  OwnerInv'
  BY <1>2, TypeInv, OwnerInv, ThreadsAssumption
     DEF At, WorkerInit, Goto, TypeInv, TypeOK, OwnerInv, Threads, Critical
<1>3. ASSUME NEW w \in Workers, WorkerCheck(w)
      PROVE  OwnerInv'
  BY <1>3, TypeInv, OwnerInv, ThreadsAssumption
     DEF At, WorkerCheck, Goto, TypeInv, TypeOK, OwnerInv, Threads, Critical
<1>4. ASSUME NEW w \in Workers, SpuriousWakeup(w)
      PROVE  OwnerInv'
  BY <1>4, TypeInv, OwnerInv, ThreadsAssumption
     DEF At, SpuriousWakeup, Reacquire, Goto, TypeInv, TypeOK, OwnerInv,
         Threads, Critical
<1>5. ASSUME NEW w \in Workers, WorkerFront(w)
      PROVE  OwnerInv'
  <2>1. PICK there \in {"pop", "lock"} : pc' = [pc EXCEPT ![w] = there]
    BY <1>5 DEF WorkerFront, Goto
  <2>2. pc[w] = "front" /\ mMutex' = Nobody
    BY <1>5 DEF At, WorkerFront
  <2> QED
    BY <2>1, <2>2, TypeInv, OwnerInv, ThreadsAssumption
       DEF TypeInv, TypeOK, OwnerInv, Threads, Critical
<1>6. ASSUME NEW w \in Workers, WorkerPopRead(w)
      PROVE  OwnerInv'
  BY <1>6, TypeInv, OwnerInv, ThreadsAssumption
     DEF At, WorkerPopRead, Goto, TypeInv, TypeOK, OwnerInv, Threads, Critical
<1>7. ASSUME NEW w \in Workers, WorkerPopWrite(w)
      PROVE  OwnerInv'
  BY <1>7, TypeInv, OwnerInv, ThreadsAssumption
     DEF At, WorkerPopWrite, AfterPop, Goto, TypeInv, TypeOK, OwnerInv, Threads,
         Critical
<1>8. ASSUME NEW w \in Workers, WorkerRun(w)
      PROVE  OwnerInv'
  BY <1>8, TypeInv, OwnerInv, ThreadsAssumption
     DEF At, WorkerRun, Outcomes, Goto, TypeInv, TypeOK, OwnerInv, Threads,
         Critical
<1>9. ASSUME NEW w \in Workers, WorkerDone(w)
      PROVE  OwnerInv'
  BY <1>9, TypeInv, OwnerInv, ThreadsAssumption
     DEF At, WorkerDone, Outcomes, Goto, TypeInv, TypeOK, OwnerInv, Threads,
         Critical
<1>10. ASSUME NEW w \in Workers, WorkerExit(w)
      PROVE  OwnerInv'
  BY <1>10, TypeInv, OwnerInv, ThreadsAssumption
     DEF At, WorkerExit, Goto, TypeInv, TypeOK, OwnerInv, Threads, Critical
<1>11. ASSUME NEW c \in Clients, NEW t \in Tasks, ClientCall(c, t)
      PROVE  OwnerInv'
  BY <1>11, TypeInv, OwnerInv, ThreadsAssumption
     DEF At, ClientCall, Goto, TypeInv, TypeOK, OwnerInv, Threads, Critical
<1>12. ASSUME NEW c \in Clients, AddTaskReject(c)
      PROVE  OwnerInv'
  BY <1>12, TypeInv, OwnerInv, ThreadsAssumption
     DEF At, AddTaskReject, Goto, TypeInv, TypeOK, OwnerInv, Threads, Critical
<1>13. ASSUME NEW c \in Clients, AddTaskAdmit(c)
      PROVE  OwnerInv'
  BY <1>13, TypeInv, OwnerInv, ThreadsAssumption
     DEF At, AddTaskAdmit, Goto, TypeInv, TypeOK, OwnerInv, Threads, Critical
<1>14. ASSUME NEW c \in Clients, AddTaskPush(c)
      PROVE  OwnerInv'
  BY <1>14, TypeInv, OwnerInv, ThreadsAssumption
     DEF At, AddTaskPush, PutSlot, Goto, TypeInv, TypeOK, OwnerInv, Threads,
         Critical
<1>15. ASSUME NEW c \in Clients, AddTaskSignal(c)
      PROVE  OwnerInv'
  <2>1. pc[c] = "pushing" /\ mMutex' = Nobody
    BY <1>15 DEF At, AddTaskSignal
  <2>2. \A t \in Threads : t # c => mMutex # t
    BY <2>1, OwnerInv DEF OwnerInv, Threads, Critical
  <2>3. \A t \in Threads : t # c => pc'[t] = pc[t] \/ pc'[t] = "lock"
    BY <1>15 DEF AddTaskSignal, GotoAndWake, Reacquire
  <2>4. pc'[c] = "idle"
    BY <1>15 DEF AddTaskSignal, GotoAndWake, Threads
  <2> QED
    BY <2>2, <2>3, <2>4, OwnerInv DEF OwnerInv, Critical
<1>16. ASSUME NEW c \in Clients, DeleteTask(c)
      PROVE  OwnerInv'
  BY <1>16, TypeInv, OwnerInv, ThreadsAssumption
     DEF At, DeleteTask, Outcomes, Goto, TypeInv, TypeOK, OwnerInv, Threads,
         Critical
<1>17. ASSUME MainCall
      PROVE  OwnerInv'
  BY <1>17, TypeInv, OwnerInv, ThreadsAssumption
     DEF At, MainCall, CommandOf, Goto, TypeInv, TypeOK, OwnerInv, Threads,
         Critical
<1>18. ASSUME NEW w \in Workers, StartCreate(w)
      PROVE  OwnerInv'
  BY <1>18, TypeInv, OwnerInv, ThreadsAssumption
     DEF At, StartCreate, Recorded, TypeInv, TypeOK, OwnerInv, Threads, Critical
<1>19. ASSUME StartRecord
      PROVE  OwnerInv'
  BY <1>19, TypeInv, OwnerInv, ThreadsAssumption
     DEF At, StartRecord, Goto, TypeInv, TypeOK, OwnerInv, Threads, Critical
<1>20. ASSUME StartLeave
      PROVE  OwnerInv'
  BY <1>20, TypeInv, OwnerInv, ThreadsAssumption
     DEF At, StartLeave, MainReturn, Goto, TypeInv, TypeOK, OwnerInv, Threads,
         Critical
<1>21. ASSUME FlushNoThreads
      PROVE  OwnerInv'
  BY <1>21, TypeInv, OwnerInv, ThreadsAssumption
     DEF At, FlushNoThreads, MainReturn, Goto, TypeInv, TypeOK, OwnerInv,
         Threads, Critical
<1>22. ASSUME FlushCommand
      PROVE  OwnerInv'
  BY <1>22, TypeInv, OwnerInv, ThreadsAssumption
     DEF At, FlushCommand, Broadcast, Waiting, GotoAndWake, Reacquire,
         FirstThread, TypeInv, TypeOK, OwnerInv, Threads, Critical
<1>23. ASSUME FlushJoin
      PROVE  OwnerInv'
  BY <1>23, TypeInv, OwnerInv, ThreadsAssumption
     DEF At, FlushJoin, TypeInv, TypeOK, OwnerInv, Threads, Critical
<1>24. ASSUME FlushReturn
      PROVE  OwnerInv'
  BY <1>24, TypeInv, OwnerInv, ThreadsAssumption
     DEF At, FlushReturn, MainReturn, Goto, TypeInv, TypeOK, OwnerInv, Threads,
         Critical
<1>25. ASSUME Ended
      PROVE  OwnerInv'
  BY <1>25, OwnerInv DEF Ended, vars, OwnerInv
<1> QED
  BY <1>1, <1>2, <1>3, <1>4, <1>5, <1>6, <1>7, <1>8, <1>9, <1>10, <1>11, <1>12,
     <1>13, <1>14, <1>15, <1>16, <1>17, <1>18, <1>19, <1>20, <1>21, <1>22,
     <1>23, <1>24, <1>25 DEF Next, Worker, Client, Owner

-----------------------------------------------------------------------------
\* Every living worker has been recorded, or is about to be; and the workers
\* that flush has passed in its loop have exited.
JoinInv ==
  /\ \A w \in Alive : w \in Recorded \/ (pc[Main] = "record" /\ w = ptrd)
  /\ pc[Main] = "join" =>
       \A i \in DOMAIN mThreadQueue : i <= index => pc[mThreadQueue[i]] = "exited"

\* A step that changes nothing of this but the place of a worker or a client,
\* and neither creates nor revives a worker.
Quiet ==
  /\ UNCHANGED <<mThreadQueue, index, ptrd>>
  /\ pc'[Main] = pc[Main]
  /\ \A w \in Workers : pc'[w] = pc[w] \/ (pc[w] \notin {"none", "exited"} /\ pc'[w] # "none")

LEMMA QuietJoin ==
  ASSUME TypeInv, JoinInv, Quiet
  PROVE  JoinInv'
<1>1. \A i \in DOMAIN mThreadQueue : mThreadQueue[i] \in Workers
  BY DEF TypeInv, TypeOK
<1>2. mThreadQueue' = mThreadQueue /\ index' = index /\ ptrd' = ptrd
  BY DEF Quiet
<1>3. \A w \in Workers : /\ pc'[w] \notin {"none", "exited"} => pc[w] \notin {"none", "exited"}
                         /\ pc[w] = "exited" => pc'[w] = "exited"
  BY DEF Quiet
<1> QED
  BY <1>1, <1>2, <1>3 DEF JoinInv, Quiet, Alive, Recorded

\* Every step of a worker or of a client is quiet.
LEMMA ThreadsQuiet ==
  ASSUME TypeInv,
         \/ \E t \in Threads \ {Main} : Lock(t)
         \/ \E w \in Workers : Worker(w) \/ SpuriousWakeup(w)
         \/ \E c \in Clients : Client(c) \/ \E t \in Tasks : ClientCall(c, t)
         \/ Ended
  PROVE  Quiet
<1>1. ASSUME NEW t \in Threads \ {Main}, Lock(t)
      PROVE  Quiet
  BY <1>1, TypeInv, ThreadsAssumption
     DEF At, Lock, Locking, Goto, Quiet, TypeInv, TypeOK, Threads, pool, main
<1>2. ASSUME NEW w \in Workers, WorkerInit(w)
      PROVE  Quiet
  BY <1>2, TypeInv, ThreadsAssumption
     DEF At, WorkerInit, Goto, Quiet, TypeInv, TypeOK, Threads, pool, main
<1>3. ASSUME NEW w \in Workers, WorkerCheck(w)
      PROVE  Quiet
  BY <1>3, TypeInv, ThreadsAssumption
     DEF At, WorkerCheck, Goto, Quiet, TypeInv, TypeOK, Threads, pool, main
<1>4. ASSUME NEW w \in Workers, SpuriousWakeup(w)
      PROVE  Quiet
  BY <1>4, TypeInv, ThreadsAssumption
     DEF At, SpuriousWakeup, Reacquire, Goto, Quiet, TypeInv, TypeOK, Threads,
         pool, main
<1>5. ASSUME NEW w \in Workers, WorkerFront(w)
      PROVE  Quiet
  BY <1>5, TypeInv, ThreadsAssumption
     DEF At, WorkerFront, Outcomes, Goto, Quiet, TypeInv, TypeOK, Threads, pool,
         main
<1>6. ASSUME NEW w \in Workers, WorkerPopRead(w)
      PROVE  Quiet
  BY <1>6, TypeInv, ThreadsAssumption
     DEF At, WorkerPopRead, Goto, Quiet, TypeInv, TypeOK, Threads, pool, main
<1>7. ASSUME NEW w \in Workers, WorkerPopWrite(w)
      PROVE  Quiet
  BY <1>7, TypeInv, ThreadsAssumption
     DEF At, WorkerPopWrite, AfterPop, Goto, Quiet, TypeInv, TypeOK, Threads,
         pool, main
<1>8. ASSUME NEW w \in Workers, WorkerRun(w)
      PROVE  Quiet
  BY <1>8, TypeInv, ThreadsAssumption
     DEF At, WorkerRun, Outcomes, Goto, Quiet, TypeInv, TypeOK, Threads, pool,
         main
<1>9. ASSUME NEW w \in Workers, WorkerDone(w)
      PROVE  Quiet
  BY <1>9, TypeInv, ThreadsAssumption
     DEF At, WorkerDone, Outcomes, Goto, Quiet, TypeInv, TypeOK, Threads, pool,
         main
<1>10. ASSUME NEW w \in Workers, WorkerExit(w)
      PROVE  Quiet
  BY <1>10, TypeInv, ThreadsAssumption
     DEF At, WorkerExit, Goto, Quiet, TypeInv, TypeOK, Threads, pool, main
<1>11. ASSUME NEW c \in Clients, NEW t \in Tasks, ClientCall(c, t)
      PROVE  Quiet
  BY <1>11, TypeInv, ThreadsAssumption
     DEF At, ClientCall, Goto, Quiet, TypeInv, TypeOK, Threads, pool, main
<1>12. ASSUME NEW c \in Clients, AddTaskReject(c)
      PROVE  Quiet
  BY <1>12, TypeInv, ThreadsAssumption
     DEF At, AddTaskReject, Goto, Quiet, TypeInv, TypeOK, Threads, pool, main
<1>13. ASSUME NEW c \in Clients, AddTaskAdmit(c)
      PROVE  Quiet
  BY <1>13, TypeInv, ThreadsAssumption
     DEF At, AddTaskAdmit, Goto, Quiet, TypeInv, TypeOK, Threads, pool, main
<1>14. ASSUME NEW c \in Clients, AddTaskPush(c)
      PROVE  Quiet
  BY <1>14, TypeInv, ThreadsAssumption
     DEF At, AddTaskPush, PutSlot, Goto, Quiet, TypeInv, TypeOK, Threads, pool,
         main
<1>15. ASSUME NEW c \in Clients, AddTaskSignal(c)
      PROVE  Quiet
  BY <1>15, TypeInv, ThreadsAssumption
     DEF At, AddTaskSignal, Signalled, Waiting, GotoAndWake, Reacquire, Quiet,
         TypeInv, TypeOK, Threads, pool, main
<1>16. ASSUME NEW c \in Clients, DeleteTask(c)
      PROVE  Quiet
  BY <1>16, TypeInv, ThreadsAssumption
     DEF At, DeleteTask, Outcomes, Goto, Quiet, TypeInv, TypeOK, Threads, pool,
         main
<1>17. ASSUME Ended
      PROVE  Quiet
  BY <1>17 DEF Ended, vars, main, pool, Quiet
<1> QED
  BY <1>1, <1>2, <1>3, <1>4, <1>5, <1>6, <1>7, <1>8, <1>9, <1>10, <1>11, <1>12,
     <1>13, <1>14, <1>15, <1>16, <1>17 DEF Worker, Client

LEMMA JoinStep ==
  ASSUME TypeInv, JoinInv, Next
  PROVE  JoinInv'
<1>1. ASSUME Quiet
      PROVE  JoinInv'
  BY <1>1, QuietJoin
<1>2. ASSUME Lock(Main)
      PROVE  JoinInv'
  BY <1>2, TypeInv, JoinInv, ThreadsAssumption
     DEF Lock, Locking, Goto, TypeInv, TypeOK, JoinInv, Threads, Alive, Recorded, pool, main
<1>3. ASSUME MainCall
      PROVE  JoinInv'
  <2>1. PICK there \in {"create", "flush"} : pc' = [pc EXCEPT ![Main] = there]
    BY <1>3 DEF MainCall, Goto
  <2>2. pc[Main] = "idle" /\ mThreadQueue' = mThreadQueue
    BY <1>3 DEF At, MainCall, pool
  <2>3. \A w \in Workers : pc'[w] = pc[w]
    BY <2>1, ThreadsAssumption, TypeInv DEF TypeInv, TypeOK, Threads
  <2>4. pc'[Main] = there
    BY <2>1, TypeInv DEF TypeInv, TypeOK, Threads
  <2> QED
    BY <2>2, <2>3, <2>4, JoinInv DEF JoinInv, Alive, Recorded
<1>4. ASSUME NEW w \in Workers, StartCreate(w)
      PROVE  JoinInv'
  <2>1. /\ pc' = [pc EXCEPT ![Main] = "record", ![w] = "init"] /\ ptrd' = w
        /\ pc[Main] = "create" /\ mThreadQueue' = mThreadQueue
    BY <1>4 DEF At, StartCreate, pool
  <2>2. pc'[Main] = "record" /\ \A u \in Workers : u # w => pc'[u] = pc[u]
    BY <2>1, ThreadsAssumption, TypeInv DEF TypeInv, TypeOK, Threads
  <2>3. Recorded' = Recorded
    BY <2>1 DEF Recorded
  <2>4. Alive' \subseteq Alive \cup {w}
    BY <2>2 DEF Alive
  <2>5. Alive \subseteq Recorded
    BY <2>1, JoinInv DEF JoinInv
  <2> QED
    BY <2>1, <2>2, <2>3, <2>4, <2>5 DEF JoinInv
<1>5. ASSUME StartRecord
      PROVE  JoinInv'
  <2>1. /\ mThreadQueue' = Append(mThreadQueue, ptrd)
        /\ pc' = [pc EXCEPT ![Main] = "create"]
        /\ pc[Main] = "record" /\ ptrd \in Workers
    BY <1>5, TypeInv DEF At, StartRecord, Goto, TypeInv, LocalInv
  <2>2. Recorded \cup {ptrd} \subseteq Recorded'
    <3>1. mThreadQueue \in Seq(Workers) /\ mThreadQueue' \in Seq(Workers)
      BY <2>1, TypeInv DEF TypeInv, TypeOK
    <3>2. /\ DOMAIN mThreadQueue = 1..Len(mThreadQueue)
          /\ DOMAIN mThreadQueue' = 1..Len(mThreadQueue')
          /\ Len(mThreadQueue) \in Nat
      BY <3>1
    <3>3. /\ Len(mThreadQueue') = Len(mThreadQueue) + 1
          /\ \A i \in 1..Len(mThreadQueue) : mThreadQueue'[i] = mThreadQueue[i]
          /\ mThreadQueue'[Len(mThreadQueue) + 1] = ptrd
      BY <2>1, <3>1
    <3>4. \A i \in DOMAIN mThreadQueue : i \in DOMAIN mThreadQueue' /\ mThreadQueue'[i] = mThreadQueue[i]
      BY <3>2, <3>3
    <3>5. Len(mThreadQueue) + 1 \in DOMAIN mThreadQueue'
      BY <3>2, <3>3
    <3> QED
      BY <3>3, <3>4, <3>5 DEF Recorded
  <2>3. pc'[Main] = "create" /\ \A w \in Workers : pc'[w] = pc[w]
    BY <2>1, ThreadsAssumption, TypeInv DEF TypeInv, TypeOK, Threads
  <2> QED
    BY <2>2, <2>3, JoinInv DEF JoinInv, Alive
<1>6. ASSUME StartLeave
      PROVE  JoinInv'
  <2>1. PICK there \in {"flush", "idle"} : pc' = [pc EXCEPT ![Main] = there]
    BY <1>6 DEF StartLeave, MainReturn, Goto
  <2>2. pc[Main] = "create" /\ mThreadQueue' = mThreadQueue
    BY <1>6 DEF At, StartLeave, pool
  <2>3. pc'[Main] = there /\ \A w \in Workers : pc'[w] = pc[w]
    BY <2>1, ThreadsAssumption, TypeInv DEF TypeInv, TypeOK, Threads
  <2> QED
    BY <2>2, <2>3, JoinInv DEF JoinInv, Alive, Recorded
<1>7. ASSUME FlushNoThreads
      PROVE  JoinInv'
  BY <1>7, TypeInv, JoinInv, ThreadsAssumption
     DEF At, FlushNoThreads, MainReturn, Goto, TypeInv, TypeOK, LocalInv,
         JoinInv, Threads, Alive, Recorded, deque, pool, locals, tasks, main
<1>8. ASSUME FlushCommand
      PROVE  JoinInv'
  BY <1>8, TypeInv, JoinInv, ThreadsAssumption
     DEF At, FlushCommand, Broadcast, Waiting, GotoAndWake, Reacquire,
         FirstThread, TypeInv, TypeOK, LocalInv, JoinInv, Threads, Alive,
         Recorded, deque, pool, locals, tasks, main
<1>9. ASSUME FlushJoin
      PROVE  JoinInv'
  BY <1>9, TypeInv, JoinInv, ThreadsAssumption
     DEF At, FlushJoin, TypeInv, TypeOK, LocalInv, JoinInv, Threads, Alive,
         Recorded, deque, pool, locals, tasks, main
<1>10. ASSUME FlushReturn
      PROVE  JoinInv'
  BY <1>10, TypeInv, JoinInv, ThreadsAssumption
     DEF At, FlushReturn, MainReturn, Goto, TypeInv, TypeOK, LocalInv, JoinInv,
         Threads, Alive, Recorded, deque, pool, locals, tasks, main
<1> QED
  BY <1>1, <1>2, <1>3, <1>4, <1>5, <1>6, <1>7, <1>8, <1>9, <1>10, ThreadsQuiet
     DEF Next, Owner

-----------------------------------------------------------------------------
\* The inductive invariant.
IInv == TypeInv /\ OwnerInv /\ JoinInv

LEMMA IInvInit == Init => IInv
<1> SUFFICES ASSUME Init PROVE IInv
  OBVIOUS
<1>1. TypeInv
  BY TypeInit
<1>2. \A t \in Threads : pc[t] = IF t \in Workers THEN "none" ELSE "idle"
  BY DEF Init
<1>3. OwnerInv
  BY <1>2 DEF OwnerInv, Critical
<1>4. \A w \in Workers : pc[w] = "none"
  BY <1>2 DEF Threads
<1>5. pc[Main] = "idle"
  BY <1>2, ThreadsAssumption DEF Threads
<1>6. JoinInv
  BY <1>4, <1>5 DEF JoinInv, Alive
<1> QED
  BY <1>1, <1>3, <1>6 DEF IInv

LEMMA IInvStep == IInv /\ [Next]_vars => IInv'
<1>1. ASSUME IInv, Next
      PROVE  IInv'
  BY <1>1, TypeStep, OwnerStep, JoinStep DEF IInv
<1>2. ASSUME IInv, UNCHANGED vars
      PROVE  IInv'
  BY <1>2 DEF IInv, TypeInv, TypeOK, LocalInv, OwnerInv, JoinInv, Alive, Recorded,
              vars, deque, pool, locals, tasks, main
<1> QED
  BY <1>1, <1>2

LEMMA IInvHolds == Spec => []IInv
  BY IInvInit, IInvStep, PTL DEF Spec

\* The state of the runner (MTTaskRunner.h:52-60, and where each thread is)
\* keeps its type.
THEOREM TypeCorrect == Spec => []TypeOK
<1>1. IInv => TypeOK
  BY DEF IInv, TypeInv
<1> QED
  BY <1>1, IInvHolds, PTL

\* Two threads are never inside the code the mutex protects, for any number of
\* workers and clients (MTTaskRunner.cpp:82-117, 149-183, 189-200, 208-225).
THEOREM MutexExcludes == Spec => []MutualExclusion
<1>1. IInv => MutualExclusion
  BY DEF IInv, OwnerInv, MutualExclusion
<1> QED
  BY <1>1, IInvHolds, PTL

\* When flush has emptied the vector of threads every worker has exited, for
\* any plan of the owner and any failure of pthread_create
\* (MTTaskRunner.cpp:230-239).
THEOREM FlushLeavesNoWorker == Spec => []NoWorkerLeft
<1>1. IInv => NoWorkerLeft
  BY DEF IInv, JoinInv, NoWorkerLeft, Recorded
<1> QED
  BY <1>1, IInvHolds, PTL

-----------------------------------------------------------------------------
(* One worker, and tasks of one priority (OneWorker).                       *)

\* The worker has a task: it has taken one that it has not deleted yet.
Holds == pc[Worker1] \in {"pop", "popping", "run", "running"}
Begun(t) == t \in freed \/ (pc[Worker1] = "running" /\ t = task[Worker1])

\* The slots are the accepted tasks, oldest first, each once.  The worker has
\* taken the first ones in turn; it holds the last of these or has none, has
\* deleted the others, and has begun no other.  What it has read of the deque
\* outside the mutex is still so.
FifoInv ==
  /\ start \in Nat /\ finish \in Nat /\ first <= finish
  /\ DOMAIN slots = 0..(finish - 1)
  /\ \A i, j \in DOMAIN slots : slots[i] = slots[j] => i = j
  /\ \A t \in Tasks : result[t] = "ok" <=> \E i \in DOMAIN slots : slots[i] = t
  /\ pc[Worker1] = "front" => start < finish
  /\ pc[Worker1] = "popping" => cur[Worker1] = start
  /\ IF Holds THEN first > 0 /\ task[Worker1] = slots[first - 1] ELSE task[Worker1] = Null
  /\ \A t \in Tasks :
       t \in freed <=> t # task[Worker1] /\ \E i \in 0..(first - 1) : slots[i] = t
  /\ \A t \in Tasks : runs[t] = IF Begun(t) THEN 1 ELSE 0

\* Of the tasks being added each is new, and is one client's; the queue has not
\* grown since the client saw that it is not full.
AddingInv ==
  \A c \in Clients :
    /\ pc[c] \in {"add", "admit", "push"} =>
         result[call[c]] = "none" /\ \A d \in Clients \ {c} : call[d] # call[c]
    /\ pc[c] = "push" => finish - start <= mMaxTaskSize

OneInv == IInv /\ FifoInv /\ AddingInv

\* A step that neither touches the deque nor what the worker does with it.
Working == {"front", "pop", "popping", "run", "running"}
Still ==
  /\ UNCHANGED <<start, finish, slots, task, freed, runs>>
  /\ cur'[Worker1] = cur[Worker1]
  /\ \A t \in Tasks : result'[t] = "ok" <=> result[t] = "ok"
  /\ \/ pc'[Worker1] = pc[Worker1]
     \/ pc[Worker1] \notin Working /\ pc'[Worker1] \notin Working

LEMMA Worker1Typed ==
  ASSUME OneWorker, TypeInv
  PROVE  /\ Worker1 \in Threads /\ Worker1 \in Workers /\ \A w \in Workers : w = Worker1
         /\ Worker1 # Main /\ \A c \in Clients : c \in Threads /\ c # Worker1 /\ c # Main
         /\ DOMAIN pc = Threads /\ DOMAIN cur = Workers \cup Clients
         /\ DOMAIN task = Workers /\ DOMAIN call = Clients /\ DOMAIN result = Tasks
         /\ DOMAIN runs = Tasks
BY ThreadsAssumption DEF OneWorker, Threads, TypeInv, TypeOK

LEMMA StillFifo ==
  ASSUME FifoInv, Still
  PROVE  FifoInv'
<1>1. /\ Holds' <=> Holds
      /\ Taken' <=> Taken
      /\ pc'[Worker1] \in {"front", "popping", "running"} => pc'[Worker1] = pc[Worker1]
      /\ pc[Worker1] = "running" => pc'[Worker1] = "running"
  BY DEF Still, Working, Holds, Taken
<1>2. first' = first
  BY <1>1 DEF first, Still
<1>3. \A t \in Tasks : Begun(t)' <=> Begun(t)
  BY <1>1 DEF Begun, Still
<1> QED
  BY <1>1, <1>2, <1>3 DEF FifoInv, Still

LEMMA OwnerStill ==
  ASSUME OneWorker, TypeInv, MainCall \/ Owner
  PROVE  Still
<1>1. UNCHANGED <<start, finish, slots, task, cur, result, freed, runs>>
  BY DEF MainCall, Owner, StartRecord, StartLeave, StartCreate, FlushNoThreads, FlushCommand,
         FlushJoin, FlushReturn, deque, locals, tasks
<1>2. CASE \E w \in Workers : StartCreate(w)
  BY <1>1, <1>2, Worker1Typed DEF StartCreate, Still, Working
<1>3. CASE FlushCommand
  BY <1>1, <1>3, Worker1Typed
     DEF FlushCommand, GotoAndWake, Broadcast, Waiting, Reacquire, Still, Working
<1>4. CASE MainCall \/ StartRecord \/ StartLeave \/ FlushNoThreads \/ FlushJoin \/ FlushReturn
  BY <1>1, <1>4, Worker1Typed
     DEF MainCall, StartRecord, StartLeave, FlushNoThreads, FlushJoin, FlushReturn, MainReturn,
         Goto, Still, main
<1> QED
  BY <1>2, <1>3, <1>4 DEF Owner

LEMMA ClientStill ==
  ASSUME OneWorker, TypeInv, AddingInv, NEW c \in Clients,
         \/ AddTaskReject(c) \/ AddTaskAdmit(c) \/ AddTaskSignal(c) \/ DeleteTask(c)
         \/ \E t \in Tasks : ClientCall(c, t)
  PROVE  Still
<1>1. UNCHANGED <<start, finish, slots, task, freed, runs>>
  BY DEF AddTaskReject, AddTaskAdmit, AddTaskSignal, DeleteTask, ClientCall, deque, tasks
<1>2. cur'[Worker1] = cur[Worker1]
  BY Worker1Typed
     DEF AddTaskReject, AddTaskAdmit, AddTaskSignal, DeleteTask, ClientCall
<1>3. \A t \in Tasks : result'[t] = "ok" <=> result[t] = "ok"
  <2>1. CASE AddTaskReject(c)
    <3>1. PICK r \in {"full", "shutdown"} : result' = [result EXCEPT ![call[c]] = r]
      BY <2>1 DEF AddTaskReject
    <3>2. result[call[c]] = "none"
      BY <2>1 DEF AddTaskReject, At, AddingInv
    <3> QED
      BY <3>1, <3>2, Worker1Typed
  <2> QED
    BY <2>1 DEF AddTaskAdmit, AddTaskSignal, DeleteTask, ClientCall, tasks
<1>4. \/ pc'[Worker1] = pc[Worker1]
      \/ pc[Worker1] \notin Working /\ pc'[Worker1] \notin Working
  <2>1. CASE AddTaskSignal(c)
    BY <2>1, Worker1Typed
       DEF AddTaskSignal, GotoAndWake, Signalled, Waiting, Reacquire, Working
  <2> QED
    BY <2>1, Worker1Typed DEF AddTaskReject, AddTaskAdmit, DeleteTask, ClientCall, Goto
<1> QED
  BY <1>1, <1>2, <1>3, <1>4 DEF Still

\* The worker goes to the front of the queue only when something is queued.
LEMMA WorkerStill ==
  ASSUME OneWorker, TypeInv, NEW w \in Workers,
         WorkerInit(w) \/ WorkerCheck(w) \/ SpuriousWakeup(w) \/ WorkerExit(w),
         pc'[Worker1] # "front"
  PROVE  Still
<1>1. UNCHANGED <<start, finish, slots, task, cur, result, freed, runs>>
  BY DEF WorkerInit, WorkerCheck, SpuriousWakeup, WorkerExit, deque, locals, tasks
<1>2. pc[Worker1] \notin Working
  BY Worker1Typed DEF WorkerInit, WorkerCheck, SpuriousWakeup, WorkerExit, At, Working
<1>3. pc'[Worker1] \notin Working
  BY Worker1Typed
     DEF WorkerInit, WorkerCheck, SpuriousWakeup, WorkerExit, Goto, Reacquire, Working
<1> QED
  BY <1>1, <1>2, <1>3 DEF Still

LEMMA LockStill ==
  ASSUME OneWorker, TypeInv, NEW t \in Threads, Lock(t)
  PROVE  Still
<1>1. UNCHANGED <<start, finish, slots, task, cur, result, freed, runs>>
  BY DEF Lock, deque, locals, tasks
<1>2. \/ pc'[Worker1] = pc[Worker1]
      \/ pc[Worker1] \notin Working /\ pc'[Worker1] \notin Working
  BY Worker1Typed DEF Lock, Locking, Goto, Working
<1> QED
  BY <1>1, <1>2 DEF Still

\* Every step but these few is still.
LEMMA StillOrMoves ==
  ASSUME OneWorker, TypeInv, AddingInv, [Next]_vars
  PROVE  \/ Still
         \/ WorkerCheck(Worker1) /\ pc'[Worker1] = "front"
         \/ WorkerFront(Worker1) \/ WorkerPopRead(Worker1) \/ WorkerPopWrite(Worker1)
         \/ WorkerRun(Worker1) \/ WorkerDone(Worker1)
         \/ \E c \in Clients : AddTaskPush(c)
<1>1. CASE Ended \/ UNCHANGED vars
  BY <1>1 DEF Ended, vars, deque, locals, tasks, Still
<1>2. CASE \E w \in Workers : Worker(w) \/ SpuriousWakeup(w)
  <2>1. Worker(Worker1) \/ SpuriousWakeup(Worker1)
    BY <1>2, Worker1Typed
  <2>2. pc'[Worker1] = "front" => ~(WorkerInit(Worker1) \/ SpuriousWakeup(Worker1) \/ WorkerExit(Worker1))
    BY Worker1Typed DEF WorkerInit, SpuriousWakeup, WorkerExit, Goto, Reacquire
  <2> QED
    BY <2>1, <2>2, WorkerStill, Worker1Typed DEF Worker
<1>3. CASE \E c \in Clients : Client(c) \/ \E t \in Tasks : ClientCall(c, t)
  BY <1>3, ClientStill DEF Client
<1>4. CASE MainCall \/ Owner
  BY <1>4, OwnerStill
<1>5. CASE \E t \in Threads : Lock(t)
  BY <1>5, LockStill
<1> QED
  BY <1>1, <1>2, <1>3, <1>4, <1>5 DEF Next

LEMMA Elements ==
  ASSUME TypeInv, FifoInv
  PROVE  /\ \A i \in DOMAIN slots : slots[i] \in Tasks
         /\ Null \notin Tasks
         /\ first \in Nat /\ finish \in Nat
         /\ \A i \in 0..(first - 1) : i \in DOMAIN slots
BY TasksAssumption DEF TypeInv, TypeOK, FifoInv, first

LEMMA CheckFifo ==
  ASSUME OneWorker, TypeInv, FifoInv, WorkerCheck(Worker1), pc'[Worker1] = "front"
  PROVE  FifoInv'
<1>1. UNCHANGED <<start, finish, slots, task, cur, result, freed, runs>>
  BY DEF WorkerCheck, deque, locals, tasks
<1>2. pc[Worker1] = "check" /\ start # finish
  BY Worker1Typed DEF WorkerCheck, At, Goto, Empty
<1>3. first' = first /\ first = start /\ ~Holds' /\ ~Holds
  BY <1>1, <1>2 DEF first, Taken, Holds
<1>4. \A t \in Tasks : Begun(t)' <=> Begun(t)
  BY <1>1, <1>2 DEF Begun
<1>5. start < finish
  BY <1>2, <1>3 DEF FifoInv
<1> QED
  BY <1>1, <1>3, <1>4, <1>5 DEF FifoInv

LEMMA FrontTaken ==
  ASSUME OneWorker, TypeInv, FifoInv, WorkerFront(Worker1)
  PROVE  /\ start < finish /\ start \in DOMAIN slots
         /\ task' = [task EXCEPT ![Worker1] = slots[start]] /\ task[Worker1] = Null
         /\ task'[Worker1] = slots[start]
         /\ pc[Worker1] = "front" /\ pc'[Worker1] = "pop"
         /\ first = start /\ first' = start + 1
         /\ UNCHANGED <<start, finish, slots, cur, result, freed, runs>>
<1>1. pc[Worker1] = "front" /\ UNCHANGED <<start, finish, slots, cur, result, freed, runs>>
  BY DEF WorkerFront, At, deque, tasks
<1>2. start < finish /\ start \in DOMAIN slots /\ task[Worker1] = Null
  BY <1>1 DEF FifoInv, Holds
<1>3. task' = [task EXCEPT ![Worker1] = slots[start]] /\ pc'[Worker1] = "pop"
  BY <1>2, Worker1Typed DEF WorkerFront, Goto
<1> QED
  BY <1>1, <1>2, <1>3, Worker1Typed DEF first, Taken

LEMMA FrontFifo ==
  ASSUME OneWorker, TypeInv, FifoInv, WorkerFront(Worker1)
  PROVE  FifoInv'
<1>1. /\ start < finish /\ start \in DOMAIN slots /\ task[Worker1] = Null
      /\ task'[Worker1] = slots[start]
      /\ pc[Worker1] = "front" /\ pc'[Worker1] = "pop"
      /\ first = start /\ first' = start + 1
      /\ UNCHANGED <<start, finish, slots, cur, result, freed, runs>>
  BY FrontTaken
<1>2. Holds' /\ first' > 0 /\ first' <= finish'
  BY <1>1 DEF Holds, FifoInv
<1>3. task'[Worker1] = slots'[first' - 1]
  BY <1>1 DEF FifoInv
<1>4. \A t \in Tasks :
        t \in freed' <=> t # task'[Worker1] /\ \E i \in 0..(first' - 1) : slots'[i] = t
  <2> SUFFICES ASSUME NEW t \in Tasks
               PROVE  t \in freed <=> t # slots[start] /\ \E i \in 0..start : slots[i] = t
    BY <1>1 DEF FifoInv
  <2>1. t \in freed <=> \E i \in 0..(start - 1) : slots[i] = t
    BY <1>1, TasksAssumption DEF FifoInv
  <2>2. \A i \in 0..(start - 1) : i \in 0..start /\ i \in DOMAIN slots /\ i # start
    BY <1>1 DEF FifoInv
  <2>3. \A i \in 0..(start - 1) : slots[i] # slots[start]
    BY <1>1, <2>2 DEF FifoInv
  <2>4. \A i \in 0..start : i = start \/ i \in 0..(start - 1)
    BY DEF FifoInv
  <2> QED
    BY <2>1, <2>2, <2>3, <2>4
<1>5. \A t \in Tasks : Begun(t)' <=> Begun(t)
  BY <1>1 DEF Begun
<1> QED
  BY <1>1, <1>2, <1>3, <1>4, <1>5 DEF FifoInv

\* The worker pops the element that it took from the front.
LEMMA PopSame ==
  ASSUME OneWorker, TypeInv, FifoInv, WorkerPopRead(Worker1) \/ WorkerPopWrite(Worker1)
  PROVE  /\ UNCHANGED <<finish, slots, task, result, freed, runs>>
         /\ first' = first /\ Holds /\ Holds' /\ start' \in Nat
         /\ pc'[Worker1] = "popping" => cur'[Worker1] = start'
         /\ pc'[Worker1] \in {"popping", "run"} /\ pc[Worker1] \in {"pop", "popping"}
<1>1. UNCHANGED <<finish, slots, task, result, freed, runs>>
  BY DEF WorkerPopRead, WorkerPopWrite, deque, tasks
<1>2. CASE WorkerPopRead(Worker1)
  <2>1. pc[Worker1] = "pop" /\ pc'[Worker1] = "popping" /\ start' = start
    BY <1>2, Worker1Typed DEF WorkerPopRead, At, Goto, deque
  <2>2. cur'[Worker1] = start
    BY <1>2, Worker1Typed DEF WorkerPopRead
  <2> QED
    BY <1>1, <2>1, <2>2 DEF first, Taken, Holds, FifoInv
<1>3. CASE WorkerPopWrite(Worker1)
  <2>1. pc[Worker1] = "popping" /\ pc'[Worker1] = "run" /\ start' = cur[Worker1] + 1
    BY <1>3, Worker1Typed DEF WorkerPopWrite, At, Goto, AfterPop
  <2>2. cur[Worker1] = start
    BY <2>1 DEF FifoInv
  <2> QED
    BY <1>1, <2>1, <2>2 DEF first, Taken, Holds, FifoInv
<1> QED
  BY <1>2, <1>3

LEMMA PopFifo ==
  ASSUME OneWorker, TypeInv, FifoInv, WorkerPopRead(Worker1) \/ WorkerPopWrite(Worker1)
  PROVE  FifoInv'
<1>1. /\ UNCHANGED <<finish, slots, task, result, freed, runs>>
      /\ first' = first /\ Holds /\ Holds' /\ start' \in Nat
      /\ pc'[Worker1] = "popping" => cur'[Worker1] = start'
      /\ pc'[Worker1] \in {"popping", "run"} /\ pc[Worker1] \in {"pop", "popping"}
  BY PopSame
<1>2. \A t \in Tasks : Begun(t)' <=> Begun(t)
  BY <1>1 DEF Begun
<1> QED
  BY <1>1, <1>2 DEF FifoInv

LEMMA RunFifo ==
  ASSUME OneWorker, TypeInv, FifoInv, WorkerRun(Worker1)
  PROVE  FifoInv'
<1>1. UNCHANGED <<start, finish, slots, task, cur, result, freed>>
  BY DEF WorkerRun, deque, locals
<1>2. pc[Worker1] = "run" /\ pc'[Worker1] = "running"
  BY Worker1Typed DEF WorkerRun, At, Goto
<1>3. first' = first /\ first = start /\ Holds' /\ Holds
  BY <1>1, <1>2 DEF first, Taken, Holds
<1>4. \A t \in Tasks : runs'[t] = IF Begun(t)' THEN 1 ELSE 0
  <2> SUFFICES ASSUME NEW t \in Tasks PROVE runs'[t] = IF Begun(t)' THEN 1 ELSE 0
    OBVIOUS
  <2>1. Begun(t)' <=> t \in freed \/ t = task[Worker1]
    BY <1>1, <1>2 DEF Begun
  <2>2. runs[t] = IF t \in freed THEN 1 ELSE 0
    BY <1>2 DEF FifoInv, Begun
  <2>3. t = task[Worker1] => t \notin freed
    BY DEF FifoInv
  <2>4. runs' = [runs EXCEPT ![task[Worker1]] = @ + 1]
    BY DEF WorkerRun
  <2> QED
    BY <2>1, <2>2, <2>3, <2>4, Worker1Typed
<1> QED
  BY <1>1, <1>2, <1>3, <1>4 DEF FifoInv

LEMMA DoneFreed ==
  ASSUME OneWorker, TypeInv, FifoInv, WorkerDone(Worker1)
  PROVE  /\ UNCHANGED <<start, finish, slots, cur, result, runs>>
         /\ pc[Worker1] = "running" /\ pc'[Worker1] = "lock"
         /\ freed' = freed \cup {task[Worker1]} /\ task'[Worker1] = Null
         /\ task' = [task EXCEPT ![Worker1] = Null]
         /\ first' = first /\ first = start /\ Holds /\ ~Holds'
         /\ task[Worker1] = slots[first - 1] /\ task[Worker1] \in Tasks
<1>1. UNCHANGED <<start, finish, slots, cur, result, runs>>
  BY DEF WorkerDone, deque
<1>2. /\ pc[Worker1] = "running" /\ pc'[Worker1] = "lock"
      /\ freed' = freed \cup {task[Worker1]} /\ task'[Worker1] = Null
      /\ task' = [task EXCEPT ![Worker1] = Null]
  BY Worker1Typed DEF WorkerDone, At, Goto
<1>3. first' = first /\ first = start /\ Holds /\ ~Holds'
  BY <1>1, <1>2 DEF first, Taken, Holds
<1> QED
  BY <1>1, <1>2, <1>3, Worker1Typed DEF FifoInv, TypeInv, LocalInv

LEMMA DoneFifo ==
  ASSUME OneWorker, TypeInv, FifoInv, WorkerDone(Worker1)
  PROVE  FifoInv'
<1>1. /\ UNCHANGED <<start, finish, slots, cur, result, runs>>
      /\ pc[Worker1] = "running" /\ pc'[Worker1] = "lock"
      /\ freed' = freed \cup {task[Worker1]} /\ task'[Worker1] = Null
      /\ first' = first /\ first = start /\ Holds /\ ~Holds'
      /\ task[Worker1] = slots[first - 1] /\ task[Worker1] \in Tasks
  BY DoneFreed
<1>2. \A t \in Tasks :
        t \in freed' <=> t # task'[Worker1] /\ \E i \in 0..(first' - 1) : slots'[i] = t
  <2> SUFFICES ASSUME NEW t \in Tasks
               PROVE  t \in freed \cup {task[Worker1]} <=> \E i \in 0..(first - 1) : slots[i] = t
    BY <1>1, TasksAssumption
  <2>1. first - 1 \in 0..(first - 1)
    BY <1>1 DEF FifoInv
  <2>2. t \in freed <=> t # task[Worker1] /\ \E i \in 0..(first - 1) : slots[i] = t
    BY DEF FifoInv
  <2> QED
    BY <1>1, <2>1, <2>2
<1>3. \A t \in Tasks : Begun(t)' <=> Begun(t)
  BY <1>1 DEF Begun
<1> QED
  BY <1>1, <1>2, <1>3 DEF FifoInv

\* A client queues a task that the queue does not hold yet, behind the others.
LEMMA PushQueued ==
  ASSUME OneWorker, OneInv, NEW c \in Clients, AddTaskPush(c)
  PROVE  /\ UNCHANGED <<start, task, freed, runs>> /\ cur'[Worker1] = cur[Worker1]
         /\ finish' = finish + 1 /\ PutSlot(finish, call[c])
         /\ DOMAIN slots' = 0..finish
         /\ slots'[finish] = call[c] /\ \A i \in DOMAIN slots : slots'[i] = slots[i]
         /\ call[c] \in Tasks /\ \A i \in DOMAIN slots : slots[i] # call[c]
         /\ result' = [result EXCEPT ![call[c]] = "ok"]
         /\ pc'[Worker1] = pc[Worker1] /\ first' = first
         /\ finish - start <= mMaxTaskSize
<1>1. call[c] \in Tasks /\ pc[c] = "push"
  BY DEF AddTaskPush, At, OneInv, IInv, TypeInv, LocalInv
<1>2. ~InFront(c)
  BY DEF InFront, OneWorker
<1>3. /\ UNCHANGED <<start, task, freed, runs>> /\ cur'[Worker1] = cur[Worker1]
      /\ finish' = finish + 1 /\ PutSlot(finish, call[c])
      /\ result' = [result EXCEPT ![call[c]] = "ok"]
  BY <1>2, Worker1Typed DEF AddTaskPush, OneInv, IInv
<1>4. pc'[Worker1] = pc[Worker1]
  BY Worker1Typed DEF AddTaskPush, Goto, OneInv, IInv
<1>5. \A i \in DOMAIN slots : slots[i] # call[c]
  BY <1>1 DEF OneInv, AddingInv, FifoInv
<1>6. DOMAIN slots = 0..(finish - 1) /\ finish \in Nat
  BY DEF OneInv, FifoInv
<1>7. (DOMAIN slots) \cup {finish} = 0..finish
  BY <1>6
<1>8. /\ DOMAIN slots' = 0..finish
      /\ slots'[finish] = call[c] /\ \A i \in DOMAIN slots : slots'[i] = slots[i]
  BY <1>3, <1>6, <1>7 DEF PutSlot
<1>9. finish - start <= mMaxTaskSize
  BY <1>1 DEF OneInv, AddingInv
<1> QED
  BY <1>1, <1>3, <1>4, <1>5, <1>8, <1>9 DEF first, Taken

LEMMA PushFifo ==
  ASSUME OneWorker, OneInv, NEW c \in Clients, AddTaskPush(c)
  PROVE  FifoInv'
<1>1. /\ UNCHANGED <<start, task, freed, runs>> /\ cur'[Worker1] = cur[Worker1]
      /\ finish' = finish + 1
      /\ DOMAIN slots' = 0..finish
      /\ slots'[finish] = call[c] /\ \A i \in DOMAIN slots : slots'[i] = slots[i]
      /\ call[c] \in Tasks /\ \A i \in DOMAIN slots : slots[i] # call[c]
      /\ result' = [result EXCEPT ![call[c]] = "ok"]
      /\ pc'[Worker1] = pc[Worker1] /\ first' = first
  BY PushQueued
<1>2. FifoInv /\ TypeInv
  BY DEF OneInv, IInv
<1>3. /\ DOMAIN slots = 0..(finish - 1) /\ start \in Nat /\ finish \in Nat
      /\ first \in Nat /\ first <= finish
  BY <1>2, Elements DEF FifoInv
<1>4. \A i \in 0..finish : i \in DOMAIN slots \/ i = finish
  BY <1>3
<1>5. \A i, j \in DOMAIN slots' : slots'[i] = slots'[j] => i = j
  BY <1>1, <1>2, <1>4 DEF FifoInv
<1>6. \A t \in Tasks : result'[t] = "ok" <=> \E i \in DOMAIN slots' : slots'[i] = t
  <2>1. \A i \in DOMAIN slots : i \in DOMAIN slots'
    BY <1>1, <1>3
  <2>2. finish \in DOMAIN slots'
    BY <1>1, <1>3
  <2>3. \A t \in Tasks : result'[t] = "ok" <=> result[t] = "ok" \/ t = call[c]
    BY <1>1, <1>2, Worker1Typed
  <2> QED
    BY <1>1, <1>2, <1>4, <2>1, <2>2, <2>3 DEF FifoInv
<1>7. Holds' <=> Holds
  BY <1>1 DEF Holds
<1>8. \A i \in 0..(first - 1) : i \in DOMAIN slots /\ slots'[i] = slots[i]
  BY <1>1, <1>3
<1>9. Holds => task'[Worker1] = slots'[first - 1]
  <2> SUFFICES ASSUME Holds PROVE task'[Worker1] = slots'[first - 1]
    OBVIOUS
  <2>1. first > 0 /\ task[Worker1] = slots[first - 1]
    BY <1>2 DEF FifoInv
  <2>2. first - 1 \in 0..(first - 1)
    BY <1>3, <2>1
  <2> QED
    BY <1>1, <1>8, <2>1, <2>2
<1>10. \A t \in Tasks : Begun(t)' <=> Begun(t)
  BY <1>1 DEF Begun
<1>11. \A t \in Tasks :
         t \in freed' <=> t # task'[Worker1] /\ \E i \in 0..(first' - 1) : slots'[i] = t
  BY <1>1, <1>2, <1>8 DEF FifoInv
<1>12. /\ start' \in Nat /\ finish' \in Nat /\ first' <= finish'
       /\ DOMAIN slots' = 0..(finish' - 1)
       /\ pc'[Worker1] = "front" => start' < finish'
  BY <1>1, <1>2, <1>3 DEF FifoInv
<1> QED
  BY <1>1, <1>2, <1>5, <1>6, <1>7, <1>9, <1>10, <1>11, <1>12 DEF FifoInv

LEMMA FifoStep ==
  ASSUME OneWorker, OneInv, [Next]_vars
  PROVE  FifoInv'
<1>1. TypeInv /\ FifoInv /\ AddingInv
  BY DEF OneInv, IInv
<1> QED
  BY <1>1, StillOrMoves, StillFifo, CheckFifo, FrontFifo, PopFifo, RunFifo, DoneFifo, PushFifo

-----------------------------------------------------------------------------
\* A step after which a client is adding a task only if it was adding the same
\* one before, and the queue is no longer than it was when it pushes.
Adding == {"add", "admit", "push"}
Apart ==
  /\ \A d \in Clients : call'[d] \in {call[d], Null}
  /\ \A c \in Clients : pc'[c] \in Adding =>
       /\ pc[c] \in Adding /\ call'[c] = call[c] /\ result'[call[c]] = result[call[c]]
       /\ pc'[c] = "push" => pc[c] = "push" /\ finish' - start' <= finish - start

LEMMA ApartAdding ==
  ASSUME TypeInv, FifoInv, FifoInv', AddingInv, Apart
  PROVE  AddingInv'
<1>1. \A c \in Clients : pc[c] \in Adding => call[c] \in Tasks
  BY DEF TypeInv, LocalInv, Adding
<1>2. start \in Nat /\ finish \in Nat /\ start' \in Nat /\ finish' \in Nat
  BY DEF FifoInv
<1>3. mMaxTaskSize' = mMaxTaskSize /\ mMaxTaskSize \in Int
  BY SizesAssumption DEF mMaxTaskSize, MAX_QUEUE, MAX_THREADS
<1>4. ASSUME NEW c \in Clients, pc'[c] \in Adding
      PROVE  result'[call'[c]] = "none" /\ \A d \in Clients \ {c} : call'[d] # call'[c]
  BY <1>1, <1>4, TasksAssumption DEF AddingInv, Apart, Adding
<1>5. ASSUME NEW c \in Clients, pc'[c] = "push"
      PROVE  finish' - start' <= mMaxTaskSize
  BY <1>2, <1>3, <1>5 DEF AddingInv, Apart, Adding
<1> QED
  BY <1>3, <1>4, <1>5 DEF AddingInv, Adding

LEMMA OthersApart ==
  ASSUME OneWorker, OneInv, FifoInv',
         \/ Ended \/ UNCHANGED vars \/ MainCall \/ Owner
         \/ \E t \in Threads : Lock(t)
         \/ Worker(Worker1) \/ SpuriousWakeup(Worker1)
  PROVE  Apart
<1>1. UNCHANGED <<call, result>>
  BY DEF Ended, vars, MainCall, Owner, StartRecord, StartLeave, StartCreate, FlushNoThreads,
         FlushCommand, FlushJoin, FlushReturn, Lock, Worker, SpuriousWakeup, WorkerInit,
         WorkerCheck, WorkerFront, WorkerPopRead, WorkerPopWrite, WorkerRun, WorkerDone,
         WorkerExit, locals, tasks
<1>2. TypeInv /\ FifoInv
  BY DEF OneInv, IInv
<1>3. start \in Nat /\ finish \in Nat /\ start' \in Nat /\ finish' \in Nat
  BY <1>2 DEF FifoInv
<1>4. finish' - start' <= finish - start
  <2>1. CASE WorkerPopWrite(Worker1)
    BY <1>2, <1>3, <2>1 DEF WorkerPopWrite, At, AfterPop, FifoInv
  <2>2. CASE ~WorkerPopWrite(Worker1)
    <3>1. UNCHANGED <<start, finish>>
      BY <2>2 DEF Ended, vars, MainCall, Owner, StartRecord, StartLeave, StartCreate,
         FlushNoThreads, FlushCommand, FlushJoin, FlushReturn, Lock, Worker, SpuriousWakeup,
         WorkerInit, WorkerCheck, WorkerFront, WorkerPopRead, WorkerRun, WorkerDone,
         WorkerExit, deque
    <3> QED
      BY <1>3, <3>1
  <2> QED
    BY <2>1, <2>2
<1>5. \A c \in Clients :
        \/ pc'[c] = pc[c] \/ pc'[c] \notin Adding
        \/ pc[c] = "add" /\ pc'[c] = "admit"
  <2>1. CASE \E t \in Threads : Lock(t)
    BY <1>2, <2>1, Worker1Typed DEF Lock, Locking, Goto, Adding
  <2>2. CASE Worker(Worker1) \/ SpuriousWakeup(Worker1)
    BY <1>2, <2>2, Worker1Typed
       DEF Worker, SpuriousWakeup, WorkerInit, WorkerCheck, WorkerFront, WorkerPopRead,
           WorkerPopWrite, WorkerRun, WorkerDone, WorkerExit, Goto
  <2>3. CASE FlushCommand
    BY <1>2, <2>3, Worker1Typed
       DEF FlushCommand, GotoAndWake, Broadcast, Waiting
  <2>4. CASE \E w \in Workers : StartCreate(w)
    BY <1>2, <2>4, Worker1Typed DEF StartCreate
  <2>5. CASE MainCall \/ StartRecord \/ StartLeave \/ FlushNoThreads \/ FlushJoin \/ FlushReturn
    BY <1>2, <2>5, Worker1Typed
       DEF MainCall, StartRecord, StartLeave, FlushNoThreads, FlushJoin, FlushReturn,
           MainReturn, Goto, main
  <2>6. CASE Ended \/ UNCHANGED vars
    BY <2>6 DEF Ended, vars
  <2> QED
    BY <2>1, <2>2, <2>3, <2>4, <2>5, <2>6 DEF Owner
<1> QED
  BY <1>1, <1>4, <1>5 DEF Apart, Adding

\* A client that returns leaves the others apart: the mutex keeps two clients
\* from pushing at once, and no two add the same task.
LEMMA ClientApart ==
  ASSUME OneWorker, OneInv, NEW c \in Clients,
         AddTaskReject(c) \/ AddTaskPush(c) \/ AddTaskSignal(c) \/ DeleteTask(c)
  PROVE  Apart
<1>1. TypeInv /\ OwnerInv /\ FifoInv /\ AddingInv
  BY DEF OneInv, IInv
<1>2. \A d \in Clients : call'[d] \in {call[d], Null}
  BY <1>1, Worker1Typed DEF AddTaskReject, AddTaskPush, AddTaskSignal, DeleteTask
<1>3. pc'[c] \notin Adding
  BY <1>1, Worker1Typed
     DEF AddTaskReject, AddTaskPush, AddTaskSignal, DeleteTask, Goto, GotoAndWake, Adding
<1>4. ASSUME NEW d \in Clients, pc'[d] \in Adding
      PROVE  /\ pc[d] \in Adding /\ pc'[d] = pc[d] /\ call'[d] = call[d]
             /\ result'[call[d]] = result[call[d]]
             /\ pc'[d] = "push" => finish' - start' <= finish - start
  <2>1. d # c
    BY <1>3, <1>4
  <2>2. pc[d] \in Adding /\ pc'[d] = pc[d]
    BY <1>1, <1>4, <2>1, Worker1Typed
       DEF AddTaskReject, AddTaskPush, AddTaskSignal, DeleteTask, Goto, GotoAndWake,
           Signalled, Waiting, Reacquire, Adding
  <2>3. call'[d] = call[d]
    BY <1>1, <2>1, Worker1Typed
       DEF AddTaskReject, AddTaskPush, AddTaskSignal, DeleteTask
  <2>4. call[d] # call[c] /\ call[d] \in Tasks
    BY <1>1, <2>1, <2>2 DEF AddingInv, Adding, TypeInv, LocalInv
  <2>5. result'[call[d]] = result[call[d]]
    BY <2>4, <1>1, Worker1Typed
       DEF AddTaskReject, AddTaskPush, AddTaskSignal, DeleteTask, tasks
  <2>6. pc[d] = "push" => ~AddTaskPush(c)
    BY <1>1, <2>1, Worker1Typed DEF OwnerInv, AddTaskPush, At, Critical
  <2>7. ~AddTaskPush(c) => UNCHANGED <<start, finish>>
    BY DEF AddTaskReject, AddTaskSignal, DeleteTask, deque
  <2>8. start \in Nat /\ finish \in Nat
    BY <1>1 DEF FifoInv
  <2> QED
    BY <2>2, <2>3, <2>5, <2>6, <2>7, <2>8
<1> QED
  BY <1>2, <1>4 DEF Apart

LEMMA CallAdding ==
  ASSUME OneWorker, OneInv, NEW c \in Clients, NEW t \in Tasks, ClientCall(c, t)
  PROVE  AddingInv'
<1>1. TypeInv /\ AddingInv
  BY DEF OneInv, IInv
<1>2. /\ UNCHANGED <<start, finish, result>>
      /\ call' = [call EXCEPT ![c] = t]
  BY DEF ClientCall, deque, tasks
<1>3. pc'[c] \notin {"admit", "push"} /\ \A d \in Clients \ {c} : pc'[d] = pc[d]
  BY <1>1, Worker1Typed DEF ClientCall, Goto
<1>4. /\ pc'[c] = "add" => result[t] = "none" /\ \A d \in Clients : call[d] # t
      /\ result[t] = "ok" \/ \A d \in Clients : call[d] # t
  BY <1>1, Worker1Typed DEF ClientCall, Goto
<1>5. call'[c] = t /\ \A d \in Clients \ {c} : call'[d] = call[d]
  BY <1>1, <1>2, Worker1Typed
<1>6. mMaxTaskSize' = mMaxTaskSize
  BY DEF mMaxTaskSize
<1> QED
  BY <1>1, <1>2, <1>3, <1>4, <1>5, <1>6 DEF AddingInv

LEMMA AdmitAdding ==
  ASSUME OneWorker, OneInv, NEW c \in Clients, AddTaskAdmit(c)
  PROVE  AddingInv'
<1>1. TypeInv /\ AddingInv /\ FifoInv
  BY DEF OneInv, IInv
<1>2. UNCHANGED <<start, finish, result, call>>
  BY DEF AddTaskAdmit, deque, tasks
<1>3. pc[c] = "admit" /\ pc'[c] = "push" /\ \A d \in Clients \ {c} : pc'[d] = pc[d]
  BY <1>1, Worker1Typed DEF AddTaskAdmit, At, Goto
<1>4. finish - start <= mMaxTaskSize
  <2>1. ~(finish - start > mMaxTaskSize)
    BY DEF AddTaskAdmit, Full, OverLimit
  <2>2. start \in Nat /\ finish \in Nat /\ mMaxTaskSize \in Int
    BY <1>1, SizesAssumption DEF FifoInv, mMaxTaskSize, MAX_QUEUE, MAX_THREADS
  <2> QED
    BY <2>1, <2>2
<1>5. mMaxTaskSize' = mMaxTaskSize
  BY DEF mMaxTaskSize
<1> QED
  BY <1>1, <1>2, <1>3, <1>4, <1>5 DEF AddingInv

LEMMA AddingStep ==
  ASSUME OneWorker, OneInv, FifoInv', [Next]_vars
  PROVE  AddingInv'
<1>1. TypeInv /\ FifoInv /\ AddingInv
  BY DEF OneInv, IInv
<1>2. CASE Apart
  BY <1>1, <1>2, ApartAdding
<1>3. CASE \E c \in Clients : AddTaskAdmit(c) \/ \E t \in Tasks : ClientCall(c, t)
  BY <1>3, AdmitAdding, CallAdding
<1>4. \/ Ended \/ UNCHANGED vars \/ MainCall \/ Owner
      \/ \E t \in Threads : Lock(t)
      \/ Worker(Worker1) \/ SpuriousWakeup(Worker1)
      \/ \E c \in Clients : Client(c) \/ \E t \in Tasks : ClientCall(c, t)
  BY <1>1, Worker1Typed DEF Next
<1> QED
  BY <1>2, <1>3, <1>4, OthersApart, ClientApart DEF Client

LEMMA OneInit ==
  ASSUME OneWorker, Init
  PROVE  OneInv
<1>1. IInv
  BY IInvInit
<1>2. \A t \in Threads : pc[t] = IF t \in Workers THEN "none" ELSE "idle"
  BY DEF Init
<1>3. pc[Worker1] = "none" /\ \A c \in Clients : pc[c] = "idle"
  BY <1>1, <1>2, Worker1Typed DEF IInv, OneWorker
<1>4. /\ start = 0 /\ finish = 0 /\ DOMAIN slots = {} /\ freed = {}
      /\ task[Worker1] = Null
      /\ \A t \in Tasks : result[t] = "none" /\ runs[t] = 0
  BY <1>1, Worker1Typed DEF Init, IInv
<1>5. first = 0 /\ ~Holds /\ \A t \in Tasks : ~Begun(t)
  BY <1>3, <1>4 DEF first, Taken, Holds, Begun
<1>6. 0..(0 - 1) = {}
  OBVIOUS
<1>7. FifoInv
  BY <1>3, <1>4, <1>5, <1>6 DEF FifoInv
<1>8. AddingInv
  BY <1>3 DEF AddingInv
<1> QED
  BY <1>1, <1>7, <1>8 DEF OneInv

LEMMA OneHolds == OneWorker => (Spec => []OneInv)
<1> SUFFICES ASSUME OneWorker PROVE Spec => []OneInv
  OBVIOUS
<1>1. Init => OneInv
  BY OneInit
<1>2. OneInv /\ [Next]_vars => OneInv'
  BY IInvStep, FifoStep, AddingStep DEF OneInv
<1> QED
  BY <1>1, <1>2, PTL DEF Spec

\* With one worker and FIFO tasks, a task is handed to doTask at most once,
\* only if addTask took it, and never after its deletion, for every number of
\* clients and tasks and every plan of the owner: what the worker reads of the
\* deque outside the mutex no client changes (MTTaskRunner.cpp:96-113).
THEOREM RunsOnce == OneWorker => (Spec => []RunOnce)
<1> SUFFICES ASSUME OneWorker PROVE Spec => []RunOnce
  OBVIOUS
<1>1. ASSUME OneInv
      PROVE  RunOnce
  <2>1. FifoInv /\ TypeInv
    BY <1>1 DEF OneInv, IInv
  <2>2. \A t \in Tasks : t \in freed => \E i \in 0..(first - 1) : slots[i] = t
    BY <2>1 DEF FifoInv
  <2>3. \A i \in 0..(first - 1) : i \in DOMAIN slots
    BY <2>1, Elements
  <2>4. \A t \in Tasks : t \in freed => result[t] = "ok"
    BY <2>1, <2>2, <2>3 DEF FifoInv
  <2>5. ASSUME pc[Worker1] = "running" PROVE result[task[Worker1]] = "ok"
    <3>1. first > 0 /\ task[Worker1] = slots[first - 1]
      BY <2>1, <2>5 DEF FifoInv, Holds
    <3>2. first - 1 \in DOMAIN slots /\ task[Worker1] \in Tasks
      BY <2>1, <2>3, <2>5, <3>1, Elements
    <3> QED
      BY <2>1, <3>1, <3>2 DEF FifoInv
  <2>6. \A t \in Tasks : runs[t] <= (IF t \in Accepted THEN 1 ELSE 0)
    BY <2>1, <2>4, <2>5 DEF FifoInv, Begun, Accepted
  <2>7. \A w \in Workers : task[w] # Null => task[w] \notin freed
    BY <2>1, Worker1Typed DEF FifoInv, TypeInv, TypeOK
  <2> QED
    BY <2>6, <2>7 DEF RunOnce
<1> QED
  BY <1>1, OneHolds, PTL

\* Only addTask's first test makes a task's answer RUNNER_FULL.
LEMMA FullAnswered ==
  ASSUME OneWorker, TypeInv, AddingInv, [Next]_vars,
         NEW t \in Tasks, result[t] # "full", result'[t] = "full"
  PROVE  Full
<1>1. PICK c \in Clients : Client(c) \/ \E u \in Tasks : ClientCall(c, u)
  BY Worker1Typed
     DEF Next, Ended, vars, MainCall, Owner, StartRecord, StartLeave, StartCreate,
         FlushNoThreads, FlushCommand, FlushJoin, FlushReturn, Lock, Worker, SpuriousWakeup,
         WorkerInit, WorkerCheck, WorkerFront, WorkerPopRead, WorkerPopWrite, WorkerRun,
         WorkerDone, WorkerExit, tasks
<1>2. ~AddTaskPush(c)
  BY Worker1Typed DEF AddTaskPush
<1>3. AddTaskReject(c)
  BY <1>1, <1>2 DEF Client, AddTaskAdmit, AddTaskSignal, DeleteTask, ClientCall, tasks
<1> QED
  BY <1>3, Worker1Typed DEF AddTaskReject

\* The queue holds at most one task more than the bound of its test.
LengthInv == finish - start <= mMaxTaskSize + 1

LEMMA LengthStep ==
  ASSUME OneWorker, OneInv, LengthInv, [Next]_vars
  PROVE  LengthInv'
<1>1. TypeInv /\ FifoInv /\ AddingInv
  BY DEF OneInv, IInv
<1>2. start \in Nat /\ finish \in Nat
  BY <1>1 DEF FifoInv
<1>3. mMaxTaskSize' = mMaxTaskSize /\ mMaxTaskSize \in Int
  BY SizesAssumption DEF mMaxTaskSize, MAX_QUEUE, MAX_THREADS
<1>4. CASE \E c \in Clients : AddTaskPush(c)
  <2>1. start' = start /\ finish' = finish + 1 /\ finish - start <= mMaxTaskSize
    BY <1>4, PushQueued
  <2> QED
    BY <1>2, <1>3, <2>1 DEF LengthInv
<1>5. CASE WorkerPopWrite(Worker1)
  <2>1. finish' = finish /\ start' = start + 1
    BY <1>1, <1>5 DEF WorkerPopWrite, At, AfterPop, FifoInv
  <2> QED
    BY <1>2, <1>3, <2>1 DEF LengthInv
<1>6. CASE UNCHANGED <<start, finish>>
  BY <1>3, <1>6 DEF LengthInv
<1>7. CASE \/ Still \/ WorkerCheck(Worker1) \/ WorkerFront(Worker1)
           \/ WorkerPopRead(Worker1) \/ WorkerRun(Worker1) \/ WorkerDone(Worker1)
  BY <1>6, <1>7
     DEF Still, WorkerCheck, WorkerFront, WorkerPopRead, WorkerRun, WorkerDone, deque
<1> QED
  BY <1>1, <1>4, <1>5, <1>7, StillOrMoves

\* With one worker and FIFO tasks, and a task_size that an uint8_t holds,
\* addTask answers RUNNER_FULL when just one task more than task_size waits: the
\* cursor that the worker moves without the mutex never makes the queue look
\* longer, nor lets it grow further (MTTaskRunner.cpp:42-47, 153-154).
THEOREM FullIsFull == OneWorker /\ TaskSize \in 1..255 => (Spec => FullMeansFull)
<1> SUFFICES ASSUME OneWorker, TaskSize \in 1..255 PROVE Spec => FullMeansFull
  OBVIOUS
<1>1. mMaxTaskSize = TaskSize
  BY DEF mMaxTaskSize, MAX_QUEUE
<1>2. Init => LengthInv
  BY <1>1 DEF Init, LengthInv
<1>3. OneInv /\ LengthInv /\ [Next]_vars => LengthInv'
  BY LengthStep
<1>4. ASSUME OneInv, LengthInv, [Next]_vars,
             NEW t \in Tasks, result[t] # "full", result'[t] = "full"
      PROVE  finish - start = TaskSize + 1
  <2>1. TypeInv /\ FifoInv /\ AddingInv
    BY <1>4 DEF OneInv, IInv
  <2>2. start \in Nat /\ finish \in Nat /\ start <= finish
    BY <2>1 DEF FifoInv, first
  <2>3. finish - start > mMaxTaskSize
    BY <1>4, <2>1, <2>2, FullAnswered DEF Full, OverLimit
  <2> QED
    BY <1>1, <1>4, <2>2, <2>3 DEF LengthInv
<1>5. OneInv /\ LengthInv /\ [Next]_vars
        => [\A t \in Tasks : result[t] # "full" /\ result'[t] = "full"
              => finish - start = TaskSize + 1]_vars
  BY <1>4
<1> QED
  BY <1>2, <1>3, <1>5, OneHolds, PTL DEF Spec, FullMeansFull

-----------------------------------------------------------------------------
(* One worker implements the pool of TaskPool.                              *)

LEMMA PendingSeq ==
  ASSUME TypeInv, FifoInv
  PROVE  /\ pending \in Seq(Tasks) /\ Len(pending) = finish - first
         /\ \A i \in 1..(finish - first) : pending[i] = slots[first + i - 1]
<1> DEFINE n == finish - first
<1>1. first \in Nat /\ finish \in Nat /\ n \in Nat
  BY Elements DEF FifoInv
<1>2. DOMAIN slots = 0..(finish - 1) /\ \A i \in DOMAIN slots : slots[i] \in Tasks
  BY Elements DEF FifoInv
<1>3. \A i \in 1..n : slots[first + i - 1] \in Tasks
  BY <1>1, <1>2
<1>4. pending \in [1..n -> Tasks] /\ \A i \in 1..n : pending[i] = slots[first + i - 1]
  BY <1>3 DEF pending
<1> QED
  BY <1>1, <1>4

\* Every task the pool knows has been accepted.
LEMMA KnownAccepted ==
  ASSUME TypeInv, FifoInv, NEW t \in Tasks, t \in Pool!Known
  PROVE  \E i \in DOMAIN slots : slots[i] = t
<1>1. CASE \E i \in DOMAIN pending : pending[i] = t
  <2>1. PICK i \in 1..(finish - first) : pending[i] = t
    BY <1>1 DEF pending
  <2>2. pending[i] = slots[first + i - 1] /\ first + i - 1 \in DOMAIN slots
    BY PendingSeq, Elements DEF FifoInv
  <2> QED
    BY <2>1, <2>2
<1>2. CASE t = task[Worker1]
  <2>1. Holds
    BY <1>2, Elements DEF FifoInv
  <2>2. first > 0 /\ t = slots[first - 1] /\ first - 1 \in DOMAIN slots
    BY <1>2, <2>1, Elements DEF FifoInv
  <2> QED
    BY <2>2
<1>3. CASE t \in freed
  BY <1>3, Elements DEF FifoInv
<1> QED
  BY <1>1, <1>2, <1>3 DEF Pool!Known

LEMMA PushAccepts ==
  ASSUME OneWorker, OneInv, NEW c \in Clients, AddTaskPush(c)
  PROVE  Pool!Accept(call[c])
<1>1. TypeInv /\ FifoInv
  BY DEF OneInv, IInv
<1>2. /\ UNCHANGED <<start, task, freed>>
      /\ finish' = finish + 1 /\ first' = first
      /\ slots'[finish] = call[c] /\ \A i \in DOMAIN slots : slots'[i] = slots[i]
      /\ call[c] \in Tasks /\ \A i \in DOMAIN slots : slots[i] # call[c]
      /\ finish - start <= mMaxTaskSize
  BY PushQueued
<1>3. call[c] \notin Pool!Known
  BY <1>1, <1>2, KnownAccepted
<1>4. /\ first \in Nat /\ finish \in Nat /\ first <= finish /\ start \in Nat /\ start <= first
      /\ DOMAIN slots = 0..(finish - 1)
  BY <1>1, Elements DEF FifoInv, first
<1>5. Len(pending) < mMaxTaskSize + 1
  <2>1. mMaxTaskSize \in Int
    BY SizesAssumption DEF mMaxTaskSize, MAX_QUEUE, MAX_THREADS
  <2>2. Len(pending) = finish - first
    BY <1>1, PendingSeq
  <2> QED
    BY <1>2, <1>4, <2>1, <2>2
<1>6. pending' = Append(pending, call[c])
  <2> DEFINE n == finish - first
             q == Append(pending, call[c])
  <2>1. /\ pending \in Seq(Tasks) /\ Len(pending) = n /\ n \in Nat
        /\ \A i \in 1..n : pending[i] = slots[first + i - 1]
    BY <1>1, <1>4, PendingSeq
  <2>2. /\ q \in Seq(Tasks) /\ Len(q) = n + 1
        /\ \A i \in 1..n : q[i] = pending[i]
        /\ q[n + 1] = call[c]
    BY <1>2, <2>1, AppendProperties
  <2>3. pending' = [i \in 1..(n + 1) |-> slots'[first + i - 1]]
    <3>1. (finish + 1) - first = n + 1
      BY <1>4
    <3>2. pending' = [i \in 1..(finish' - first') |-> slots'[first' + i - 1]]
      BY DEF pending
    <3> QED
      BY <1>2, <3>1, <3>2
  <2>4. \A i \in 1..n : first + i - 1 \in DOMAIN slots
    BY <1>4, <2>1
  <2>5. \A i \in 1..(n + 1) : q[i] = slots'[first + i - 1]
    <3>1. \A i \in 1..n : q[i] = slots'[first + i - 1]
      BY <1>2, <2>1, <2>2, <2>4
    <3>2. first + (n + 1) - 1 = finish
      BY <1>4
    <3>3. \A i \in 1..(n + 1) : i \in 1..n \/ i = n + 1
      BY <2>1
    <3> QED
      BY <1>2, <2>2, <3>1, <3>2, <3>3
  <2>6. q = [i \in 1..(n + 1) |-> q[i]]
    BY <2>2
  <2> QED
    BY <2>3, <2>5, <2>6
<1> QED
  BY <1>2, <1>3, <1>5, <1>6 DEF Pool!Accept

LEMMA FrontTakes ==
  ASSUME OneWorker, OneInv, WorkerFront(Worker1)
  PROVE  Pool!Take
<1>1. TypeInv /\ FifoInv
  BY DEF OneInv, IInv
<1>2. /\ start < finish /\ task[Worker1] = Null /\ task'[Worker1] = slots[start]
      /\ first = start /\ first' = start + 1
      /\ UNCHANGED <<start, finish, slots, freed>>
  BY <1>1, FrontTaken
<1>3. first \in Nat /\ finish \in Nat
  BY <1>1, Elements
<1> DEFINE n == finish - first
<1>4. /\ pending \in Seq(Tasks) /\ Len(pending) = n /\ n \in Nat /\ n > 0
      /\ \A i \in 1..n : pending[i] = slots[first + i - 1]
  BY <1>1, <1>2, <1>3, PendingSeq
<1>5. pending # <<>>
  BY <1>4
<1>6. Head(pending) = slots[start]
  <2>1. pending[1] = slots[first + 1 - 1]
    BY <1>4
  <2> QED
    BY <1>2, <1>3, <1>4, <2>1
<1>7. pending' = Tail(pending)
  <2>1. /\ Tail(pending) \in Seq(Tasks) /\ Len(Tail(pending)) = n - 1
        /\ \A i \in 1..(n - 1) : Tail(pending)[i] = pending[i + 1]
    BY <1>4, <1>5, HeadTailProperties
  <2>5. Tail(pending) \in [1..(n - 1) -> Tasks]
    BY <2>1, LenProperties
  <2>2. pending' = [i \in 1..(n - 1) |-> slots[first + 1 + i - 1]]
    <3>1. finish - (start + 1) = n - 1
      BY <1>2, <1>3
    <3>2. pending' = [i \in 1..(finish' - first') |-> slots'[first' + i - 1]]
      BY DEF pending
    <3> QED
      BY <1>2, <3>1, <3>2
  <2>3. \A i \in 1..(n - 1) : Tail(pending)[i] = slots[first + 1 + i - 1]
    <3> SUFFICES ASSUME NEW i \in 1..(n - 1)
                 PROVE  pending[i + 1] = slots[first + 1 + i - 1]
      BY <2>1
    <3>1. i + 1 \in 1..n /\ first + (i + 1) - 1 = first + 1 + i - 1
      BY <1>3, <1>4
    <3> QED
      BY <1>4, <3>1
  <2>4. Tail(pending) = [i \in 1..(n - 1) |-> Tail(pending)[i]]
    BY <2>5
  <2> QED
    BY <2>2, <2>3, <2>4
<1> QED
  BY <1>2, <1>5, <1>6, <1>7 DEF Pool!Take

LEMMA DoneFinishes ==
  ASSUME OneWorker, OneInv, WorkerDone(Worker1)
  PROVE  Pool!Finish
<1>1. TypeInv /\ FifoInv
  BY DEF OneInv, IInv
<1>2. /\ UNCHANGED <<start, finish, slots>>
      /\ freed' = freed \cup {task[Worker1]} /\ task'[Worker1] = Null
      /\ first' = first /\ task[Worker1] \in Tasks
  BY <1>1, DoneFreed
<1>3. pending' = pending
  BY <1>2 DEF pending
<1> QED
  BY <1>2, <1>3, TasksAssumption DEF Pool!Finish

LEMMA PoolStep ==
  ASSUME OneWorker, OneInv, [Next]_vars
  PROVE  Pool!Next \/ UNCHANGED <<pending, task[Worker1], freed>>
<1>1. TypeInv /\ FifoInv /\ AddingInv
  BY DEF OneInv, IInv
<1>2. CASE \/ Still
           \/ WorkerCheck(Worker1) /\ pc'[Worker1] = "front"
           \/ WorkerPopRead(Worker1) \/ WorkerPopWrite(Worker1) \/ WorkerRun(Worker1)
  <2>1. UNCHANGED <<finish, slots, task, freed>>
    BY <1>2 DEF Still, WorkerCheck, WorkerPopRead, WorkerPopWrite, WorkerRun, deque, locals, tasks
  <2>2. first' = first
    <3>1. CASE Still
      BY <3>1 DEF Still, Working, first, Taken
    <3>2. CASE WorkerCheck(Worker1) /\ pc'[Worker1] = "front"
      BY <3>2 DEF WorkerCheck, At, first, Taken, deque
    <3>3. CASE WorkerPopRead(Worker1) \/ WorkerPopWrite(Worker1)
      BY <1>1, <3>3, PopSame
    <3>4. CASE WorkerRun(Worker1)
      BY <1>1, <3>4, Worker1Typed DEF WorkerRun, At, Goto, first, Taken, deque
    <3> QED
      BY <1>2, <3>1, <3>2, <3>3, <3>4
  <2>3. pending' = pending
    BY <2>1, <2>2 DEF pending
  <2> QED
    BY <2>1, <2>3
<1>3. CASE \E c \in Clients : AddTaskPush(c)
  <2>1. PICK c \in Clients : AddTaskPush(c)
    BY <1>3
  <2>2. call[c] \in Tasks
    BY <2>1, PushQueued
  <2> QED
    BY <2>1, <2>2, PushAccepts DEF Pool!Next
<1>4. CASE WorkerFront(Worker1)
  BY <1>4, FrontTakes DEF Pool!Next
<1>5. CASE WorkerDone(Worker1)
  BY <1>5, DoneFinishes DEF Pool!Next
<1>6. \/ Still
      \/ WorkerCheck(Worker1) /\ pc'[Worker1] = "front"
      \/ WorkerFront(Worker1) \/ WorkerPopRead(Worker1) \/ WorkerPopWrite(Worker1)
      \/ WorkerRun(Worker1) \/ WorkerDone(Worker1)
      \/ \E c \in Clients : AddTaskPush(c)
  BY <1>1, StillOrMoves
<1> QED
  BY <1>2, <1>3, <1>4, <1>5, <1>6

LEMMA PoolInit ==
  ASSUME OneWorker, Init
  PROVE  Pool!Init
<1>1. OneInv
  BY OneInit
<1>2. TypeInv /\ FifoInv
  BY <1>1 DEF OneInv, IInv
<1>3. start = 0 /\ finish = 0 /\ freed = {} /\ task[Worker1] = Null
  BY <1>2, Worker1Typed DEF Init
<1>4. first = 0
  BY <1>2, <1>3 DEF FifoInv, first
<1>5. pending \in Seq(Tasks) /\ Len(pending) = 0
  BY <1>2, <1>3, <1>4, PendingSeq
<1>6. pending = <<>>
  BY <1>5
<1> QED
  BY <1>3, <1>6 DEF Pool!Init

\* With one worker and FIFO tasks the runner implements the abstract pool: no
\* task is lost between front() and pop_front(), run twice or overtaken, and
\* the queue never holds more than the pool's capacity, however the worker and
\* the clients interleave (MTTaskRunner.cpp:96-113, 147-185).
THEOREM PoolImplemented == OneWorker => (Spec => ImplementsPool)
<1> SUFFICES ASSUME OneWorker PROVE Spec => ImplementsPool
  OBVIOUS
<1>1. Init => Pool!Init
  BY PoolInit
<1>2. OneInv /\ [Next]_vars => [Pool!Next]_(Pool!vars)
  BY PoolStep DEF Pool!vars
<1> QED
  BY <1>1, <1>2, OneHolds, PTL DEF Spec, ImplementsPool, Pool!Spec
=============================================================================
