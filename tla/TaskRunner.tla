----------------------------- MODULE TaskRunner -----------------------------
(***************************************************************************)
(* MTTaskRunner (src/libMTPerfBase/MTTaskRunner.cpp): the thread pool that  *)
(* runs the measurement tasks.  Threads share one mutex, one condition      *)
(* variable, a deque of tasks, the vector of worker threads and the delayed *)
(* command mDelayCMD.  Each action is one line, or one run of lines, of one *)
(* thread between two points where the other threads can interfere.  What   *)
(* the code does without the mutex (line 78, lines 104-114, line 132) is a  *)
(* step of its own.                                                         *)
(*                                                                         *)
(* The deque is the pair of cursors a std::deque keeps: its elements are    *)
(* the slots from start up to finish.  pop_front and push_front read and    *)
(* then write the start cursor, in two steps, because pop_front runs        *)
(* without the mutex.  Popping more often than pushing leaves start beyond  *)
(* finish; size() is then a huge unsigned number.                           *)
(***************************************************************************)
EXTENDS Integers, Sequences, FiniteSets

CONSTANTS
  Workers,      \* the threads pthread_create can return
  Clients,      \* the threads that call addTask and deleteTask
  Tasks,        \* the MTTask objects, each submitted at most once
  HighPrio,     \* the tasks submitted with PRIORITY_HIGH
  Endless,      \* the tasks whose doTask returns only once mCancel is set
  Main,         \* the thread that owns the runner: start, flush, delete
  Nobody,       \* no thread: the mutex is free
  Null,         \* the null task pointer
  RunnerSize,   \* the constructor's runner_size
  TaskSize,     \* the constructor's task_size
  Plans,        \* the sequences of calls Main may make, the destructor last
  CreateMayFail \* whether pthread_create may fail

MAX_THREADS == 64
MAX_QUEUE == 65536

RUNNING == 0    \* DELAY_CMD_RUUNING
NO_WAIT == 1    \* DELAY_CMD_EXIT_NO_WAIT
GRACEFULL == 2  \* DELAY_CMD_EXIT_GRACEFULL
GARBAGE == 3    \* any other value the uninitialised field may hold

DelayCMDs == {RUNNING, NO_WAIT, GRACEFULL, GARBAGE}
Calls == {"start", "flush_nowait", "flush_gracefull"}
Threads == Workers \cup Clients \cup {Main}

ASSUME ThreadsAssumption ==
  /\ IsFiniteSet(Workers)
  /\ Workers \cap Clients = {}
  /\ Main \notin Workers \cup Clients
  /\ Nobody \notin Threads
ASSUME TasksAssumption ==
  /\ Null \notin Tasks
  /\ HighPrio \subseteq Tasks
  /\ Endless \subseteq Tasks
ASSUME SizesAssumption == RunnerSize \in Int /\ TaskSize \in Int
ASSUME PlansAssumption ==
  /\ Plans \subseteq Seq(Calls)
  /\ CreateMayFail \in BOOLEAN

\* The constructor's checks; the two fields are uint8_t.
mMaxWorkerSize ==
  IF RunnerSize <= 0 \/ RunnerSize > MAX_THREADS THEN MAX_THREADS ELSE RunnerSize
mMaxTaskSize ==
  IF TaskSize <= 0 \/ TaskSize > MAX_QUEUE THEN MAX_THREADS ELSE TaskSize % 256

VARIABLES
  mMutex,       \* the thread that holds the mutex, or Nobody
  mDelayCMD,
  mThreadQueue, \* the workers start() has recorded
  start, finish, slots, \* mTaskQueue
  pc,           \* where each thread is
  task,         \* each worker's local task
  cur,          \* the start cursor a pop_front or push_front in progress has read
  call,         \* each client's argument
  result,       \* what addTask returned for a task
  cancelled,    \* the tasks whose mCancel is set
  freed,        \* the tasks deleted by a worker
  runs,         \* how often doTask was called on a task
  todo,         \* the calls Main has still to make
  flag,         \* the command of the flush in progress
  index,        \* the loop counter of start() and of flush()
  ptrd,         \* the thread start() has just created, or Nobody
  crashed       \* the process has died of a use of freed or garbage memory

deque == <<start, finish, slots>>
pool == <<mDelayCMD, mThreadQueue>>
locals == <<task, cur, call>>
tasks == <<result, cancelled, freed, runs>>
main == <<todo, flag, index, ptrd>>
vars == <<mMutex, pool, deque, pc, locals, tasks, main, crashed>>

WorkerPc == {"none", "init", "lock", "check", "wait", "front", "pop", "popping",
             "run", "running", "exiting", "exited"}
ClientPc == {"idle", "add", "admit", "push", "pushing", "delete", "cancel"}
MainPc == {"idle", "create", "record", "flush", "flushing", "join"}

TypeOK ==
  /\ mMutex \in Threads \cup {Nobody}
  /\ mDelayCMD \in DelayCMDs
  /\ mThreadQueue \in Seq(Workers)
  /\ start \in Int /\ finish \in Int
  /\ DOMAIN slots \subseteq Int
  /\ \A i \in DOMAIN slots : slots[i] \in Tasks
  /\ pc \in [Threads -> WorkerPc \cup ClientPc \cup MainPc]
  /\ \A w \in Workers : pc[w] \in WorkerPc
  /\ \A c \in Clients : pc[c] \in ClientPc
  /\ pc[Main] \in MainPc
  /\ task \in [Workers -> Tasks \cup {Null}]
  /\ cur \in [Workers \cup Clients -> Int]
  /\ call \in [Clients -> Tasks \cup {Null}]
  /\ result \in [Tasks -> {"none", "ok", "full", "shutdown"}]
  /\ cancelled \subseteq Tasks
  /\ freed \subseteq Tasks
  /\ runs \in [Tasks -> Nat]
  /\ todo \in Seq(Calls)
  /\ flag \in {NO_WAIT, GRACEFULL}
  /\ index \in Nat
  /\ ptrd \in Workers \cup {Nobody}
  /\ crashed \in BOOLEAN

Init ==
  /\ mMutex = Nobody
  /\ mDelayCMD \in DelayCMDs
  /\ mThreadQueue = <<>>
  /\ start = 0 /\ finish = 0 /\ slots = <<>>
  /\ pc = [t \in Threads |-> IF t \in Workers THEN "none" ELSE "idle"]
  /\ task = [w \in Workers |-> Null]
  /\ cur = [t \in Workers \cup Clients |-> 0]
  /\ call = [c \in Clients |-> Null]
  /\ result = [t \in Tasks |-> "none"]
  /\ cancelled = {} /\ freed = {}
  /\ runs = [t \in Tasks |-> 0]
  /\ todo \in Plans
  /\ flag = NO_WAIT
  /\ index = 0
  /\ ptrd = Nobody
  /\ crashed = FALSE

-----------------------------------------------------------------------------
(* The deque, the memory of the tasks, the mutex and the condition.         *)

\* size() is unsigned: it is zero only when the cursors are equal, and beyond
\* every bound once start has passed finish.
Empty == start = finish
OverLimit(limit) == finish - start > limit \/ start > finish
PutSlot(i, t) == slots' = [j \in DOMAIN slots \cup {i} |-> IF j = i THEN t ELSE slots[j]]

\* Reading or deleting an object that is gone: the process dies or goes on.
Outcomes(defined) == IF defined THEN {FALSE} ELSE BOOLEAN

\* A crashed process takes no further step.
At(t, here) == ~crashed /\ pc[t] = here
Goto(t, there) == pc' = [pc EXCEPT ![t] = there]

\* Lines 82, 149, 189 and 208: where a thread waits for the mutex, and where it
\* is when it has it.
Locking == [lock |-> "check", add |-> "admit", delete |-> "cancel", flush |-> "flushing"]

Lock(t) ==
  /\ ~crashed /\ pc[t] \in DOMAIN Locking
  /\ mMutex = Nobody
  /\ mMutex' = t
  /\ Goto(t, Locking[pc[t]])
  /\ UNCHANGED <<pool, deque, locals, tasks, main, crashed>>

\* The waiters that pthread_cond_signal (one, if there is one) and
\* pthread_cond_broadcast wake; a woken worker takes the mutex again first.
Waiting == {w \in Workers : pc[w] = "wait"}
NoSignal == {{}}
Signalled == IF Waiting = {} THEN {{}} ELSE {{w} : w \in Waiting}
NoBroadcast == {}
Broadcast == Waiting
Unlocked == "check"
Reacquire == "lock"
GotoAndWake(t, there, woken) ==
  pc' = [u \in Threads |-> IF u = t THEN there
                           ELSE IF u \in woken THEN Reacquire ELSE pc[u]]

-----------------------------------------------------------------------------
(* Worker_Loop.                                                             *)

\* Line 78, before the mutex is taken for the first time.
WorkerInit(w) ==
  /\ At(w, "init")
  /\ mDelayCMD' = RUNNING
  /\ Goto(w, "lock")
  /\ UNCHANGED <<mMutex, mThreadQueue, deque, locals, tasks, main, crashed>>

\* The loop waits on the vector of threads, not on the queue of tasks.
MustWait == mThreadQueue = <<>> /\ mDelayCMD = RUNNING
MustExit == \/ mDelayCMD = GRACEFULL /\ mThreadQueue = <<>>
            \/ mDelayCMD = NO_WAIT

\* With nothing queued the worker unlocks and goes round again without waiting.
WorkerCheck(w) ==
  /\ At(w, "check")
  /\ \/ MustWait /\ mMutex' = Nobody /\ Goto(w, "wait")
     \/ MustExit /\ mMutex' = mMutex /\ Goto(w, "exiting")
     \/ ~MustWait /\ ~MustExit /\ Empty /\ mMutex' = Nobody /\ Goto(w, "lock")
     \/ ~MustWait /\ ~MustExit /\ ~Empty /\ mMutex' = mMutex /\ Goto(w, "front")
  /\ UNCHANGED <<pool, deque, locals, tasks, main, crashed>>

SpuriousWakeup(w) ==
  /\ At(w, "wait")
  /\ Goto(w, Reacquire)
  /\ UNCHANGED <<mMutex, pool, deque, locals, tasks, main, crashed>>

\* front() and the unlock.  A slot that was never written holds a null pointer,
\* or one whose use kills the process.
WorkerFront(w) ==
  /\ At(w, "front")
  /\ mMutex' = Nobody
  /\ \/ /\ start \in DOMAIN slots
        /\ task' = [task EXCEPT ![w] = slots[start]]
        /\ Goto(w, "pop")
        /\ crashed' = FALSE
     \/ /\ start \notin DOMAIN slots
        /\ Goto(w, "lock")
        /\ crashed' \in Outcomes(FALSE)
        /\ task' = task
  /\ UNCHANGED <<pool, deque, cur, call, tasks, main>>

\* pop_front() without the mutex: the cursor is read, then written.
WorkerPopRead(w) ==
  /\ At(w, "pop")
  /\ cur' = [cur EXCEPT ![w] = start]
  /\ Goto(w, "popping")
  /\ UNCHANGED <<mMutex, pool, deque, task, call, tasks, main, crashed>>

KeepFront(w) == cur[w]
AfterPop(w) == cur[w] + 1

WorkerPopWrite(w) ==
  /\ At(w, "popping")
  /\ start' = AfterPop(w)
  /\ cur' = [cur EXCEPT ![w] = 0]
  /\ Goto(w, "run")
  /\ UNCHANGED <<mMutex, pool, finish, slots, task, call, tasks, main, crashed>>

WorkerRun(w) ==
  /\ At(w, "run")
  /\ runs' = [runs EXCEPT ![task[w]] = @ + 1]
  /\ crashed' \in Outcomes(task[w] \notin freed)
  /\ Goto(w, "running")
  /\ UNCHANGED <<mMutex, pool, deque, locals, result, cancelled, freed, main>>

\* doTask returns and the worker deletes the task.
WorkerDone(w) ==
  /\ At(w, "running")
  /\ task[w] \in Endless => task[w] \in cancelled
  /\ freed' = freed \cup {task[w]}
  /\ crashed' \in Outcomes(task[w] \notin freed)
  /\ task' = [task EXCEPT ![w] = Null]
  /\ Goto(w, "lock")
  /\ UNCHANGED <<mMutex, pool, deque, cur, call, result, cancelled, runs, main>>

WorkerExit(w) ==
  /\ At(w, "exiting")
  /\ mMutex' = Nobody
  /\ Goto(w, "exited")
  /\ UNCHANGED <<pool, deque, locals, tasks, main, crashed>>

Worker(w) ==
  \/ WorkerInit(w) \/ WorkerCheck(w) \/ WorkerFront(w) \/ WorkerPopRead(w)
  \/ WorkerPopWrite(w) \/ WorkerRun(w) \/ WorkerDone(w) \/ WorkerExit(w)

-----------------------------------------------------------------------------
(* addTask and deleteTask, called by any client between start() and the     *)
(* runner's destruction.                                                    *)

Destroying == todo = <<>> \/ (Len(todo) = 1 /\ pc[Main] # "idle")
MayCall == ~Destroying /\ Head(todo) # "start"

ClientCall(c, t) ==
  /\ At(c, "idle")
  /\ MayCall
  /\ \/ result[t] = "none" /\ (\A d \in Clients : call[d] # t) /\ Goto(c, "add")
     \/ result[t] = "ok" /\ t \notin cancelled /\ Goto(c, "delete")
  /\ call' = [call EXCEPT ![c] = t]
  /\ UNCHANGED <<mMutex, pool, deque, task, cur, tasks, main, crashed>>

FullAtLimit == OverLimit(mMaxTaskSize - 1)
Full == OverLimit(mMaxTaskSize)

\* The two tests, in the code's order; on an error the call unlocks and returns.
AddTaskReject(c) ==
  /\ At(c, "admit")
  /\ \/ Full /\ result' = [result EXCEPT ![call[c]] = "full"]
     \/ ~Full /\ mDelayCMD # RUNNING /\ result' = [result EXCEPT ![call[c]] = "shutdown"]
  /\ mMutex' = Nobody
  /\ call' = [call EXCEPT ![c] = Null]
  /\ Goto(c, "idle")
  /\ UNCHANGED <<pool, deque, task, cur, cancelled, freed, runs, main, crashed>>

Always(c) == TRUE
InFront(c) == call[c] \in HighPrio

AddTaskAdmit(c) ==
  /\ At(c, "admit")
  /\ ~Full /\ mDelayCMD = RUNNING
  /\ cur' = [cur EXCEPT ![c] = IF InFront(c) THEN start ELSE 0]
  /\ Goto(c, "push")
  /\ UNCHANGED <<mMutex, pool, deque, task, call, tasks, main, crashed>>

\* push_back, or push_front for PRIORITY_HIGH, which writes the cursor it read.
AddTaskPush(c) ==
  /\ At(c, "push")
  /\ \/ ~InFront(c) /\ PutSlot(finish, call[c]) /\ finish' = finish + 1 /\ start' = start
     \/ InFront(c) /\ PutSlot(cur[c] - 1, call[c]) /\ start' = cur[c] - 1 /\ finish' = finish
  /\ cur' = [cur EXCEPT ![c] = 0]
  /\ result' = [result EXCEPT ![call[c]] = "ok"]
  /\ Goto(c, "pushing")
  /\ UNCHANGED <<mMutex, pool, task, call, cancelled, freed, runs, main, crashed>>

AddTaskSignal(c) ==
  /\ At(c, "pushing")
  /\ \E woken \in Signalled : GotoAndWake(c, "idle", woken)
  /\ mMutex' = Nobody
  /\ call' = [call EXCEPT ![c] = Null]
  /\ UNCHANGED <<pool, deque, task, cur, tasks, main, crashed>>

\* The task is only marked; it stays in the queue and is deleted by its worker,
\* perhaps before this write.
DeleteTask(c) ==
  /\ At(c, "cancel")
  /\ cancelled' = cancelled \cup {call[c]}
  /\ crashed' \in Outcomes(call[c] \notin freed)
  /\ mMutex' = Nobody
  /\ call' = [call EXCEPT ![c] = Null]
  /\ Goto(c, "idle")
  /\ UNCHANGED <<pool, deque, task, cur, result, freed, runs, main>>

Client(c) ==
  AddTaskReject(c) \/ AddTaskAdmit(c) \/ AddTaskPush(c) \/ AddTaskSignal(c) \/ DeleteTask(c)

-----------------------------------------------------------------------------
(* start, flush and the destructor, called by Main.                         *)

CommandOf(aCall) == IF aCall = "flush_gracefull" THEN GRACEFULL ELSE NO_WAIT

\* The last call of a plan is the destructor's flush: the owner makes it when
\* no client is inside a call.
MainCall ==
  /\ At(Main, "idle")
  /\ todo # <<>>
  /\ Len(todo) = 1 => \A c \in Clients : pc[c] = "idle"
  /\ index' = 0
  /\ \/ Head(todo) = "start" /\ Goto(Main, "create") /\ flag' = flag
     \/ Head(todo) # "start" /\ Goto(Main, "flush") /\ flag' = CommandOf(Head(todo))
  /\ UNCHANGED <<mMutex, pool, deque, locals, tasks, todo, ptrd, crashed>>

MainReturn == Goto(Main, "idle") /\ todo' = Tail(todo)
Recorded == {mThreadQueue[i] : i \in DOMAIN mThreadQueue}

\* pthread_create: the worker runs from here, before start() records it.
StartCreate(w) ==
  /\ At(Main, "create")
  /\ index < mMaxWorkerSize
  /\ pc[w] \in {"none", "exited"} /\ w \notin Recorded
  /\ pc' = [pc EXCEPT ![Main] = "record", ![w] = "init"]
  /\ ptrd' = w
  /\ UNCHANGED <<mMutex, pool, deque, locals, tasks, todo, flag, index, crashed>>

StartRecord ==
  /\ At(Main, "record")
  /\ mThreadQueue' = Append(mThreadQueue, ptrd)
  /\ index' = index + 1
  /\ ptrd' = Nobody
  /\ Goto(Main, "create")
  /\ UNCHANGED <<mMutex, mDelayCMD, deque, locals, tasks, todo, flag, crashed>>

\* On failure start() flushes what it created and returns -1.
StartLeave ==
  /\ At(Main, "create")
  /\ \/ index < mMaxWorkerSize /\ CreateMayFail
        /\ flag' = NO_WAIT /\ Goto(Main, "flush") /\ todo' = todo
     \/ index >= mMaxWorkerSize /\ MainReturn /\ flag' = flag
  /\ UNCHANGED <<mMutex, pool, deque, locals, tasks, index, ptrd, crashed>>

\* The early return: no unlock.
FlushNoThreads ==
  /\ At(Main, "flushing")
  /\ mThreadQueue = <<>>
  /\ MainReturn
  /\ UNCHANGED <<mMutex, pool, deque, locals, tasks, flag, index, ptrd, crashed>>

SecondThread == 1
FirstThread == 0

\* The command, the broadcast and the unlock.
FlushCommand ==
  /\ At(Main, "flushing")
  /\ mThreadQueue # <<>>
  /\ mDelayCMD' = flag
  /\ GotoAndWake(Main, "join", Broadcast)
  /\ index' = FirstThread
  /\ mMutex' = Nobody
  /\ UNCHANGED <<mThreadQueue, deque, locals, tasks, todo, flag, ptrd, crashed>>

FlushJoin ==
  /\ At(Main, "join")
  /\ index < Len(mThreadQueue)
  /\ pc[mThreadQueue[index + 1]] = "exited"
  /\ index' = index + 1
  /\ UNCHANGED <<mMutex, pool, deque, pc, locals, tasks, todo, flag, ptrd, crashed>>

FlushReturn ==
  /\ At(Main, "join")
  /\ index >= Len(mThreadQueue)
  /\ mThreadQueue' = <<>>
  /\ MainReturn
  /\ UNCHANGED <<mMutex, mDelayCMD, deque, locals, tasks, flag, index, ptrd, crashed>>

Owner ==
  \/ StartRecord \/ StartLeave \/ (\E w \in Workers : StartCreate(w))
  \/ FlushNoThreads \/ FlushCommand \/ FlushJoin \/ FlushReturn

-----------------------------------------------------------------------------
\* The process ends when the owner has made its last call, or has crashed.
Ended ==
  /\ crashed \/ (todo = <<>> /\ pc[Main] = "idle")
  /\ UNCHANGED vars

Next ==
  \/ \E t \in Threads : Lock(t)
  \/ \E w \in Workers : Worker(w) \/ SpuriousWakeup(w)
  \/ \E c \in Clients : Client(c) \/ \E t \in Tasks : ClientCall(c, t)
  \/ MainCall \/ Owner
  \/ Ended

Spec == Init /\ [][Next]_vars

\* A thread that can take a step takes it in the end; nothing obliges a client
\* to make a call, Main to make the next one, or the system to wake a waiting
\* worker spuriously.
Fairness ==
  /\ \A w \in Workers : WF_vars(Worker(w))
  /\ \A c \in Clients : WF_vars(Client(c))
  /\ \A t \in Threads : WF_vars(Lock(t))
  /\ WF_vars(Owner)

FairSpec == Spec /\ Fairness

-----------------------------------------------------------------------------
(* What the runner promises.                                                *)

\* Inside a critical section a thread owns the mutex.
Critical == {"check", "front", "exiting", "admit", "push", "pushing", "cancel", "flushing"}

\* Lines 82-117, 149-183, 189-200 and 208-225: two threads are never inside
\* the code that lock and unlock bracket, whatever the waits, the broadcast,
\* the early returns and the exit path do with the mutex.
MutualExclusion ==
  \A t, u \in Threads : pc[t] \in Critical /\ pc[u] \in Critical => t = u

Alive == {w \in Workers : pc[w] \notin {"none", "exited"}}

\* Lines 230-239: once flush has emptied the vector of threads no worker is
\* left running, not one that was created late, woken late or inside a task;
\* the owner may then free what the tasks use.
NoWorkerLeft ==
  mThreadQueue = <<>> /\ pc[Main] # "record" => Alive = {}

Accepted == {t \in Tasks : result[t] = "ok"}

\* Lines 96-113, with one worker and PRIORITY_FIFO only: a task is handed to
\* doTask at most once, only if addTask took it, and never after its deletion.
RunOnce ==
  /\ \A t \in Tasks : runs[t] <= (IF t \in Accepted THEN 1 ELSE 0)
  /\ \A w \in Workers : task[w] # Null => task[w] \notin freed

\* Line 154 and the constructor's task_size: addTask answers RUNNER_FULL when
\* one task more than task_size waits, never before and never later, although
\* the workers move the cursor behind its back.
FullMeansFull ==
  [][\A t \in Tasks : result[t] # "full" /\ result'[t] = "full"
        => finish - start = TaskSize + 1]_vars

\* Lines 218-239: once the command NO_WAIT stands, every worker has passed line
\* 78 and every endless task has been cancelled, the flush that joins returns,
\* whichever workers were waiting, spinning, popping or inside a task.
NoWaitFlushReturns ==
  (/\ pc[Main] = "join" /\ mDelayCMD = NO_WAIT
   /\ \A w \in Workers : pc[w] # "init"
   /\ Endless \cap Accepted \subseteq cancelled)
     ~> (pc[Main] # "join" \/ crashed)

\* Lines 96-109: with one worker and no endless task, a task that addTask took
\* is run, unless the owner gives an exit command first.
AcceptedTaskRuns ==
  \A t \in Tasks :
    (result[t] = "ok" /\ mDelayCMD = RUNNING)
      ~> (runs[t] > 0 \/ mDelayCMD # RUNNING \/ crashed)
=============================================================================
