# MTStreamPerf in TLA+

MTStreamPerf measures how well a network carries streaming media: tasks that
send and receive test traffic run on a small thread pool, an RTSP client reads
H.264 over one TCP connection, and a server and a second client are built on
the live555 library that the repository carries. This directory holds a TLA+
model of the parts with control logic of their own, the TLC runs that check it,
and theorems that TLAPS proves about it. `PROJECT.json` lists the runs, says
which source lines every definition stands for, and keeps the list of hazards.

Run a check with `tlc -config <name>.cfg <module>` and a proof with
`tlapm <module>.tla`, inside this directory. Paths below are relative to the
repository's `src/`.

## 1. Inventory

| Component | State it keeps | Operations | Where |
|---|---|---|---|
| Thread pool `MTTaskRunner` | deque of tasks, vector of threads, `mDelayCMD`, one mutex, one condition | `start`, `Worker_Loop`, `addTask` (FIFO, HIGH), `deleteTask`, `flush`, destructor | `libMTPerfBase/MTTaskRunner.cpp` |
| Timers package | two lists threaded through `next`/`prev` (scheduled, free), the fields of each `Timer` | `timer_create`, `reset`, `cancel`, `run`, `timeout`, `cleanup`, `destroy` | `libMTPerfBase/PerfBasic/MTTimer.cpp` (and a copy beside `PerfBasic`; `libMTPerfBase.cbp` lists both) |
| UDP test tasks | settings, statistics (`packet_index`, losses, out of order), a buffer, `mCancel` | greeting, loop, `netSend`, `netRecv`, close | `libMTPerfBase/MTPerfTaskUDP.cpp`, `MTPerfTask.cpp` |
| Socket helpers | a process-wide mutex around bind | bind, send, recv, connect, sendfile | `libMTPerfBase/PerfBasic/MTSockUtil.cpp` |
| RTSPClient2: session commands | CSeq, session id, SDP parameters | OPTIONS, DESCRIBE, SETUP, PLAY | `projects/RTSPClient2/MTRtsp.cpp:99-533` |
| RTSPClient2: interleaved reader | a byte buffer with length and offset | `read_pending`, the parsing loop | `MTRtsp.cpp:607-774` |
| RTSPServer, with the server objects of live555 | the table of files, sessions, connections, streams, socket descriptors, the database of streams over TCP | lookup, DESCRIBE, SETUP, PLAY, PAUSE, TEARDOWN, ends of connections, sessions and streams | `projects/RTSPServer`, `libLive555/liveMedia/RTSPServer.cpp`, `GenericMediaServer.cpp`, `OnDemandServerMediaSubsession.cpp`, `RTPInterface.cpp` |
| live555 event loop | the delay queue, the list of socket handlers, the triggers | `SingleStep`, scheduling, handlers on, off and moved, triggers | `libLive555/BasicUsageEnvironment` |
| live555 RTSP client | three queues of requests, one or two sockets, the response buffer | `sendRequest`, connecting, tunnelling over HTTP, matching responses, resending | `libLive555/liveMedia/RTSPClient.cpp` |
| openRTSP | the session, its subsessions and sinks, the iterator, six timers' tokens, `areAlreadyShuttingDown` | the callbacks from OPTIONS to TEARDOWN, timers, ends of streams, BYE, a signal | `projects/RTSPClient/playCommon.cpp` |
| live555 RTP source | packet buffers, the reordering list, flags of the frame under way, extended sequence numbers | read, deliver, drop, stop | `liveMedia/MultiFramedRTPSource.cpp`, `H264VideoRTPSource.cpp`, `FramedSource.cpp`, `RTPSource.cpp` |
| RTSPClient2: RTP, RTCP, streamer | statistics; fields of the last report; a pipe, a socket, a thread | parsing, reports, writing | `MTRtp.cpp`, `MTRtcp.cpp`, `MTStreamer.cpp` |
| Perf-NAL lists | two lists of checksums | add, flush, dump | `PerfBasic/MTPerfUtil.cpp` |
| TCP, HTTP, RTSP tasks | none | `doTask` only logs | `MTPerfTask.cpp:118-140` |
| The rest of live555, checksums, log, clock | | vendored parsers, writers and codecs; or without state | |

How they interact. `main` (projects/MTStreamPerf/main.cpp) makes a runner with
two workers and thirty tasks, starts it, and deletes it. Tasks run on the
pool's worker threads: a task is called through `doTask`, is told to stop
through `mCancel`, and is deleted by the worker that ran it. The UDP server
and client are two such tasks; they meet over the network and in the mutex of
`mt_sock_bind`. The timers package calls its client back from inside
`timer_run`, and the callback may call the package again.

RTSPClient2 is one thread: commands, each one send and one recv, and then the
interleaved reader on the same socket. Whatever a command's recv takes too much
or too little is what the next one starts from.

RTSPServer and openRTSP are programs of one thread around live555's event loop:
everything is a callback of a socket, a trigger or a delayed task. The server's
DESCRIBE runs the loop within a callback, and so may any handler of a response
of the client. openRTSP sends its requests by `RTSPClient`, which calls a
handler with the answer, and receives by `MediaSession`'s sources, of which the
RTP source reads packets in the loop and hands frames to the program.

What is hard about it, and what makes each part correct:

- *Pool*: workers pop without the mutex, wait on the vector of threads instead
  of the queue of tasks, and write the exit command when they start. Correct
  means: the mutex excludes; no task is run twice, after its deletion, or
  without having been accepted; an accepted task is run; a flush returns and
  leaves no worker behind.
- *Timers*: the lists are changed by callbacks while they are walked. Correct
  means: the two lists stay finite, disjoint, sorted and doubly linked; a pass
  calls back exactly the timers that were due, earliest first.
- *UDP test*: datagrams are lost, duplicated, reordered and late; timeouts race
  late answers; one buffer is used for greeting and data. Correct means: no
  counter wraps, no report of more losses than there are, both tasks end.
- *RTSPClient2*: TCP splits answers and frames anywhere, results are not
  looked at, the buffer is compacted in the middle of a frame. Correct means:
  the status looked at is that of the request just sent, no write beyond the
  buffer, and the packets handed on are the packets sent, whole, in order, once.
- *RTSP server*: objects are counted by hand and replaced when a file is looked
  up again, while DESCRIBE calls wait in nested loops; a socket's reading
  changes hands when media is interleaved on it. Correct means: nothing is freed
  while it is held, a closed connection ends its own streams and no others, and
  every connection stays readable.
- *Event loop*: callbacks change the sets that are being walked, the clock is
  set back, loops nest. Correct means: select looks at the sockets that have
  handlers, tasks run when and in the order in which they are due, and nobody
  is starved.
- *RTSP client*: responses come in pieces, pipelined, with others' requests
  resent in between, and connections fail while three queues are filled.
  Correct means: each handler is called once, with its own answer.
- *openRTSP*: globals name what is being set up and which timers run, while
  answers, timers, ends of streams and a signal come in any order. Correct
  means: SETUPs one by one, no timer out of reach, TEARDOWN once, an end.
- *RTP source*: packets are lost, repeated and overtaken; the sequence number
  wraps; the client stops in the middle of a read. Correct means: no packet
  buffer lost or used twice, only whole frames, in order, right statistics, and
  a lost packet does not hold up the others for ever.

## 2. The modules

| Module | Models | Checked by |
|---|---|---|
| `TaskRunner` | the thread pool, thread by thread | `task_runner_pool` |
| `TaskRunnerFifo` | the same with one worker, and its refinement mapping | `task_runner_fifo` |
| `TaskPool` | abstract: what such a pool promises | as a property of `task_runner_fifo` |
| `TimerList` | the timers package, pointer by pointer | `timer_list` |
| `TimerService` | abstract: a set of timers with deadlines | as a property of `timer_list` |
| `UdpTask` | both UDP tasks, the bind mutex and the network | `udp_any_network` |
| `RtspSession` | RTSPClient2's commands and its server | `rtsp_session` |
| `Interleave` | server, TCP stream and interleaved reader | `interleave` |
| `RtspServer` | RTSPServer and the live555 objects it keeps alive | `rtsp_server` |
| `DelayQueue` | live555's delay queue | through `EventLoop` |
| `EventLoop` | live555's event loop; extends `DelayQueue` | `event_loop`, `event_loop_progress` |
| `RequestService` | abstract: what `RTSPClient` promises the program | as a property of `rtsp_client`; used by `OpenRtsp` |
| `RtspClient` | live555's `RTSPClient` | `rtsp_client` |
| `OpenRtsp` | openRTSP, over `RequestService` | `open_rtsp` |
| `RtpSource` | the RTP source for H.264, network and reader | `rtp_source` |
| `PerfBaseProofs` | the theorems about two parts of libMTPerfBase: `UdpTask` and `TimerList` | tlapm |
| `RtspClient2Proofs` | the theorems about two parts of RTSPClient2: `Interleave` and `RtspSession` | tlapm |
| `<M>Proofs` | the theorems about `TaskRunner`, `RtspServer`, `EventLoop` (and `DelayQueue`), `RtspClient`, `OpenRtsp` and `RtpSource` | tlapm |
| `MC<M>` | the constants of the runs | |

`OpenRtsp` and `RtspClient` are composed by way of the specification between
them: `RtspClient` is shown to implement `RequestService`, and `OpenRtsp` takes
its requests' fate from it (`S == INSTANCE RequestService`). `EventLoop` and
`DelayQueue` are composed by extension, and it is proved that every step of the
loop is a step of the queue.

### TaskRunner

`pc[t]` says where each thread is in its function; the other variables are the
runner's fields (`mMutex`, `mDelayCMD`, `mThreadQueue`), the local variables
that live across a point of interference (`task`, `cur`, `call`, `index`,
`ptrd`), and what became of each task. A step ends where another thread can
interfere: at a lock, an unlock, and at every access the code makes *without*
the mutex. These are the accesses that matter:

- line 78: each new worker writes `mDelayCMD` (`WorkerInit`). The field is
  uninitialised before, so `Init` gives it any value;
- line 104: `pop_front` runs after the unlock. The deque is its two cursors,
  and a pop is a read and a write of the first one (`WorkerPopRead`,
  `WorkerPopWrite`), between which `push_front` or another pop may fall. With
  more pops than pushes the first cursor passes the second, and `size()`,
  unsigned, is beyond every bound (`OverLimit`);
- line 132: `start` records a worker that already runs (`StartCreate`,
  `StartRecord`).

`pthread_cond_signal` wakes one waiting worker, `broadcast` all; a wait may
also end by itself (`SpuriousWakeup`). Using or deleting a task that a worker
has deleted is undefined behaviour: `crashed'` is chosen freely, and a crashed
process takes no further step. The owner (`Main`) follows one of the `Plans`:
start, some flushes, the destructor. Clients call `addTask` and `deleteTask`
between start and the destructor, each task once. A task returns at once, or
(if `Endless`) only when cancelled, as the UDP tasks do.

Left out: errors of the pthread lock and condition calls, the thread
attributes, the log. The overload of `addTask` that wraps a function in a task
is the other overload plus an allocation.

### TimerList

The pointers are functions on the Timer structs; `Chain` follows them from a
head. `list_add` and `list_remove` are functions from one list to another,
after the code's loops. `timer_run` is three steps: `RunCall` reads `next` and
enters the callback, in which any allowed operation may happen any number of
times (`CallbackOps` names them, on the running timer or on others), and
`RunReturn` reschedules or cancels and goes on with the remembered `next`.
`Tick` moves the clock at any time, also during a callback. A `timeval` is one
number of microseconds. `due` is a history variable: the timers the pass still
owes a callback.

### UdpTask

One action per call that can block or be overtaken. A datagram is its addressee
and its index (0 is the greeting). `Lose`, `Bounce` (a datagram to a closed
port, which may come back as an error of the sender's next call) and a
datagram that stays in the network after it has been received are the faults;
delay and reordering come with the network being a set. Which of them happen,
the direction and `rand_cnt` are the constant `world` of a behaviour; in a
`prompt` one a receive with a timeout only times out when nothing can come. What the code
does with the bytes is kept: `mt_sock_recv` returns 0 on a timeout, which
`netRecv` does not take for an error; a greeting is nine bytes and data is
twelve, so a duplicate of a greeting is joined with the first bytes of the next
datagram (`RecvHalf`); the index is read from the buffer whatever came, and
after a greeting the buffer reads as `CIPHER_INDEX`. `doTask` clears `mCancel`
when it starts, and `blocks_recv` is also the counter of the sender
(MTPerfTaskUDP.cpp:221); the model does the same.

The socket code is read as it builds on POSIX. Left out: the jitter, the byte
counters (nobody reads them), `netInit` and `netListen` (nobody calls them),
and of the socket helpers those without a caller (`mt_sock_set_nonblocking`
does not compile outside WIN32).

### Interleave

`stream` is what the server has sent and the reader not yet received, `raw` the
received part of the buffer. `Recv` takes any number of bytes that fits.
`BytesAt` says what is read behind the received bytes: zeros inside the array
(the code clears it), anything beyond it. The conditions are the code's: the
buffer is compacted only when full; a rest of one byte is dropped; the length
is compared with an unsigned difference that wraps when the header is not all
there (MTRtsp.cpp:702); `rtp_parse` returns one byte more for a NAL type it has
no case for (MTRtp.cpp:252). `queue`, `wrong` and `upset` are history: the
frames not yet handed on, whether something else was handed on, and whether one
of the four branches that lose the synchronisation was taken.

Left out: whatever PLAY's `recv` took beyond the response (`RtspSession` says
when that is), the RTP header's twelve bytes, the RTCP reports sent back.

### RtspSession

A recv takes any non-empty part of what has come (`RecvAnswer`), and the outcome is
what the code finds in those bytes: the status in the first, the words it
searches for in the rest. The stream is a sequence of pieces (status line,
headers, SDP, sets; head and data of a frame), so that a recv may end in the
middle of an answer. What the code does not look at is not looked at: the
results of SETUP and PLAY, the CSeq; SETUP returns before it counts a request
that was refused; a missing ";" behind the session id, or sets that never came,
run away over memory (`RunsAway`, `Started`). Left out: the connection before
the first command, and authentication, which the client does not have.

### RtspServer

A pointer is the object it points to or `NULL`; deleting an object sets its
entry to `NULL` and leaves the pointers to it. Each request, each end of a
connection, session, stream or file is one action, whole: `SetUp` looks the
file up (which may replace its `ServerMediaSession`), makes the session, its
stream and destinations, and moves the reading of the socket to a descriptor
when media is interleaved. DESCRIBE is two: `Describe` holds the session by its
count and enters the event loop (`loops` is the stack of those calls), and
`DescribeEnd` goes on after it. A socket number that was closed is given to the
next connection. `Moves` are three things a client may do besides the ordinary;
section 3 says which property needs them left out.

Left out: tunnelling over HTTP, REGISTER, authentication; Matroska and Ogg
files, whose lookup itself runs the loop, and the AC3 and DV subsessions, whose
SETUP does; further requests of a client that already waits for its DESCRIBE;
streams of known duration that are kept at the end of their file. OPTIONS and
the PARAMETER commands change none of this state.

### DelayQueue and EventLoop

An entry of `queue` is a task and `fDeltaTimeRemaining`. `lag` is the clock's
distance from `fLastSyncTime`: the queue is brought up to date only when used,
and `SetBack` lets the clock be set back between any two uses. The loops of
`synchronize` and `addEntry` are walked entry by entry (`SyncStep`,
`InsertStep`). `left` is history: the time until each task is really due, as
the queue can know it. The closing entry of 68 years is left out.

`EventLoop` is `SingleStep`: `Top` and `Select`, at most one socket's handler
(starting behind the one served last), one trigger's, and one delayed task
(`Alarm`). In a callback (`phase = "callback"`) the program does anything, any
number of times: schedules, turns handlers on and off, moves them, makes,
deletes and sets triggers, or runs a loop within (`Nest`; `frames` remembers
where to go on). `Interrupted` is select ended by a signal. Left out: writing
and exceptions, which are further bits of the same sets, `updateEntry`, which
nobody calls, and `triggerEvent` from other threads (its `|=` is not atomic,
UsageEnvironment.hh:156 allows it, no program here does it).

### RtspClient

`frames` is the stack of what is under way in the one thread: a loop over a
list of requests, a handler about to be called or running, the parsing of the
response buffer with what it remembers of the last response. Each of the
library's steps is an action on its top; a handler (`Return` ends it) may make
requests and run the loop. `conn`, `tun` and `resp` are the three queues. Of a
response only what changes the client's doing is kept: whose CSeq it has,
whether it is an answer, 401, a redirection, unusable or the GET's, whether it
closes the connection, and whether a body follows that TCP may split off
(`AwaitBody`). The server answers in order, and `Odd` is what else it may do.

`forgot` is history: one of the branches was taken that lose requests. They
are the code's: a reset on a redirect, a 401 to the GET or `Connection: Close`
while others wait; sending again, or a request of the server's own, with bytes
behind it in the buffer; `Connection: Close` before the body has come; a
response that stops the parsing; and a read error while the tunnel's second
connection is pending.

Left out: a response that fills the buffer, malformed CSeq and Content-Length,
`changeResponseHandler`, `grabSocket`, a handler that deletes its client, and
the server that waits for REGISTER.

### OpenRtsp

`pc` is the stack of code that still has to run, empty in the event loop; `opt`
the options that meet. `setupIter`, `subsession`, `madeProgress` and the timers'
tokens are the program's globals; `armed[t]` is how many timers of a kind the
delay queue holds and `named` which kinds the global token names, so that a
timer nobody can cancel is one with `armed` above what `named` says. A request
is told to its handler at any time after it was made, or never. `ready` are the
subsessions that have a receiver and `left` those with a client port, which is
what SETUP asks for: `Chosen` says how the two differ. A receiver that cannot be
made has its port set to zero (MediaSession.cpp:844-846), so that only a
subsession passed over by `-a` or `-v` (`single`) may have a port without one.
A signal is an action of its own, also when `shutdown` is under way (it may stand
in the stack): within `shutdown` it either comes before the test of
`waitForResponseToTEARDOWN` (line 1400), and ends the program as if it had come
before the call, or too late to change anything. `overlap` is history: PLAY was sent while another had no answer. A step that uses what was
freed leads to `"crashed"`.

Left out: the command line, what is written to files, the figures of QOS, and
the start by an incoming REGISTER.

### RtpSource

A packet is its place in the `layout`; buffers are numbered and `heap` is those
that exist, so that a buffer lost or in two places shows. `Read` is the handler
of the socket: it takes a free buffer, fills it, and stores it in the list by
its number or rejects it; `deliver` is `doGetNextFrame1`, one packet a step
(`Reject`, `Drop`, `Use`, `Wait`), which ends in the client's callback at once,
or through a task when it was called from `getNextFrame` (`AfterGetting`).
`young` are the packets not older than the threshold and `Age` makes one old.
`ReadOther` is a packet that is not for this source: a report, whose handler
may stop the source while the buffer is in its hands. Over TCP a packet comes
in pieces (`ReadPart`). A new buffer is a
number that no other buffer has.

What the sender and the network owe: a sequence number is used again only when
all that could be mistaken for its packet is past (`InReach`: nothing under way,
expected or received last is half of the numbers behind); UDP delivers at most
two packets late; and the fragments of a NAL unit follow each other in the
layout (`InFragments`, RFC 6184), with nothing but unreadable packets between.

Left out: payloads longer than the client's buffer, presentation times, jitter,
the contents of reports, and a change of SSRC.

## 3. The runs

| Run | Instance | Distinct states | Shows |
|---|---|---|---|
| `task_runner_fifo` | 1 worker, 2 clients, 3 tasks, task_size 1, start then delete | 65,303 | `RunOnce`, `FullMeansFull`, `AcceptedTaskRuns`, and that the runner implements `TaskPool` |
| `task_runner_pool` | 2 workers, 1 client, a HIGH and an endless task, four plans, `pthread_create` may fail | 1,042,407 | `MutualExclusion`, `NoWorkerLeft`, `NoWaitFlushReturns` |
| `timer_list` | 3 timers (symmetric), delays 0-2, period 1, callbacks that create and reset themselves | 39,781 | `ListsSound`, `AllDueRun`, and that the package implements `TimerService` |
| `udp_any_network` | 3 datagrams, both directions, every fault; 5 datagrams, reverse, loss and reordering | 392,533 | `TypeOK` (no counter wraps), `LossAccounted`, `LossNotOverstated`, `TasksEnd` |
| `rtsp_session` | every answer, up to three frames behind PLAY's, a close at any time | 1,231 | `InStep`, `Progress` |
| `interleave` | 4 frames of 5 kinds, a buffer of 11 bytes | 178,407 | `FramesInOrder`, `FramesArrive` |
| `rtsp_server` | 1 file that comes and goes, 3 `ServerMediaSession`s, 2 sessions, 2 connections, 2 sockets, 2 nested loops (symmetric) | 20,444 | `NoDanglingSession`, `TcpStreamsKnown`, `DescriptorsLive`, `NeverDeaf` |
| `event_loop` | 2 delayed tasks, 2 sockets, a trigger, callbacks that do everything, a nested loop, a clock set back | 2,160,064 | `SelectSeesHandlers`, `DeltasRight`, `AlarmRight`, `AddedLast` |
| `event_loop_progress` | 2 sockets and 2 triggers that compete | 190,976 | `SocketServed`, `TriggerHandled` |
| `rtsp_client` | 2 requests, with and without a tunnel, two oddities of the server of six kinds | 598,509 | `NoneForgotten`, `OwnedOnce`, `Answered`, and that the client implements `RequestService` |
| `open_rtsp` | 2 subsessions, 6 requests, six sets of options | 346,571 | `SetupInTurn`, `OneTimerEach`, `TeardownOnce`, `Ends` |
| `rtp_source` | 3 layouts of 6 packets, numbers modulo 8 that wrap, UDP and TCP, a repeat and a stop | 545,139 | `BuffersSound`, `FramesWhole`, `ExtendedRight`, `KeepsGoing` |

Each property states above its definition which lines it is about. For every
property `PROJECT.json` names a mutant: a slip in one definition (a dropped
guard, an off-by-one, a missing reset) that the run catches. The type invariant
of a module is a theorem, or a conjunct of one of its properties.

What the runs assume, where the code needs it:

- `task_runner_fifo` has one worker and FIFO tasks only (`OneWorker`). With
  two workers, or a HIGH task, `pop_front` removes another element than
  `front()` returned, and `RunOnce` is false;
- `AcceptedTaskRuns` holds for one start; after a restart a task added before
  the new worker waits is signalled too early and stays queued. It promises
  nothing once the owner has flushed;
- `NoWaitFlushReturns` starts when every worker has passed line 78: a worker
  that starts later erases the exit command;
- `timer_list` has callbacks that create timers and reset their own. A callback
  that resets or cancels *other* timers, or cancels its own, breaks the lists
  or the pass (section 5). Delay 0 is included, period 0 is not: with it
  `timer_run` does not end;
- `LossNotOverstated` is about a server that measures, when nothing comes twice
  or after the timeout: the client's buffer holds the greeting when it begins;
- `InStep` holds until a recv has split an answer or a frame (`cut`);
- `FramesInOrder` and `FramesArrive` hold until one of the four named branches
  is taken (`upset`);
- `rtsp_server` has `Moves = {}`. With `"switch"` a stream set up again over UDP
  keeps its old socket in the database (`TcpStreamsKnown`); with `"elsewhere"` a
  PLAY from another connection makes the first one deaf (`NeverDeaf`); with
  `"dropInLoop"` both fail. `NoDanglingSession` holds with all of them;
- `SocketServed` and `TriggerHandled` are about handlers and triggers that have
  stopped changing: one that is turned off and on again enters the list in
  front, and making triggers moves the place where the search begins;
- `NoneForgotten` and `Answered` hold until one of the branches is taken that
  lose requests (`forgot`); with a tunnel, so does the refinement: the response
  to a GET has no CSeq and is taken for the oldest request's
  (RTSPClient.cpp:1760);
- `OneTimerEach` holds until PLAY is sent again before it was answered
  (`overlap`, possible with `-c` only);
- `Ends` is about a session of known duration that is played once; its second
  half has the premise that every request is told (`EveryRequestTold`);
- `FramesWhole` holds until one of two losses is overlooked (`odd`: section 5),
  when the fragments of a unit follow each other (`InFragments`);
- `KeepsGoing` needs something to be received again and again: the threshold
  of the reordering buffer has no timer.

Bounds, and why they are enough. The faults of the pool need two threads inside
one window (one popping, one pushing), a queue that is full (task_size 1 and
three tasks reach one beyond it), and a flush before and after a restart. Three
timers give a list with a first, a middle and a last element besides an empty
free list and one of two; the clock bound `MaxClock` lets a timer be early,
due and overdue within one pass. Five datagrams give a gap, a late
datagram within it, and another gap behind. Three frames behind PLAY's answer
are one that its recv takes whole, one that it splits and one that is left.
Eleven bytes of buffer
hold one frame of the largest kind (seven bytes) and the beginning of another,
so that compaction meets every split; with `Radix` 3 the longest payload has a
high length byte that is not zero and bytes that look like the magic one.

Three `ServerMediaSession`s are one in the table and two replaced ones that are
still held, by the two sessions or by the two DESCRIBE calls in `loops`
(`MaxLoops`); two sockets and two connections let a number be given to the next
client while the first one's streams are still known. One track is enough for
the database, which is by stream; the theorem about sessions has any number.
Delays 0 to 2 with a clock that goes on or back by one (`MaxLag`, `MaxLate`,
`MaxBack`) give entries that are equal, due together and overdue; one nested
loop (`MaxDepth`) lets a callback's change meet a walk outside it. Two requests
can be in different queues of the client, or pipelined in one; `MaxOdd` 2 lets
one be redirected or refused while the other waits, `MaxFrames` 3 is a handler
within the parsing within a handler, and `MaxGets` 2 a tunnel set up again. The
client was also run with three requests, one oddity and three frames
(2,264,562 states). Six requests of openRTSP are DESCRIBE, two SETUPs, PLAY, a
second PLAY and TEARDOWN. Six packets hold a fragmented frame between others, and
with eight sequence numbers starting at 6 they wrap and stay less than half of
the numbers apart, as the code requires of a stream's reordering; `MaxStops` and
`MaxCopies` are one.

The named bounds are those, `RAND_CNT` (the code's `rand_cnt`), `MaxFrames`,
`SessionFrames` and `MaxRequests` of their modules, and the number of tasks;
where the code has the same counters they are larger. `MaxTime` bounds nothing
that happens: it is at least what the clock and two delays come to
(`TimesAssumption`), the latest a timer can be set to, since a callback may reset
its own timer and `timer_run` then adds the period once more; `0..MaxTime` is the
`Times` of `TimerService`.

Fairness.

- Pool: a thread that can take a step takes it in the end (weak fairness per
  worker, client and for the owner), because the threads are run by a preemptive
  scheduler; taking the free mutex is weakly fair too: a thread may be overtaken
  for ever if the mutex is never free when it tries, and no property relies on
  anything better. Nobody is obliged to call `addTask` or to flush.
- UDP: the tasks run and a receive with a timeout returns. The network owes
  nothing: it may lose everything.
- RTSPClient2: the client runs on, receives what has come and parses it; the
  server answers what it is asked, or closes. Nobody is obliged to send frames.
- Event loop: a step of the loop is taken in the end, a callback returns again
  and again (strong, because a callback may do something first each time), and
  time passes. Nothing need arrive, and nobody need set a trigger.
- RTSP client: the library does what it has begun, handlers return, a pending
  connection is made or fails, what has come is received, and the server
  answers what reaches it (or has closed, and the read error is noticed).
- openRTSP: the code runs on, and the session's timer expires (strong, because
  the program does not always return to its event loop at once but does so again
  and again). Nothing is assumed of the server: that a playing of known duration
  comes to TEARDOWN needs no answer. That the program ends does, since it waits
  for TEARDOWN's: there `Ends` has the premise `EveryRequestTold`, which
  `Answered` says of the library but for the branches named `forgot`. Without it
  only a signal ends the program.
- RTP source: a handler that has begun goes on, time passes, the client's
  callback returns, and the event loop comes to the scheduled task and to the
  client's next request between two reads (strong, because it alternates).

`CHECK_DEADLOCK FALSE` stands only where the system really stops: a flush that
never returns (`TaskRunnerPool.cfg`), tasks that have ended or wait in a receive
without a timeout (`UdpTask.cfg`), a program that has exited (`RtspSession.cfg`,
`Interleave.cfg`, `OpenRtsp.cfg`), and a client all of whose requests have been told
(`RtspClient.cfg`).

## 4. What is proved

| Theorem | Says | For every |
|---|---|---|
| `TaskRunnerProofs!TypeCorrect` | `Spec => []TypeOK` | set of workers, clients, tasks and plans, and sizes |
| `TaskRunnerProofs!MutexExcludes` | `Spec => []MutualExclusion` | same |
| `TaskRunnerProofs!FlushLeavesNoWorker` | `Spec => []NoWorkerLeft` | same |
| `TaskRunnerProofs!RunsOnce` | `Spec => []RunOnce`, with one worker and FIFO tasks | set of clients, tasks and plans, and sizes |
| `TaskRunnerProofs!FullIsFull` | `Spec => FullMeansFull`, with one worker, FIFO tasks and `TaskSize \in 1..255` | same but the size |
| `TaskRunnerProofs!PoolImplemented` | `Spec => ImplementsPool` (refinement of `TaskPool`), with one worker and FIFO tasks | same |
| `PerfBaseProofs!TypeCorrect` | `Spec => []TypeOK` (of `UdpTask`) | `rand_cnt`, direction, network |
| `PerfBaseProofs!LossesCovered` | `Spec => []LossAccounted` | same |
| `PerfBaseProofs!ReportCovered` | `Spec => []LossNotOverstated` | same |
| `PerfBaseProofs!ListsAreSound` | `TimersSpec => []ListsSound`, with callbacks that cancel no timer (`NoCancels`) | finite set of timers, set of delays and periods, clock |
| `PerfBaseProofs!DueTimersRun` | `TimersSpec => []AllDueRun`, with callbacks that reset no timer but their own (`OwnTimer`) | same |
| `PerfBaseProofs!ServiceImplemented` | `TimersSpec => ImplementsService` (refinement of `TimerService`), with `OwnTimer` and no period of 0 | same |
| `RtspClient2Proofs!TypeCorrect` | `Spec => []TypeOK` (of `Interleave`): the buffer is not overrun | alphabet, frames, buffer size and split |
| `RtspClient2Proofs!HandsOnFrames` | `Spec => []FramesInOrder` | same |
| `RtspClient2Proofs!ClientInStep` | `SessionSpec => []InStep` | set of answers, number of frames |
| `RtspServerProofs!TypeCorrect` | `Spec => []TypeOK` | number of files, sessions, connections, sockets, tracks, depth of loops, and all `Moves` |
| `RtspServerProofs!NoneDangling` | `Spec => []NoDanglingSession` | same |
| `RtspServerProofs!TcpExact` | `Spec => []TcpStreamsKnown`, with `Moves \subseteq {"elsewhere"}` | number of files, sessions, connections, sockets, tracks, depth of loops |
| `RtspServerProofs!NoDeadDescriptor` | `Spec => []DescriptorsLive`, with the same premise | same |
| `RtspServerProofs!AllHeard` | `Spec => []NeverDeaf`, with `Moves = {}` | same |
| `EventLoopProofs!DeltasCorrect` | `QueueSpec => []DeltasRight` | set of tasks and delays, and behaviour of the clock |
| `EventLoopProofs!AddedCorrect` | `QueueSpec => AddedLast` | same |
| `EventLoopProofs!LoopUsesQueue` | every step of the loop is a step of the queue or leaves it alone | set of sockets, triggers, tasks, depth of loops |
| `EventLoopProofs!LoopTypeCorrect` | `Spec => []TypeOK` | same |
| `EventLoopProofs!LoopDeltas`, `LoopAlarm` | `Spec => []DeltasRight`, `Spec => []AlarmRight` | same |
| `EventLoopProofs!SelectSees` | `Spec => []SelectSeesHandlers` | same |
| `RtspClientProofs!Owners` | `Spec => []OwnedOnce` | number of requests, GETs and oddities, depth of loops, with and without a tunnel |
| `RtspClientProofs!LineKept` | `Spec => []PlainInv`: the responses come in the order of the queue, without a tunnel | number of requests and oddities, depth of loops |
| `RtspClientProofs!Promised` | `Spec => ImplementsService` (refinement of `RequestService`), without a tunnel | same |
| `RtspClientProofs!InGoodHands` | `Spec => []NoneForgotten`, without a tunnel | same |
| `OpenRtspProofs!TypeCorrect` | `Spec => []TypeOK` | set of options, number of subsessions and requests |
| `OpenRtspProofs!OneSetup` | `Spec => []SetupInTurn` | same |
| `OpenRtspProofs!OneTimer` | `Spec => []OneTimerEach` | same |
| `OpenRtspProofs!OneTeardown` | `Spec => []TeardownOnce` | same |
| `RtpSourceProofs!TypeCorrect` | `Spec => []TypeOK` | range of sequence numbers, set of streams, number of stops and copies |
| `RtpSourceProofs!BuffersKept` | `Spec => []BuffersSound` | same |
| `RtpSourceProofs!NumbersExtended` | `Spec => []ExtendedRight` | same |
| `RtpSourceProofs!WholeFrames` | `Spec => []FramesWhole`, when every layout is `InFragments` | same |

The only assumptions are the named ones of the modules: the thread names are
distinct, plans are sequences of calls, `CIPHER_INDEX` exceeds `RAND_CNT`, a
frame's length fits its two bytes, the buffer takes the largest frame
(65,539 bytes of 1,000,000 in the code), the names of nothing (`NULL`, `UDP`)
are not names of something, session ids are finitely many, timers are
finitely many and none of them `NULL`, delays, periods and the clock's bound are
natural numbers, no timer's time exceeds `MaxTime`, the answers are of the
modelled kinds, the loop's own task is a task, the range of sequence numbers is even
and more than 6 (a packet is up to three behind the expected one, which must be
less than half of it; 65,536 in the code),
a stream's packets are of the modelled kinds, and `NULL` is no number.

The premises of the timers' theorems are about the callbacks, which are the
client's code. The one client there is, `MTPerfTaskQOS`, has a callback that
sets a flag (MTPerfTaskQOS.cpp:9) and timers of three seconds that are not
periodic (29), so it meets all of them. The model's callbacks do more, and the
premises leave out only what the package does not withstand (section 5): a
callback that cancels a timer puts it on two lists or has it called back from
the free list, one that resets the timer remembered as `next` moves the walk
past timers that are due, and a pass over a period of 0 does not end. With
`reset_other` the lists stay sound all the same, and `ListsAreSound` says so.

- *Thread pool.* `IInv` is `TypeInv /\ OwnerInv /\ JoinInv`. `TypeOK` alone is
  not inductive: a worker past `front()` must hold a task, a client inside a
  call its argument (`LocalInv`). `MutualExclusion` follows from `OwnerInv`,
  that a thread in a critical section holds the mutex. `NoWorkerLeft` needs
  `JoinInv`: a living worker is recorded or about to be recorded, and the
  workers that flush has passed in its loop have exited and stay so.
- *Thread pool with one worker.* `OneInv` adds `FifoInv` and `AddingInv`.
  `FifoInv` ties the three places a task can be to one another: the slots of
  the deque are the accepted tasks in order, the worker has taken the first
  ones and holds the last of these, and it has deleted the others. What it says
  of `"front"` and `"popping"` is the reason why the unlocked `pop_front` is
  harmless: nobody else moves the start cursor, so what the worker has read
  outside the mutex is still so. `AddingInv` is needed for the clients: a task
  being added is new and is one client's, and the queue is not longer than it
  was when the client tested it; `LengthInv`, that the queue holds one task more
  than `mMaxTaskSize` at most, follows from it. Every step but eight leaves both alone
  (`StillOrMoves`), and the same split gives the refinement: a push is `Accept`,
  `front()` is `Take`, the deletion is `Finish`, and all else stutters.
- *UDP.* `LossAccounted` is inductive with the type invariant and `SendInv`, a
  budget of the sender: its index and the iterations left never exceed
  `rand_cnt`. `SendInv` is what bounds the indexes on the network, and so the
  type of `network`. Each received datagram keeps the sum of losses and
  datagrams counted below the index, whether it is ahead, late or stale.
  `LossNotOverstated` needs `CalmInv`, which follows the session from its
  greeting: until the server has sent the first datagram the greeting is alone
  on the network, and it is gone before the server receives, so it is never
  taken for a datagram; the datagrams under way have not been received, and all
  have been sent; and the losses counted are no more than the gaps below the
  index (`LossNotOverstated` is about the server that receives).
- *Timers.* `Chain` follows the pointers by a function that is recursive over
  the number of steps, and the prover has no induction to open it with. It is
  opened by `ChainIs`: when the pointers lead from the head through a sequence
  `a` without repetition (`IsChain`), `Chain` is `a`, since the least step at
  which it differed (`LeastNumber`, from the well-foundedness of `<`) would come
  after one at which it agreed. From there on the lists are sequences, and the
  lemmas say what the code's loops make of them: `list_add` inserts behind the
  last timer that is not later, `list_remove` deletes, both keep the `prev`
  pointers and the order. `TimersInv` is the type invariant, `Lists` (the two
  lists are apart, hold the heap, and nothing else has a pointer) and `Walk`
  (`timer_run`'s pointers are to active timers): `ListsSound` without `Walk` is
  not inductive, because the callback's return puts a timer back that must still
  be in the list. `PassInv` adds `Ahead`, that what is due is not before the
  timer the walk has come to or remembered, and `Bounded`, that no time exceeds
  `MaxTime`. A reset of the running timer and a new timer go behind
  the timers that are not later, so they put nothing that is due before the walk.
  In the refinement a creation is `Schedule`, a reset `Reset`, a cancellation
  `Cancel`, `timer_destroy` `Clear`, `RunBegin` `Begin`, `RunCall` `CallBack`,
  `RunReturn` `Return`; `timer_cleanup` stutters, and time passes for the service
  when the clock ticks outside a pass, or at the end of one.
- *Reader.* `IInv` is `TypeOK /\ SyncInv`. `SyncInv` says that, unless upset,
  the bytes owed (in the buffer from `raw_offset` on, then in the stream)
  divide into the wire forms of the frames in `queue`: there are cut points
  `start[1..]` such that the bytes between two of them are one frame
  (`Divides`). Numbering them from `raw_offset` makes the invariant immune to
  compaction. One lemma per action moves the cut points: `SendDivides` adds
  one, `RecvDivides` keeps them, `HandDivides` takes the first one off.
- *RTSPClient2's session.* `StepInv` adds to `InStep` what makes it inductive
  (`Awaiting`): while the client waits, either its one request is on the way and
  nothing else is, or the server has read it and all that is on the way belongs
  to it, the first piece being a status line or a frame's head and, before PLAY,
  the only one of that kind. So what a recv takes without splitting it is one
  answer, and what it leaves begins where a frame does. The media comes with
  PLAY only (`playing => at = 4`), and `cseq < at` gives the type of `cseq`:
  SETUP does not count a request that was refused.
- *RTSP server.* `IInv` adds to `TypeOK` that the table's entries exist and have
  their file's name (`TableSound`), that every count is the number of holders
  (`Counted`), and that the connections whose DESCRIBE waits exist
  (`LoopsLive`). The work is in the lemmas on counting: a lookup and a removal
  keep the counts right (`LookupKeeps`), and so does ending a set of sessions at
  once, as closing a connection does (`UsesCounted`). The streams over TCP have
  an invariant of their own: `LinkInv` says that each connection has an open
  socket of its own (`Wired`), that a stream's destination is the one its SETUP
  chose (`Placed`), that a socket's entries in the database are the streams that
  run over it (`Noted`), and `DescriptorsLive`. It holds as long as a track is not set up again over
  the other transport; TLC shows each excluded move to break it. `HearInv` adds
  who reads a socket: the connection, or its descriptor, which hands the bytes
  on to it (`ReadRight`). That needs a session to stay on its connection, since a descriptor
  knows only the connection that set it up.
- *Delay queue.* A walk brings the queue up to date in the middle of its list,
  so `DeltasRight`, which is about the queue at rest, is not inductive. The
  invariant says of each point of a walk what the deltas before and behind it
  are, in terms of `left`, `gone` and `rest`; that the list is in the order of
  `left` throughout; and what an operation has come to. `AlarmRight` and
  `AddedLast` follow from it.
- *Event loop.* `LoopUsesQueue` is a refinement by the same variables: every
  step of the loop, its callbacks included, satisfies `[QueueNext]_qvars`, so
  the queue's theorems hold in it. `SelectSeesHandlers` needs its own invariant:
  the set `readSet`, cut off at `maxNum`, is the set of the list.
- *RTSP client.* `OwnInv` treats the three queues and the lists of the frames
  alike: the requests in one of them are different (`Once`), two of them have
  none in common (`Owned`), all are requests that were made and not yet told.
  `OwnedOnce` counts places and is not inductive itself: a frame that is taken
  from the stack must be known to have held what it hands on (`Filled`).
  `PlainInv` is about a client without a tunnel. It puts the buffer, the wire
  and the questions on their way into one sequence, `Line`, and says that what
  is due in it has its record in `fRequestsAwaitingResponse`, in the same order
  and with its own number; that a number is one request's; and that a request
  is unanswered as long as it is still to be sent. So a response finds its own
  record (`FindsOwn`), unless a higher number stands before it (`astray`), and
  each step is one of `RequestService` (`MakeServes`, `ReplyServes`,
  `CallServes`). `WayInv` adds that a request which is owed a call is in the
  hands of a frame, waits for a connection that is pending, or is due in the
  line, and that a body comes right behind its header: without that, taking a
  header with its body off the line might take another's response along.
- *openRTSP.* `IInv` is `TypeOK /\ Ordered /\ Control /\ Closing /\ Single`.
  `Ordered` gives every entry of the stack `pc` a rank and says that they
  descend: it bounds what can still run behind an entry. `Control` says that
  setting up has one place: either a DESCRIBE or one SETUP awaits its response,
  or `"setup"` is on the stack, or it is over. `Closing` ties
  `areAlreadyShuttingDown` to the TEARDOWN that was made and to the ways of the
  program to end. `Single` says that, unless PLAY overlapped, whoever will arm
  a timer is the only one that will and that timer is not armed. The lemmas
  say what each kind of step keeps of a part (`SetupStays`, `PlayingStays`,
  `ClosingStays`, `SingleStays`), so that an action's proof names only what it
  disturbs.
- *RTP source.* `IInv` is `Control /\ Queue /\ MemoryInv`. `MemoryInv` says that
  the buffers of the list, of the read in progress and of the report's handler
  are apart, and that with a free kept buffer they are the heap (`Accounted`);
  one lemma for each operation on the buffers (`GetAccounts`, `FreeAccounts`,
  `EmptiedAccounts`) says what it does to that account. `Queue` adds that no
  packet is in the list twice: that `storePacket` rejects a duplicate wherever
  it is (`PlaceIs`) is why. `Control` says that a report is in hand just while
  its handler runs. `ExtendedRight` follows from `Received`: the highest and the
  base number are, by a multiple of the range, the first number plus the place of
  the last and the first packet received. The lemmas on remainders show that,
  when the places differ by less than half of the range, the code's comparison
  of two 16-bit numbers decides as the places do. `FramesWhole` has the longest
  argument (`FrameInv`, checked by TLC first). `Position(e)` says that the
  expected number is that of packet `e`, that the list is in the order of the
  stream behind `e`, that only its head can be used in part, and that over TCP
  all that is under way comes behind it: so the code's 16-bit insertion
  (`InsertSorted`) and its test for the next packet decide by places. Unless a
  loss was overlooked (`odd`), `Assembled(e)` adds that the flags are those of
  the last readable packet before `e` (or still fresh, or those an aggregate's
  first half leaves), that an unfinished unit in `got` is `Partial`, that is
  holds every fragment from its start up to `e`, and that what has been told is
  whole and in order. One lemma per action keeps them; `Looked` says what
  `processSpecialHeader` makes of the flags, `Used` what a part adds to `got`.
  The attempt found two gaps in what the model said of its environment, since
  closed: with numbers modulo 6 a packet three behind the expected one counts
  as one ahead (hence `Half > 3`), and a sender that runs ahead while nothing is
  read yet lets two packets under way share a number (the first conjunct of
  `InReach`).

Only model-checked: everything about liveness (TLAPS has no ENABLED); and, for a
pool with several workers or an RTSP client with a tunnel, what the theorems
above have a premise for. Every other invariant, action property and refinement
that a run checks is stated by a theorem. What an operator computes by
recursion over its data is out of the prover's reach unless, as for
`TimerList`'s `Chain`, an argument by the least counterexample will do, and so
are modules with RECURSIVE operators.

## 5. Where the code and its documents disagree

Met while modelling. The models take these steps as the code does; the
properties have a premise where one of them would break them.

Thread pool:

- MTTaskRunner.cpp:86: a worker waits while the vector of *threads* is empty, and
  `start` pushes to it (132) without a signal. A task added meanwhile stays
  queued until some later call signals (README.md:20-22: a task added is run).
- MTTaskRunner.cpp:78: a worker that starts late sets `mDelayCMD` to RUNNING,
  without the mutex, and erases the exit command a flush has given; the flush
  joins for ever (230, "Join all worker thread").
- MTTaskRunner.cpp:154 tests `size() > mMaxTaskSize`, so the queue takes one
  task more than the constructor was told.
- MTTaskRunner.cpp:36: `task_size` is kept in a `uint8_t`; 256 becomes 0,
  although `MAX_QUEUE` allows 65536 (`FullIsFull` is about a size from 1 to 255).
- MTTaskRunner.cpp:159: `mDelayCMD` is uninitialised until a worker runs, so
  `addTask` may answer RUNNER_SHUTDOWN when nothing shuts down.
- MTTaskRunner.cpp:104: two workers can take the same front element, and the
  second pop removes another task or goes past the end.
- MTTaskRunner.cpp:90: a graceful flush never returns; the workers wait for the
  vector of threads to be cleared, which happens after they are joined.
- MTTaskRunner.cpp:213: `flush` without threads returns with the mutex held; the
  destructor then blocks on it (after a failed `start`, or a second flush).

Timers:

- MTTimer.cpp:180: `next` is remembered before the callback. When the callback
  cancels that timer it is called back from the free list (MTTimer.h:83:
  "Deschedule a timer."); when it resets it, timers that are due are missed.
- MTTimer.cpp:194: `timer_run` does not look whether the callback cancelled its
  own timer: it is then on both lists, or freed twice.
- MTTimer.cpp:191: a periodic timer with period 0, which `timer_create` accepts,
  is due again at once, and the pass does not end.

UDP test and socket helpers:

- MTPerfTaskUDP.cpp:277: after a good greeting, bytes 8 to 11 of the buffer are
  '9',0,0,0; a timeout of the first `netRecv` reads them as an index and counts
  956,301,310 losses, though none was lost (275: "There's a gap so count that as
  a loss.").
- MTSockUtil.cpp:342: a failed bind keeps the mutex; no later bind returns.
- MTPerfTaskUDP.cpp:245 and 187: a timed-out receive returns 0, which counts as
  a datagram, and as a good reply.
- MTPerfTaskUDP.cpp:272-291: the index is incremented before it is compared, so
  a gap of n counts n - 1 losses, and the datagram right behind the latest one
  counts as out of order.
- MTPerfTaskUDP.cpp:331: `doTask` clears `mCancel`, and with it a cancellation
  given while the task was queued.
- MTPerfTaskUDP.cpp:316: the jitter's difference is unsigned and wraps.

RTSPClient2:

- MTRtsp.cpp:698: for a frame without payload the reader sets `raw_offset` back
  and parses the same header after every recv until the buffer is full and the
  client exits (695: "If no payload exists, continue with next bytes").
- MTRtsp.cpp:218 and 231: DESCRIBE without sprop sets, or refused, returns 0, and
  the loop goes on with an uninitialised pointer (535: "H264 Parameters, taken
  from the SDP output").
- MTRtp.cpp:119: a packet shorter than twelve bytes wraps `paysize`.

RTSP server:

- RTSPServer.cpp:1270: SETUP answers 400 when the lookup returns another object
  than the session's. The comment there takes it for a client that asks for
  another stream, but DynamicRTSPServer.cpp:65-70 replaces the object whenever
  any client describes the file or begins a session, so another client's
  DESCRIBE between the SETUPs of two tracks makes the second one bad.
- GenericMediaServer.cpp:49: `removeServerMediaSession` removes by name. When the
  last holder of a replaced session leaves (277, RTSPServer.cpp:376), the newer
  session of that name goes out of the table in its place, without the mark
  that lets its own last holder delete it (GenericMediaServer.hh:46-48 speaks of
  the object that is passed).

Event loop:

- BasicTaskScheduler.cpp:132, "To ensure forward progress through the handlers":
  a handler turned off and on again goes to the front of the list and can keep
  the last one waiting; and with three triggers, of which some are made and
  deleted all the time, one can wait for ever. With a granularity of 0 no tick
  wakes the loop for a trigger.

RTSP client:

- RTSPClient.cpp:453, "(and we're not already doing it, or have done it)": a
  second request made while a tunnel is being set up sends a second GET.
- RTSPClient.cpp:1760: a response without CSeq, as a GET's is, goes to the
  oldest request that waits, after a reset a stale one.
- RTSPClient.cpp:1486-1488: requests put back behind a tunnel can be sent round
  again when a handler's nested loop resets it meanwhile.
- RTSPClient.cpp:1709-1711, "No handler was registered for this response, so
  ignore it.": the records are taken for ordered by CSeq, but they need not be.
  Two requests wait for the connection; sending the first fails, and its
  handler makes two more, which are sent before the second: the queue then is
  4, 5, 3. When the server leaves out 4 and 5 and answers 3, the record of 4 is
  dropped for its higher number, and since no record was found the code for
  responses without CSeq (1759-1761) gives the answer to 5. This is `astray`; it
  takes four requests, more than `rtsp_client` has.
- A request of the server behind a response is answered by 405 once more for the
  same bytes, whose number is that of the response before.
- `connectionHandler1` asks the input socket for an error also when it is the
  tunnel's second connection that was pending; a GET's response that comes
  after a reset opens an output socket without an input socket; and a read error
  while the second connection is pending leaves `fRequestsAwaitingConnection`
  filled for ever.

openRTSP:

- playCommon.cpp:1428, "to ensure that we end, even if the server does not
  respond to our TEARDOWN": when the program already shuts down, a signal
  returns (1379), and a TEARDOWN that is not answered keeps it for ever.
- `shutdown` returns while TEARDOWN waits, and its callers go on: PLAY is sent
  after TEARDOWN when nothing was set up or no file made, and a composite file
  that was not opened is dereferenced.
- With `-c`, a second end of the session before PLAY is answered leaves timers
  no token names; the periodic rotation has stopped, and sinks are not made
  again; the check for gaps closes the session at once on the second PLAY.
- With `-P`, the rotation opens sinks of streams that have ended, so a session
  does not end by its BYEs. `-o` always exits with code 1. `qosRecordHead` is
  freed and not reset.

RTP source:

- MultiFramedRTPSource.cpp:155-158: a packet whose header is rejected takes the
  note of a loss before it along, and a frame that lacks a part is delivered.
- H264VideoRTPSource.cpp:76-79: an aggregate behind a fragmented NAL unit whose
  end was lost keeps that unit's flags, and its NAL units are delivered joined
  (against "Forget any data that we used from it", 161-165).
- RTPSource.cpp and the reordering compare numbers modulo 2^16: after an outage,
  or with a queue, of 0x8000 packets newer ones look old.
- MultiFramedRTPSource.cpp:308-313: a change of SSRC with packets queued can break
  the assumption (601) that no queued number is before the expected one.

## 6. Not modelled, and why

- The rest of live555: the parsers and writers of containers, the framers,
  payload formats and codecs' tables translate data and have little control of
  their own; SIP, RTCP's timing and groupsock are not on the way of the three
  programs' logic that the modules follow. They are most of the repository's
  lines: what the map covers is the programs' own logic and the parts of the
  library that carry it.
- TCP, HTTP and RTSP tasks: their bodies are log lines.
- MD5, CRC, base64, the log and the clock: stateless, or published algorithms.
- The streamer: the call that creates its pipe is commented out
  (MTStreamer.cpp:93), so both its ends are file descriptor 0, whatever that is.
- RTSPClient2's statistics and depacketising: what one packet writes depends on
  that packet and two bytes, and the statistics are only printed; the same job
  with reordering and loss is `RtpSource`. Its RTCP keeps nothing between packets.
- Perf-NAL lists: nothing calls them (main.cpp:49-51 is commented out).
- In the modelled components: what each subsection of section 2 lists as left
  out.

## 7. Plan

1. Proofs: the client's theorems with a tunnel.
2. `RtspServer`: tunnelling over HTTP, whose second connection takes over the
   first one's socket, and the lookups that run the loop.
3. `RtpSource`: a change of SSRC, and the source's RTCP instance with its
   timer and BYE, which `OpenRtsp` takes as events now.
4. `EventLoop` under `RtspServer` and `OpenRtsp`: the fairness these assume,
   derived from `SocketServed` and `AlarmRight`.
