------------------------------- MODULE UdpTask ------------------------------
(***************************************************************************)
(* The UDP performance test (src/libMTPerfBase/MTPerfTaskUDP.cpp): a server *)
(* task and a client task greet each other with one datagram each way, then *)
(* one of them (the server, unless the settings say reverse) sends          *)
(* rand_cnt numbered datagrams and the other receives as often and keeps    *)
(* the statistics.  Both bind their sockets under the process-wide mutex of *)
(* PerfBasic/MTSockUtil.cpp.  The network may lose, duplicate, reorder and  *)
(* delay datagrams; a datagram sent to a port nobody has open may come back *)
(* as an error of the sender's next call.  Byte counters, jitter and the    *)
(* buffer sizes are left out.                                               *)
(***************************************************************************)
EXTENDS Integers, FiniteSets

CONSTANTS
  Server, Client,
  Nobody,
  RAND_CNT,      \* the largest rand_cnt of the settings: datagrams per test
  CIPHER_INDEX,  \* what the bytes of the greeting give when read as an index
  Worlds         \* the settings and surroundings to look at

Tasks == {Server, Client}
Greeting == 0
Indexes == 1..RAND_CNT

ASSUME TasksAssumption == Server # Client /\ Nobody \notin Tasks
ASSUME CountAssumption == RAND_CNT \in Nat /\ CIPHER_INDEX \in Nat /\ CIPHER_INDEX > RAND_CNT

\* The settings reverse and rand_cnt; whether the network may lose a datagram, and
\* deliver one again; whether everything that happens at all happens within the
\* three seconds of SO_RCVTIMEO; whether the socket calls of the set-up may fail.
World == [reverse : BOOLEAN, rand_cnt : 0..RAND_CNT,
          lossy : BOOLEAN, duplicating : BOOLEAN, prompt : BOOLEAN, mayFail : BOOLEAN]
ASSUME WorldAssumption == Worlds \subseteq World

VARIABLES
  world,         \* the settings and surroundings
  rand_cnt,
  pc,            \* where each task is in doTask
  m_sock_mutex,  \* the holder of the mutex in mt_sock_bind
  network,       \* datagrams under way
  refused,       \* the socket has an error to report
  half,          \* mt_sock_recv has nine of its twelve bytes
  buffer,        \* the index field of mTsBuffer
  stats,         \* mTaskStats
  mCancel,
  received       \* the indexes netRecv has got (history)

vars == <<world, rand_cnt, pc, m_sock_mutex, network, refused, half, buffer, stats,
          mCancel, received>>

Peer(t) == IF t = Server THEN Client ELSE Server
Sends(t) == IF world.reverse THEN t = Client ELSE t = Server
Open(t) == pc[t] \notin {"idle", "bind", "done"}
Datagram == [to : Tasks, index : {Greeting} \cup Indexes]
To(t) == {m \in network : m.to = t}

Stats == [packet_index : Nat, blocks_recv : Nat, packet_cnt_outorder : Nat,
          packet_cnt_error : Nat]

\* The counters never go below zero, where uint32_t would wrap.
TypeOK ==
  /\ world \in World
  /\ rand_cnt \in [Tasks -> 0..RAND_CNT]
  /\ pc \in [Tasks -> {"idle", "bind", "greet", "reply", "loop", "io", "close", "done"}]
  /\ m_sock_mutex \in Tasks \cup {Nobody}
  /\ network \subseteq Datagram
  /\ refused \in [Tasks -> BOOLEAN] /\ half \in [Tasks -> BOOLEAN]
  /\ buffer \in [Tasks -> Nat]
  /\ stats \in [Tasks -> Stats]
  /\ mCancel \in [Tasks -> BOOLEAN]
  /\ received \in [Tasks -> SUBSET Indexes]

Init ==
  /\ world \in Worlds
  /\ rand_cnt = [t \in Tasks |-> world.rand_cnt]
  /\ pc = [t \in Tasks |-> "idle"]
  /\ m_sock_mutex = Nobody
  /\ network = {}
  /\ refused = [t \in Tasks |-> FALSE] /\ half = [t \in Tasks |-> FALSE]
  /\ buffer = [t \in Tasks |-> 0]
  /\ stats = [t \in Tasks |-> [packet_index |-> 0, blocks_recv |-> 0,
                               packet_cnt_outorder |-> 0, packet_cnt_error |-> 0]]
  /\ mCancel = [t \in Tasks |-> FALSE]
  /\ received = [t \in Tasks |-> {}]

At(t, where) == pc[t] = where
Goto(t, where) == pc' = [pc EXCEPT ![t] = where]

-----------------------------------------------------------------------------
(* The socket calls.                                                        *)

\* One datagram is taken off the socket, or a copy of it stays under way.
Take(m, rest) ==
  /\ m \in network
  /\ rest \in {network \ {m}} \cup (IF world.duplicating THEN {network} ELSE {})

\* Nothing more can come before the timeout: nothing is under way and the peer
\* is not about to send.
Quiet(t) ==
  /\ network = {}
  /\ \/ At(Peer(t), "done")
     \/ At(Peer(t), "bind") /\ m_sock_mutex # Nobody
     \/ At(Peer(t), "greet") /\ Peer(t) = Server
     \/ At(Peer(t), "io") /\ ~Sends(Peer(t))

\* Only netConnect sets SO_RCVTIMEO.
NoTimeout(t) == FALSE
HasTimeout(t) == t = Client
TimesOut(t) == HasTimeout(t) /\ (world.prompt => Quiet(t))

\* A failed bind returns without unlocking.
MutexAfterError(t) == t

Bind(t) ==
  /\ At(t, "bind")
  /\ m_sock_mutex = Nobody
  /\ \/ Goto(t, "greet") /\ m_sock_mutex' = Nobody
     \/ world.mayFail /\ Goto(t, "close") /\ m_sock_mutex' = MutexAfterError(t)
  /\ UNCHANGED <<world, rand_cnt, network, refused, half, buffer, stats, mCancel, received>>

-----------------------------------------------------------------------------
(* The greeting: netConnect and netAccept.                                  *)

netConnectSend ==
  /\ At(Client, "greet")
  /\ network' = network \cup {[to |-> Server, index |-> Greeting]}
  /\ Goto(Client, "reply")
  /\ UNCHANGED <<world, rand_cnt, m_sock_mutex, refused, half, buffer, stats, mCancel, received>>

\* Whatever comes fills the nine bytes; a timeout gives zero bytes, which is
\* not an error.  The buffer was zeroed before.
netConnectReply ==
  /\ At(Client, "reply")
  /\ \/ /\ \E m \in To(Client) :
             /\ Take(m, network')
             /\ buffer' = [buffer EXCEPT ![Client] =
                             IF m.index = Greeting THEN CIPHER_INDEX ELSE 0]
        /\ Goto(Client, "loop") /\ refused' = refused
     \/ /\ TimesOut(Client)
        /\ buffer' = [buffer EXCEPT ![Client] = 0]
        /\ Goto(Client, "loop") /\ UNCHANGED <<network, refused>>
     \/ /\ refused[Client]
        /\ refused' = [refused EXCEPT ![Client] = FALSE]
        /\ Goto(Client, "close") /\ UNCHANGED <<network, buffer>>
  /\ UNCHANGED <<world, rand_cnt, m_sock_mutex, half, stats, mCancel, received>>

\* The server takes the first datagram for the greeting, whatever it is.
netAccept ==
  /\ At(Server, "greet")
  /\ \E m \in To(Server), rest \in SUBSET network :
       /\ Take(m, rest)
       /\ network' = rest \cup {[to |-> Client, index |-> Greeting]}
  /\ buffer' = [buffer EXCEPT ![Server] = CIPHER_INDEX]
  /\ Goto(Server, "loop")
  /\ UNCHANGED <<world, rand_cnt, m_sock_mutex, refused, half, stats, mCancel, received>>

\* The calls of the set-up that may fail: resolving, connecting, buffer sizes.
SetUpFails(t) ==
  /\ world.mayFail
  /\ At(t, "greet")
  /\ Goto(t, "close")
  /\ UNCHANGED <<world, rand_cnt, m_sock_mutex, network, refused, half, buffer, stats,
                 mCancel, received>>

-----------------------------------------------------------------------------
(* The loop of doTask.                                                      *)

\* doTask forgets a cancellation that came before it.
Start(t) ==
  /\ At(t, "idle")
  /\ mCancel' = [mCancel EXCEPT ![t] = FALSE]
  /\ Goto(t, "bind")
  /\ UNCHANGED <<world, rand_cnt, m_sock_mutex, network, refused, half, buffer, stats, received>>

Iterate(t) ==
  /\ At(t, "loop")
  /\ IF ~mCancel[t] /\ rand_cnt[t] > 0
     THEN rand_cnt' = [rand_cnt EXCEPT ![t] = @ - 1] /\ Goto(t, "io")
     ELSE rand_cnt' = rand_cnt /\ Goto(t, "close")
  /\ UNCHANGED <<world, m_sock_mutex, network, refused, half, buffer, stats, mCancel, received>>

\* The index is taken back when the send fails; a good send is counted in
\* blocks_recv.
netSend(t) ==
  /\ At(t, "io") /\ Sends(t)
  /\ LET index == stats[t].packet_index + 1
     IN  /\ buffer' = [buffer EXCEPT ![t] = index]
         /\ IF refused[t]
            THEN /\ refused' = [refused EXCEPT ![t] = FALSE]
                 /\ Goto(t, "close") /\ UNCHANGED <<network, stats>>
            ELSE /\ network' = network \cup {[to |-> Peer(t), index |-> index]}
                 /\ stats' = [stats EXCEPT ![t].packet_index = index, ![t].blocks_recv = @ + 1]
                 /\ Goto(t, "loop") /\ refused' = refused
  /\ UNCHANGED <<world, rand_cnt, m_sock_mutex, half, mCancel, received>>

Counted(s) == [s EXCEPT !.blocks_recv = @ + 1, !.packet_index = @ + 1]

NotOffset(n) == n
BelowZero(n) == n - 1
Offset(n) == IF n > 0 THEN n - 1 ELSE n

StillBehind(i, index) == i
Advanced(i, index) == index

\* The comparison of the index received with the one expected.
Sequenced(s, index) ==
  IF index >= s.packet_index + 1
  THEN [s EXCEPT !.packet_cnt_error = @ + (index - 1) - s.packet_index,
                 !.packet_index = Advanced(@, index)]
  ELSE [s EXCEPT !.packet_cnt_outorder = @ + 1, !.packet_cnt_error = Offset(@)]

\* netRecv after mt_sock_recv: the index is read from the buffer however many
\* bytes came.
Account(t, index) ==
  /\ buffer' = [buffer EXCEPT ![t] = index]
  /\ stats' = [stats EXCEPT ![t] = Sequenced(Counted(@), index)]
  /\ half' = [half EXCEPT ![t] = FALSE]
  /\ Goto(t, "loop")

\* mt_sock_recv wants twelve bytes: after the nine of a greeting it takes the
\* first three of the next datagram.
RecvHalf(t) ==
  /\ At(t, "io") /\ ~Sends(t) /\ ~half[t]
  /\ \E m \in To(t) : m.index = Greeting /\ Take(m, network')
  /\ half' = [half EXCEPT ![t] = TRUE]
  /\ UNCHANGED <<world, rand_cnt, pc, m_sock_mutex, refused, buffer, stats, mCancel, received>>

netRecv(t) ==
  /\ At(t, "io") /\ ~Sends(t)
  /\ \/ /\ ~half[t]
        /\ \E m \in To(t) : /\ m.index # Greeting /\ Take(m, network')
                            /\ Account(t, m.index)
                            /\ received' = [received EXCEPT ![t] = @ \cup {m.index}]
        /\ refused' = refused
     \/ /\ half[t]
        /\ \E m \in To(t) : Take(m, network')
        /\ Account(t, CIPHER_INDEX)
        /\ UNCHANGED <<refused, received>>
     \/ /\ TimesOut(t)
        /\ Account(t, IF half[t] THEN CIPHER_INDEX ELSE buffer[t])
        /\ UNCHANGED <<network, refused, received>>
     \/ /\ refused[t]
        /\ refused' = [refused EXCEPT ![t] = FALSE]
        /\ Goto(t, "close") /\ UNCHANGED <<network, half, buffer, stats, received>>
  /\ UNCHANGED <<world, rand_cnt, m_sock_mutex, mCancel>>

Close(t) ==
  /\ At(t, "close")
  /\ mCancel' = [mCancel EXCEPT ![t] = TRUE]
  /\ refused' = [refused EXCEPT ![t] = FALSE]
  /\ Goto(t, "done")
  /\ UNCHANGED <<world, rand_cnt, m_sock_mutex, network, half, buffer, stats, received>>

Task(t) ==
  \/ Start(t) \/ Bind(t) \/ SetUpFails(t) \/ Iterate(t) \/ netSend(t) \/ RecvHalf(t)
  \/ netRecv(t) \/ Close(t)
  \/ t = Client /\ (netConnectSend \/ netConnectReply)
  \/ t = Server /\ netAccept

-----------------------------------------------------------------------------
(* The surroundings.                                                        *)

Cancel(t) ==
  /\ ~mCancel[t]
  /\ mCancel' = [mCancel EXCEPT ![t] = TRUE]
  /\ UNCHANGED <<world, rand_cnt, pc, m_sock_mutex, network, refused, half, buffer, stats,
                 received>>

Lose ==
  /\ world.lossy
  /\ \E m \in network : network' = network \ {m}
  /\ UNCHANGED <<world, rand_cnt, pc, m_sock_mutex, refused, half, buffer, stats, mCancel,
                 received>>

\* The port is closed: the datagram is gone, and the sender may hear of it.
Bounce ==
  /\ \E m \in network :
       /\ ~Open(m.to)
       /\ network' = network \ {m}
       /\ \E told \in {FALSE, Open(Peer(m.to))} :
            refused' = [refused EXCEPT ![Peer(m.to)] = @ \/ told]
  /\ UNCHANGED <<world, rand_cnt, pc, m_sock_mutex, half, buffer, stats, mCancel, received>>

Next == (\E t \in Tasks : Task(t) \/ Cancel(t)) \/ Lose \/ Bounce

Spec == Init /\ [][Next]_vars

\* The threads run, and a receive with a timeout returns.
FairSpec == Spec /\ \A t \in Tasks : WF_vars(Task(t))

-----------------------------------------------------------------------------
\* Lines 250-291: every loss counted has moved the index past the datagrams
\* received, so the two counters never claim more than the index does, whatever
\* the network and the timeouts do.
LossAccounted ==
  \A t \in Tasks : stats[t].packet_cnt_error + stats[t].blocks_recv <= stats[t].packet_index

Missing(t) == {i \in Indexes : i \notin received[t] /\ \E j \in received[t] : i < j}

\* Lines 272-291: a task does not report more datagrams lost than are missing, as
\* long as it is the server that receives (reverse), no datagram comes twice, and
\* none comes after the timeout.
LossNotOverstated ==
  world.reverse /\ world.prompt /\ ~world.duplicating
    => \A t \in Tasks : stats[t].packet_cnt_error <= Cardinality(Missing(t))

\* Lines 327-392: a client with a socket ends whatever the network does, and so
\* does a server that is to send and has a client.
TasksEnd ==
  /\ At(Client, "greet") ~> At(Client, "done")
  /\ At(Server, "loop") /\ ~world.reverse ~> At(Server, "done")
=============================================================================
