--------------------------- MODULE PerfBaseProofs ---------------------------
(***************************************************************************)
(* What TLAPS proves of two parts of libMTPerfBase.                        *)
(*                                                                         *)
(* UdpTask, for every number of datagrams, both directions and every       *)
(* behaviour of the network: the type invariant, and that the losses       *)
(* counted are covered by the index; and, of a server that receives        *)
(* nothing twice or late, that it reports no loss that was none.           *)
(*                                                                         *)
(* TimerList, for every number of timers, every delay and every period:    *)
(* the active and the free list are sound whatever the callbacks create    *)
(* and reset; and, when a callback touches no timer but its own, every     *)
(* timer due is called back in the pass, and the package implements the    *)
(* service TimerService.                                                   *)
(***************************************************************************)
EXTENDS UdpTask, TimerList, FiniteSetTheorems, FunctionTheorems,
        WellFoundedInduction, TLAPS

-----------------------------------------------------------------------------
(* UdpTask.                                                                *)

\* The sender has iterations left for the indexes it has not used.
SendInv ==
  \A t \in Tasks : Sends(t) =>
    stats[t].packet_index + rand_cnt[t] + (IF pc[t] = "io" THEN 1 ELSE 0) <= RAND_CNT

IInv == TypeOK /\ SendInv /\ LossAccounted

LEMMA InitIInv == Init => IInv
<1> SUFFICES ASSUME Init PROVE IInv
  OBVIOUS
<1>1. TypeOK
  BY CountAssumption, WorldAssumption DEF Init, TypeOK, Stats, Indexes, World
<1>2. SendInv
  <2>1. world.rand_cnt \in 0..RAND_CNT
    BY WorldAssumption DEF Init, World
  <2> QED BY <2>1, CountAssumption DEF Init, SendInv, Sends
<1>3. LossAccounted
  BY DEF Init, LossAccounted
<1> QED BY <1>1, <1>2, <1>3 DEF IInv

\* What netRecv does to the statistics keeps them natural numbers, and the
\* index above the datagrams and the losses together.
LEMMA AccountStats ==
  ASSUME NEW s \in Stats, NEW index \in Nat,
         s.packet_cnt_error + s.blocks_recv <= s.packet_index
  PROVE  LET r == Sequenced(Counted(s), index)
         IN  r \in Stats /\ r.packet_cnt_error + r.blocks_recv <= r.packet_index
<1> DEFINE c == Counted(s)
           r == Sequenced(c, index)
<1> SUFFICES r \in Stats /\ r.packet_cnt_error + r.blocks_recv <= r.packet_index
  OBVIOUS
<1>0. /\ s.packet_index \in Nat /\ s.blocks_recv \in Nat
      /\ s.packet_cnt_outorder \in Nat /\ s.packet_cnt_error \in Nat
  BY DEF Stats
<1>1. /\ c \in Stats
      /\ c.packet_index = s.packet_index + 1 /\ c.blocks_recv = s.blocks_recv + 1
      /\ c.packet_cnt_error = s.packet_cnt_error
  <2> DEFINE b == [s EXCEPT !.blocks_recv = @ + 1]
  <2>1. /\ b \in Stats /\ b.blocks_recv = s.blocks_recv + 1
        /\ b.packet_index = s.packet_index /\ b.packet_cnt_error = s.packet_cnt_error
    BY <1>0 DEF Stats
  <2>2. c = [b EXCEPT !.packet_index = s.packet_index + 1]
    BY DEF Counted
  <2> HIDE DEF b, c
  <2> QED BY <1>0, <2>1, <2>2 DEF Stats
<1>2. c.packet_cnt_error + c.blocks_recv <= c.packet_index
  BY <1>1 DEF Stats
<1> HIDE DEF c
<1>3. CASE index >= c.packet_index + 1
  <2>1. r = [c EXCEPT !.packet_cnt_error = @ + (index - 1) - c.packet_index,
                      !.packet_index = index]
    BY <1>3 DEF Sequenced, Advanced
  <2>2. (index - 1) - c.packet_index \in Nat
    BY <1>1, <1>3 DEF Stats
  <2>3. r = [packet_index |-> index, blocks_recv |-> c.blocks_recv,
             packet_cnt_outorder |-> c.packet_cnt_outorder,
             packet_cnt_error |-> c.packet_cnt_error + ((index - 1) - c.packet_index)]
    BY <1>1, <2>1 DEF Stats
  <2> HIDE DEF r
  <2> QED BY <1>1, <1>2, <2>2, <2>3 DEF Stats
<1>4. CASE ~(index >= c.packet_index + 1)
  <2>1. r = [c EXCEPT !.packet_cnt_outorder = @ + 1, !.packet_cnt_error = Offset(@)]
    BY <1>4 DEF Sequenced
  <2>2. /\ Offset(c.packet_cnt_error) \in Nat
        /\ Offset(c.packet_cnt_error) <= c.packet_cnt_error
    BY <1>1 DEF Offset, Stats
  <2>3. r = [packet_index |-> c.packet_index, blocks_recv |-> c.blocks_recv,
             packet_cnt_outorder |-> c.packet_cnt_outorder + 1,
             packet_cnt_error |-> Offset(c.packet_cnt_error)]
    BY <1>1, <2>1 DEF Stats
  <2> HIDE DEF r
  <2> QED BY <1>1, <1>2, <2>2, <2>3 DEF Stats
<1> QED BY <1>3, <1>4

\* A step that leaves the statistics and the countdown alone and moves no task
\* into the body of the loop keeps the two counting invariants.
LEMMA CountsKept ==
  ASSUME IInv, UNCHANGED <<world, stats, rand_cnt>>,
         \A t \in Tasks : pc'[t] = "io" => pc[t] = "io"
  PROVE  SendInv' /\ LossAccounted'
<1>1. \A t \in Tasks : Sends(t)' <=> Sends(t)
  BY DEF Sends
<1>2. \A t \in Tasks : stats[t].packet_index \in Nat /\ rand_cnt[t] \in Nat
  BY DEF IInv, TypeOK, Stats
<1>3. SendInv'
  BY <1>1, <1>2, CountAssumption DEF IInv, SendInv
<1> QED BY <1>3 DEF IInv, LossAccounted

\* The type invariant through the steps that change no statistics.
LEMMA QuietStepsTyped ==
  ASSUME TypeOK, NEW t \in Tasks,
         \/ Start(t) \/ Bind(t) \/ SetUpFails(t) \/ Iterate(t) \/ RecvHalf(t) \/ Close(t)
         \/ Cancel(t) \/ Lose \/ Bounce \/ netConnectSend \/ netConnectReply \/ netAccept
  PROVE  TypeOK'
<1> USE DEF TypeOK, Goto, At
<1>0. Client \in Tasks /\ Server \in Tasks /\ Greeting \in {Greeting} \cup Indexes
  BY DEF Tasks
<1>1. CASE Start(t) \/ Close(t) \/ Cancel(t)
  BY <1>1 DEF Start, Close, Cancel
<1>2. CASE Bind(t) \/ SetUpFails(t)
  BY <1>2 DEF Bind, SetUpFails, MutexAfterError
<1>3. CASE Iterate(t)
  BY <1>3, CountAssumption DEF Iterate
<1>4. CASE RecvHalf(t)
  BY <1>4 DEF RecvHalf, Take, To
<1>5. CASE Lose
  BY <1>5 DEF Lose
<1>6. CASE Bounce
  <2>1. refused' \in [Tasks -> BOOLEAN]
    BY <1>6 DEF Bounce, Open, Peer
  <2>2. network' \subseteq Datagram
    BY <1>6 DEF Bounce
  <2> QED BY <1>6, <2>1, <2>2 DEF Bounce
<1>7. CASE netConnectSend
  BY <1>0, <1>7 DEF netConnectSend, Datagram
<1>8. CASE netConnectReply
  <2>1. buffer' \in [Tasks -> Nat]
    BY <1>0, <1>8, CountAssumption DEF netConnectReply
  <2>2. network' \subseteq Datagram
    BY <1>8 DEF netConnectReply, Take, To
  <2> QED BY <1>0, <1>8, <2>1, <2>2 DEF netConnectReply
<1>9. CASE netAccept
  <2>1. network' \subseteq Datagram
    BY <1>0, <1>9 DEF netAccept, Take, To, Datagram
  <2> QED BY <1>0, <1>9, <2>1, CountAssumption DEF netAccept
<1> QED BY <1>1, <1>2, <1>3, <1>4, <1>5, <1>6, <1>7, <1>8, <1>9

LEMMA QuietStepsCount ==
  ASSUME IInv, NEW t \in Tasks,
         \/ Start(t) \/ Bind(t) \/ SetUpFails(t) \/ RecvHalf(t) \/ Close(t)
         \/ Cancel(t) \/ Lose \/ Bounce \/ netConnectSend \/ netConnectReply \/ netAccept
  PROVE  SendInv' /\ LossAccounted'
<1>1. UNCHANGED <<world, stats, rand_cnt>>
  BY DEF Start, Bind, SetUpFails, RecvHalf, Close, Cancel, Lose, Bounce, netConnectSend,
         netConnectReply, netAccept
<1>2. \A u \in Tasks : pc'[u] = "io" => pc[u] = "io"
  BY DEF IInv, TypeOK, Goto, Start, Bind, SetUpFails, RecvHalf, Close, Cancel, Lose, Bounce,
         netConnectSend, netConnectReply, netAccept
<1> QED BY <1>1, <1>2, CountsKept

LEMMA IterateCounts ==
  ASSUME IInv, NEW t \in Tasks, Iterate(t)
  PROVE  SendInv' /\ LossAccounted'
<1> USE DEF IInv, TypeOK
<1>1. LossAccounted'
  BY DEF Iterate, LossAccounted
<1>2. ASSUME NEW u \in Tasks, Sends(u)'
      PROVE  stats'[u].packet_index + rand_cnt'[u] + (IF pc'[u] = "io" THEN 1 ELSE 0) <= RAND_CNT
  <2>1. Sends(u) /\ stats' = stats /\ At(t, "loop")
    BY <1>2 DEF Iterate, Sends
  <2>2. stats[u].packet_index + rand_cnt[u] + (IF pc[u] = "io" THEN 1 ELSE 0) <= RAND_CNT
    BY <2>1 DEF SendInv
  <2>3. stats[u].packet_index \in Nat /\ rand_cnt[u] \in Nat
    BY DEF Stats
  <2>4. CASE u # t
    <3>1. pc'[u] = pc[u] /\ rand_cnt'[u] = rand_cnt[u]
      BY <2>4 DEF Iterate, Goto
    <3> QED BY <2>1, <2>2, <3>1
  <2>5. CASE u = t
    <3>1. pc[t] # "io"
      BY <2>1 DEF At
    <3>2. \/ rand_cnt'[t] = rand_cnt[t] - 1 /\ pc'[t] = "io"
          \/ rand_cnt'[t] = rand_cnt[t] /\ pc'[t] = "close"
      BY DEF Iterate, Goto
    <3> QED BY <2>1, <2>2, <2>3, <2>5, <3>1, <3>2, CountAssumption
  <2> QED BY <2>4, <2>5
<1> QED BY <1>1, <1>2 DEF SendInv

LEMMA SendStep ==
  ASSUME IInv, NEW t \in Tasks, netSend(t)
  PROVE  IInv'
<1> USE DEF IInv, TypeOK
<1> DEFINE index == stats[t].packet_index + 1
<1>1. /\ stats[t] \in Stats /\ index \in Nat /\ rand_cnt[t] \in Nat
      /\ index = stats[t].packet_index + 1
      /\ pc[t] = "io" /\ Sends(t) /\ Peer(t) \in Tasks
  BY DEF netSend, At, Stats, Peer, Tasks
<1>2. index + rand_cnt[t] <= RAND_CNT
  <2>1. stats[t].packet_index + rand_cnt[t] + 1 <= RAND_CNT
    BY <1>1 DEF SendInv
  <2> QED BY <1>1, <2>1, CountAssumption DEF Stats
<1>3. index \in Indexes
  BY <1>1, <1>2, CountAssumption DEF Indexes, Stats
<1>4. /\ buffer' = [buffer EXCEPT ![t] = index]
      /\ UNCHANGED <<world, rand_cnt, m_sock_mutex, half, mCancel, received>>
  BY DEF netSend
<1>5. CASE refused[t]
  <2>1. /\ UNCHANGED <<network, stats>> /\ pc' = [pc EXCEPT ![t] = "close"]
        /\ refused' = [refused EXCEPT ![t] = FALSE]
    BY <1>5 DEF netSend, Goto
  <2>2. TypeOK'
    BY <1>1, <1>4, <2>1
  <2> QED BY <1>4, <2>1, <2>2, CountsKept
<1>6. CASE ~refused[t]
  <2>1. /\ network' = network \cup {[to |-> Peer(t), index |-> index]}
        /\ stats' = [stats EXCEPT ![t].packet_index = index, ![t].blocks_recv = @ + 1]
        /\ pc' = [pc EXCEPT ![t] = "loop"]
        /\ refused' = refused
    BY <1>6 DEF netSend, Goto
  <2> HIDE DEF index
  <2>2. /\ stats'[t] \in Stats
        /\ stats'[t].packet_index = index
        /\ stats'[t].blocks_recv = stats[t].blocks_recv + 1
        /\ stats'[t].packet_cnt_error = stats[t].packet_cnt_error
    BY <1>1, <2>1 DEF Stats
  <2>3. /\ \A u \in Tasks : u # t => stats'[u] = stats[u] /\ pc'[u] = pc[u]
        /\ DOMAIN stats' = Tasks /\ stats' = [u \in Tasks |-> stats'[u]]
    BY <2>1
  <2>4. stats' \in [Tasks -> Stats]
    BY <2>2, <2>3
  <2>5. network' \subseteq Datagram
    BY <1>1, <1>3, <2>1 DEF Datagram
  <2>6. TypeOK'
    BY <1>1, <1>4, <2>1, <2>4, <2>5
  <2>7. LossAccounted'
    BY <1>1, <2>2, <2>3 DEF LossAccounted, Stats
  <2>8. SendInv'
    <3> SUFFICES ASSUME NEW u \in Tasks, Sends(u)'
                 PROVE  stats'[u].packet_index + rand_cnt'[u]
                          + (IF pc'[u] = "io" THEN 1 ELSE 0) <= RAND_CNT
      BY DEF SendInv
    <3>1. Sends(u)
      BY <1>4 DEF Sends
    <3>2. CASE u = t
      BY <1>1, <1>2, <1>4, <2>1, <2>2, <3>2
    <3>3. CASE u # t
      BY <1>4, <2>3, <3>1, <3>3 DEF SendInv
    <3> QED BY <3>2, <3>3
  <2> QED BY <2>6, <2>7, <2>8
<1> QED BY <1>5, <1>6

\* netRecv when mt_sock_recv has not failed.
LEMMA AccountStep ==
  ASSUME IInv, NEW t \in Tasks, NEW index \in Nat, ~Sends(t), Account(t, index),
         network' \subseteq Datagram, received' \in [Tasks -> SUBSET Indexes],
         UNCHANGED <<world, rand_cnt, m_sock_mutex, mCancel, refused>>
  PROVE  IInv'
<1> USE DEF IInv, TypeOK
<1>1. /\ stats' = [stats EXCEPT ![t] = Sequenced(Counted(stats[t]), index)]
      /\ buffer' = [buffer EXCEPT ![t] = index]
      /\ half' = [half EXCEPT ![t] = FALSE]
      /\ pc' = [pc EXCEPT ![t] = "loop"]
  BY DEF Account, Goto
<1>2. /\ stats'[t] \in Stats
      /\ stats'[t].packet_cnt_error + stats'[t].blocks_recv <= stats'[t].packet_index
  BY <1>1, AccountStats DEF LossAccounted
<1>3. \A u \in Tasks : u # t => stats'[u] = stats[u] /\ pc'[u] = pc[u]
  BY <1>1
<1>4. stats' \in [Tasks -> Stats]
  BY <1>1, <1>2
<1>5. TypeOK'
  BY <1>1, <1>4
<1>6. LossAccounted'
  BY <1>2, <1>3 DEF LossAccounted
<1>7. SendInv'
  BY <1>3 DEF SendInv, Sends
<1> QED BY <1>5, <1>6, <1>7

LEMMA RecvStep ==
  ASSUME IInv, NEW t \in Tasks, netRecv(t)
  PROVE  IInv'
<1> USE DEF IInv, TypeOK
<1>0. ~Sends(t) /\ UNCHANGED <<world, rand_cnt, m_sock_mutex, mCancel>>
  BY DEF netRecv
<1>1. ASSUME NEW m \in To(t), m.index # Greeting, Take(m, network'), Account(t, m.index),
             received' = [received EXCEPT ![t] = @ \cup {m.index}], refused' = refused
      PROVE  IInv'
  <2>1. m \in Datagram /\ m.index \in Indexes
    BY <1>1 DEF To, Datagram
  <2>2. m.index \in Nat
    BY <2>1 DEF Indexes
  <2>3. network' \subseteq Datagram
    BY <1>1 DEF Take
  <2>4. received' \in [Tasks -> SUBSET Indexes]
    BY <1>1, <2>1
  <2> QED BY <1>0, <1>1, <2>2, <2>3, <2>4, AccountStep
<1>2. ASSUME NEW m \in To(t), Take(m, network'), Account(t, CIPHER_INDEX),
             UNCHANGED <<refused, received>>
      PROVE  IInv'
  <2>1. network' \subseteq Datagram
    BY <1>2 DEF Take
  <2> QED BY <1>0, <1>2, <2>1, CountAssumption, AccountStep
<1>3. ASSUME Account(t, IF half[t] THEN CIPHER_INDEX ELSE buffer[t]),
             UNCHANGED <<network, refused, received>>
      PROVE  IInv'
  <2>1. (IF half[t] THEN CIPHER_INDEX ELSE buffer[t]) \in Nat
    BY CountAssumption
  <2> QED BY <1>0, <1>3, <2>1, AccountStep
<1>4. ASSUME refused' = [refused EXCEPT ![t] = FALSE], Goto(t, "close"),
             UNCHANGED <<network, half, buffer, stats, received>>
      PROVE  IInv'
  <2>1. TypeOK'
    BY <1>0, <1>4 DEF Goto
  <2>2. \A u \in Tasks : pc'[u] = "io" => pc[u] = "io"
    BY <1>4 DEF Goto
  <2> QED BY <1>0, <1>4, <2>1, <2>2, CountsKept
<1> QED BY <1>1, <1>2, <1>3, <1>4 DEF netRecv

LEMMA NextIInv == IInv /\ [Next]_vars => IInv'
<1> SUFFICES ASSUME IInv, [Next]_vars PROVE IInv'
  OBVIOUS
<1>1. ASSUME NEW t \in Tasks, Iterate(t) PROVE IInv'
  BY <1>1, QuietStepsTyped, IterateCounts DEF IInv
<1>2. ASSUME NEW t \in Tasks, Task(t) PROVE IInv'
  <2>1. CASE netSend(t)
    BY <2>1, SendStep
  <2>2. CASE netRecv(t)
    BY <2>2, RecvStep
  <2>3. CASE Iterate(t)
    BY <2>3, <1>1
  <2>4. CASE \/ Start(t) \/ Bind(t) \/ SetUpFails(t) \/ RecvHalf(t) \/ Close(t)
             \/ netConnectSend \/ netConnectReply \/ netAccept
    BY <2>4, QuietStepsTyped, QuietStepsCount DEF IInv
  <2> QED BY <1>2, <2>1, <2>2, <2>3, <2>4 DEF Task
<1>3. ASSUME NEW t \in Tasks, Cancel(t) PROVE IInv'
  BY <1>3, QuietStepsTyped, QuietStepsCount DEF IInv
<1>4. CASE Lose \/ Bounce
  BY <1>4, QuietStepsTyped, QuietStepsCount DEF IInv, Tasks
<1>5. CASE UNCHANGED vars
  <2>1. TypeOK'
    BY <1>5 DEF vars, IInv, TypeOK
  <2> QED BY <1>5, <2>1, CountsKept DEF vars, IInv
<1> QED BY <1>2, <1>3, <1>4, <1>5 DEF Next

\* The counters stay natural numbers and the indexes sent within rand_cnt.
THEOREM TypeCorrect == Spec => []TypeOK
<1>1. IInv => TypeOK
  BY DEF IInv
<1> QED BY InitIInv, NextIInv, <1>1, PTL DEF Spec

\* Lines 250-291: the losses and the datagrams counted never exceed the index.
THEOREM LossesCovered == Spec => []LossAccounted
<1>1. IInv => LossAccounted
  BY DEF IInv
<1> QED BY InitIInv, NextIInv, <1>1, PTL DEF Spec
-----------------------------------------------------------------------------
(* The losses reported.                                                     *)

\* What LossNotOverstated is about.
Calm == world.reverse /\ world.prompt /\ ~world.duplicating

\* The greeting is alone on the network, and gone before the server receives.
Hello == [to |-> Server, index |-> Greeting]
GreetInv ==
  /\ Hello \in network => /\ pc[Client] \in {"reply", "close", "done"}
                          /\ network = {Hello}
                          /\ pc[Server] \notin {"loop", "io"}
  /\ network # {} \/ pc[Server] \in {"loop", "io"} => pc[Client] \notin {"idle", "bind", "greet"}
  /\ ~half[Server]

\* What is under way has not been received, and all of it has been sent.
FreshInv ==
  /\ \A m \in network : m.to = Server /\ m.index # Greeting =>
       m.index \notin received[Server] /\ m.index <= stats[Client].packet_index
  /\ \A i \in received[Server] : i <= stats[Client].packet_index

\* The server counts each datagram once and takes no index for missing that is not.
ReportInv ==
  /\ received[Server] \subseteq 1..stats[Server].packet_index
  /\ stats[Server].blocks_recv = Cardinality(received[Server])
  /\ stats[Server].packet_cnt_error <= Cardinality(Missing(Server))
  /\ stats[Client].packet_cnt_error = 0

CalmInv == Calm => GreetInv /\ FreshInv /\ ReportInv
\* The indexes below one of R that are not in R.
Gap(R) == {i \in Indexes : i \notin R /\ \E j \in R : i < j}

LEMMA GapFinite ==
  ASSUME NEW R
  PROVE  IsFiniteSet(Gap(R)) /\ Cardinality(Gap(R)) \in Nat
<1>1. IsFiniteSet(1..RAND_CNT) /\ Gap(R) \in SUBSET (1..RAND_CNT)
  BY CountAssumption, FS_Interval DEF Gap, Indexes
<1> QED BY <1>1, FS_Subset, FS_CardinalityType

\* A datagram that fills a gap leaves the others.
LEMMA GapFilled ==
  ASSUME NEW R, NEW i
  PROVE  Cardinality(Gap(R)) - 1 <= Cardinality(Gap(R \cup {i}))
<1>1. Gap(R) \ {i} \in SUBSET Gap(R \cup {i})
  BY DEF Gap
<1>2. Cardinality(Gap(R) \ {i}) <= Cardinality(Gap(R \cup {i}))
  BY <1>1, GapFinite, FS_Subset
<1>3. Cardinality(Gap(R) \ {i}) \in {Cardinality(Gap(R)) - 1, Cardinality(Gap(R))}
  BY GapFinite, FS_RemoveElement
<1>4. Cardinality(Gap(R)) \in Nat /\ Cardinality(Gap(R \cup {i})) \in Nat
  BY GapFinite
<1> QED BY <1>2, <1>3, <1>4

\* A datagram ahead of all others leaves every index below it received or missing.
LEMMA GapAhead ==
  ASSUME NEW p \in Nat, NEW R \in SUBSET (1..p), NEW i \in Indexes, i > p
  PROVE  /\ Cardinality(R) \in Nat /\ Cardinality(R \cup {i}) = Cardinality(R) + 1
         /\ Cardinality(Gap(R \cup {i})) = i - 1 - Cardinality(R)
<1>1. i \in Nat /\ i <= RAND_CNT /\ i >= 1
  BY CountAssumption DEF Indexes
<1>2. IsFiniteSet(R) /\ Cardinality(R) \in Nat
  <2>1. IsFiniteSet(1..p)
    BY FS_Interval
  <2>2. IsFiniteSet(R)
    BY <2>1, FS_Subset
  <2> QED BY <2>2, FS_CardinalityType
<1>3. i \notin R
  BY <1>1
<1>4. Cardinality(R \cup {i}) = Cardinality(R) + 1
  BY <1>2, <1>3, FS_AddElement
<1>5. Gap(R \cup {i}) = (1..i - 1) \ R
  <2>1. ASSUME NEW k \in Gap(R \cup {i}) PROVE k \in (1..i - 1) \ R
    <3>1. k \in 1..RAND_CNT /\ k \notin R \cup {i} /\ \E j \in R \cup {i} : k < j
      BY <2>1 DEF Gap, Indexes
    <3>2. k < i
      BY <1>1, <3>1
    <3> QED BY <1>1, <3>1, <3>2
  <2>2. ASSUME NEW k \in (1..i - 1) \ R PROVE k \in Gap(R \cup {i})
    <3>1. k \in Indexes /\ k # i /\ k < i
      BY <1>1, CountAssumption DEF Indexes
    <3> QED BY <2>2, <3>1 DEF Gap
  <2> QED BY <2>1, <2>2
<1>6. (1..i - 1) \cap R = R
  <2>1. ASSUME NEW k \in R PROVE k \in 1..i - 1
    BY <1>1
  <2> QED BY <2>1
<1>7. IsFiniteSet(1..i - 1) /\ Cardinality(1..i - 1) = i - 1
  BY <1>1, FS_Interval
<1>8. Cardinality((1..i - 1) \ R) = Cardinality(1..i - 1) - Cardinality((1..i - 1) \cap R)
  BY <1>7, FS_Difference
<1> QED BY <1>2, <1>4, <1>5, <1>6, <1>7, <1>8

LEMMA MissingIsGap == \A t \in Tasks : Missing(t) = Gap(received[t])
BY DEF Missing, Gap

\* What one datagram that was not received before does to the report.
LEMMA ReportStep ==
  ASSUME NEW s \in Stats, NEW R \in SUBSET Indexes, NEW i \in Indexes \ R,
         R \subseteq 1..s.packet_index,
         s.blocks_recv = Cardinality(R),
         s.packet_cnt_error <= Cardinality(Gap(R)),
         s.packet_cnt_error + s.blocks_recv <= s.packet_index
  PROVE  LET r == Sequenced(Counted(s), i)
         IN  /\ R \cup {i} \subseteq 1..r.packet_index
             /\ r.blocks_recv = Cardinality(R \cup {i})
             /\ r.packet_cnt_error <= Cardinality(Gap(R \cup {i}))
<1> DEFINE c == Counted(s)
           r == Sequenced(c, i)
<1> SUFFICES /\ R \cup {i} \subseteq 1..r.packet_index
             /\ r.blocks_recv = Cardinality(R \cup {i})
             /\ r.packet_cnt_error <= Cardinality(Gap(R \cup {i}))
  OBVIOUS
<1>0. /\ s.packet_index \in Nat /\ s.blocks_recv \in Nat
      /\ s.packet_cnt_outorder \in Nat /\ s.packet_cnt_error \in Nat
  BY DEF Stats
<1>1. i \in Nat /\ i >= 1
  BY CountAssumption DEF Indexes
<1>2. c = [packet_index |-> s.packet_index + 1, blocks_recv |-> s.blocks_recv + 1,
           packet_cnt_outorder |-> s.packet_cnt_outorder, packet_cnt_error |-> s.packet_cnt_error]
  <2> DEFINE b == [s EXCEPT !.blocks_recv = @ + 1]
  <2>1. b = [packet_index |-> s.packet_index, blocks_recv |-> s.blocks_recv + 1,
             packet_cnt_outorder |-> s.packet_cnt_outorder, packet_cnt_error |-> s.packet_cnt_error]
    BY <1>0 DEF Stats
  <2>2. c = [b EXCEPT !.packet_index = @ + 1]
    BY DEF Counted
  <2> HIDE DEF b, c
  <2> QED BY <2>1, <2>2
<1>3. IsFiniteSet(R) /\ Cardinality(R \cup {i}) = Cardinality(R) + 1
  <2>1. IsFiniteSet(1..s.packet_index)
    <3>1. s.packet_index \in Int /\ 1 \in Int
      BY <1>0
    <3> HIDE <1>0
    <3> QED BY <3>1, FS_Interval
  <2>2. IsFiniteSet(R)
    BY <2>1, FS_Subset
  <2> QED BY <2>2, FS_AddElement
<1>4. Cardinality(Gap(R)) \in Nat /\ Cardinality(Gap(R \cup {i})) \in Nat
  BY GapFinite
<1> HIDE DEF c
<1>5. CASE i >= c.packet_index + 1
  <2>1. r = [c EXCEPT !.packet_cnt_error = @ + (i - 1) - c.packet_index, !.packet_index = i]
    BY <1>5 DEF Sequenced, Advanced
  <2>2. /\ r.packet_index = i /\ r.blocks_recv = s.blocks_recv + 1
        /\ r.packet_cnt_error = s.packet_cnt_error + (i - 1) - (s.packet_index + 1)
    BY <1>0, <1>1, <1>2, <2>1
  <2>3. i > s.packet_index
    BY <1>0, <1>1, <1>2, <1>5
  <2> HIDE DEF r
  <2>4. Cardinality(Gap(R \cup {i})) = i - 1 - Cardinality(R)
    BY <1>0, <2>3, GapAhead
  <2>5. r.packet_cnt_error <= Cardinality(Gap(R \cup {i}))
    BY <1>0, <1>1, <2>2, <2>4
  <2>6. R \cup {i} \subseteq 1..i
    BY <1>0, <1>1, <2>3
  <2> QED BY <1>3, <2>2, <2>5, <2>6
<1>6. CASE ~(i >= c.packet_index + 1)
  <2>1. r = [c EXCEPT !.packet_cnt_outorder = @ + 1, !.packet_cnt_error = Offset(@)]
    BY <1>6 DEF Sequenced
  <2>2. /\ r.packet_index = s.packet_index + 1 /\ r.blocks_recv = s.blocks_recv + 1
        /\ r.packet_cnt_error = Offset(s.packet_cnt_error)
    BY <1>2, <2>1
  <2>3. i <= s.packet_index + 1
    BY <1>0, <1>1, <1>2, <1>6
  <2> HIDE DEF r
  <2>4. Cardinality(Gap(R)) - 1 <= Cardinality(Gap(R \cup {i}))
    BY GapFilled
  <2>5. r.packet_cnt_error <= Cardinality(Gap(R \cup {i}))
    BY <1>0, <1>4, <2>2, <2>4 DEF Offset
  <2>6. R \cup {i} \subseteq 1..s.packet_index + 1
    BY <1>0, <1>1, <2>3
  <2> QED BY <1>3, <2>2, <2>5, <2>6
<1> QED BY <1>5, <1>6

LEMMA InitCalm == Init => CalmInv
<1> SUFFICES ASSUME Init PROVE GreetInv /\ FreshInv /\ ReportInv
  BY DEF CalmInv
<1>1. Client \in Tasks /\ Server \in Tasks
  BY DEF Tasks
<1>2. GreetInv /\ FreshInv
  BY <1>1 DEF Init, GreetInv, FreshInv
<1>3. Missing(Server) = {} /\ Cardinality({}) = 0
  BY <1>1, FS_EmptySet DEF Missing, Init
<1> QED BY <1>1, <1>2, <1>3 DEF Init, ReportInv

\* The report stays as long as neither the statistics nor what was received change.
LEMMA ReportKept ==
  ASSUME ReportInv, UNCHANGED <<received, stats>>
  PROVE  ReportInv'
BY DEF ReportInv, Missing

\* The steps that send and receive no indexes.
LEMMA CalmSteps ==
  ASSUME TypeOK, Calm, GreetInv, FreshInv, ReportInv, NEW t \in Tasks,
         \/ Start(t) \/ Bind(t) \/ SetUpFails(t) \/ Iterate(t) \/ RecvHalf(t) \/ Close(t)
         \/ Cancel(t) \/ Lose \/ Bounce \/ netConnectSend \/ netConnectReply \/ netAccept
  PROVE  GreetInv' /\ FreshInv' /\ ReportInv'
<1>0. /\ Client \in Tasks /\ Server \in Tasks /\ Client # Server /\ Hello.to = Server
      /\ Hello.index = Greeting
  BY TasksAssumption DEF Tasks, Hello
<1>1. pc \in [Tasks -> {"idle", "bind", "greet", "reply", "loop", "io", "close", "done"}]
  BY DEF TypeOK
<1>2. UNCHANGED <<received, stats>>
  BY DEF Start, Bind, SetUpFails, Iterate, RecvHalf, Close, Cancel, Lose, Bounce, netConnectSend,
         netConnectReply, netAccept
<1>3. ReportInv'
  BY <1>2, ReportKept
<1>4. ASSUME NEW S \in SUBSET network, network' = S \cup {m \in network' : m.index = Greeting}
      PROVE  FreshInv'
  BY <1>2, <1>4 DEF FreshInv
<1>5. CASE Start(t) \/ Bind(t) \/ SetUpFails(t) \/ Iterate(t) \/ Close(t) \/ Cancel(t)
  <2>1. UNCHANGED <<network, half>>
    BY <1>5 DEF Start, Bind, SetUpFails, Iterate, Close, Cancel
  <2>2. GreetInv'
    BY <1>0, <1>1, <1>5, <2>1
       DEF GreetInv, Hello, Goto, At, Start, Bind, SetUpFails, Iterate, Close, Cancel
  <2> QED BY <1>3, <1>4, <2>1, <2>2
<1>6. CASE RecvHalf(t)
  <2>1. At(t, "io") /\ ~Sends(t)
    BY <1>6 DEF RecvHalf
  <2>2. t = Server
    BY <1>0, <2>1 DEF Sends, Calm, Tasks
  <2>3. PICK m \in To(t) : m.index = Greeting
    BY <1>6 DEF RecvHalf
  <2>4. m \in network /\ m.to = Server /\ m.index = Greeting /\ m \in Datagram
    BY <2>2, <2>3 DEF To, TypeOK
  <2>5. m = Hello
    BY <2>4 DEF Datagram, Hello
  <2> QED BY <2>1, <2>2, <2>4, <2>5 DEF GreetInv, At
<1>7. CASE Lose \/ Bounce
  <2>1. PICK m \in network : network' = network \ {m}
    BY <1>7 DEF Lose, Bounce
  <2>2. UNCHANGED <<pc, half>>
    BY <1>7 DEF Lose, Bounce
  <2>3. GreetInv'
    BY <2>1, <2>2 DEF GreetInv, Hello
  <2> QED BY <1>3, <1>4, <2>1, <2>3
<1>8. CASE netConnectSend
  <2>1. /\ pc[Client] = "greet" /\ pc' = [pc EXCEPT ![Client] = "reply"] /\ half' = half
        /\ network' = network \cup {Hello}
    BY <1>8 DEF netConnectSend, At, Goto, Hello
  <2>2. network = {} /\ pc[Server] \notin {"loop", "io"}
    BY <2>1 DEF GreetInv
  <2>3. GreetInv'
    BY <1>0, <1>1, <2>1, <2>2 DEF GreetInv, Hello
  <2> QED BY <1>0, <1>3, <1>4, <2>1, <2>2, <2>3
<1>9. CASE netConnectReply
  <2>1. pc[Client] = "reply" /\ half' = half /\ \E w \in {"loop", "close"} : pc' = [pc EXCEPT ![Client] = w]
    BY <1>9 DEF netConnectReply, At, Goto
  <2>2. \/ \E m \in To(Client) : Take(m, network')
        \/ network' = network /\ network = {}
        \/ network' = network /\ pc' = [pc EXCEPT ![Client] = "close"]
    BY <1>9 DEF netConnectReply, TimesOut, HasTimeout, Quiet, Calm, Goto
  <2>3. network' \in SUBSET network
    BY <2>2 DEF Take, Calm
  <2>4. Hello \in network => network = {Hello} /\ To(Client) = {}
    BY <1>0 DEF GreetInv, To
  <2>5. GreetInv'
    BY <1>0, <1>1, <2>1, <2>2, <2>3, <2>4 DEF GreetInv, Hello
  <2> QED BY <1>3, <1>4, <2>3, <2>5
<1>10. CASE netAccept
  <2>1. PICK m \in To(Server), rest \in SUBSET network :
          /\ Take(m, rest)
          /\ network' = rest \cup {[to |-> Client, index |-> Greeting]}
    BY <1>10 DEF netAccept
  <2>2. pc[Server] = "greet" /\ pc' = [pc EXCEPT ![Server] = "loop"] /\ half' = half
    BY <1>10 DEF netAccept, At, Goto
  <2>3. m \in network /\ rest = network \ {m}
    BY <2>1 DEF Take, Calm
  <2>4. Hello \notin rest
    <3>1. CASE Hello \notin network
      BY <2>3, <3>1
    <3>2. CASE Hello \in network
      BY <2>3, <3>2 DEF GreetInv
    <3> QED BY <3>1, <3>2
  <2>5. [to |-> Client, index |-> Greeting] # Hello
    BY <1>0 DEF Hello
  <2>6. GreetInv'
    BY <1>0, <1>1, <2>1, <2>2, <2>3, <2>4, <2>5 DEF GreetInv, Hello
  <2> QED BY <1>3, <1>4, <2>1, <2>6
<1> QED BY <1>5, <1>6, <1>7, <1>8, <1>9, <1>10

LEMMA CalmSend ==
  ASSUME TypeOK, Calm, GreetInv, FreshInv, ReportInv, NEW t \in Tasks, netSend(t)
  PROVE  GreetInv' /\ FreshInv' /\ ReportInv'
<1>0. /\ Client \in Tasks /\ Server \in Tasks /\ Client # Server /\ Greeting = 0
  BY TasksAssumption DEF Tasks, Greeting
<1>1. t = Client /\ pc[Client] = "io" /\ Peer(t) = Server
  BY <1>0 DEF netSend, Sends, Calm, At, Peer, Tasks
<1> DEFINE index == stats[Client].packet_index + 1
<1>2. stats[Client] \in Stats /\ index \in Nat /\ index > 0 /\ index > stats[Client].packet_index
  BY <1>0 DEF TypeOK, Stats
<1>3. Hello \notin network
  BY <1>1 DEF GreetInv
<1>4. CASE refused[t]
  <2>1. UNCHANGED <<network, stats, received, half>> /\ pc' = [pc EXCEPT ![Client] = "close"]
    BY <1>1, <1>4 DEF netSend, Goto
  <2>2. ReportInv'
    BY <2>1, ReportKept
  <2>3. FreshInv'
    BY <2>1 DEF FreshInv
  <2>4. GreetInv'
    BY <1>0, <1>3, <2>1 DEF GreetInv, Hello, TypeOK
  <2> QED BY <2>2, <2>3, <2>4
<1>5. CASE ~refused[t]
  <2>1. /\ network' = network \cup {[to |-> Server, index |-> index]}
        /\ stats' = [stats EXCEPT ![Client].packet_index = index, ![Client].blocks_recv = @ + 1]
        /\ pc' = [pc EXCEPT ![Client] = "loop"]
        /\ UNCHANGED <<received, half>>
    BY <1>1, <1>5 DEF netSend, Goto
  <2> HIDE DEF index
  <2>2. /\ stats'[Client].packet_index = index
        /\ stats'[Client].packet_cnt_error = stats[Client].packet_cnt_error
        /\ stats'[Server] = stats[Server]
    BY <1>0, <1>2, <2>1 DEF TypeOK, Stats
  <2>3. ReportInv'
    BY <2>1, <2>2 DEF ReportInv, Missing
  <2>4. GreetInv'
    <3>1. Hello \notin network'
      BY <1>0, <1>2, <1>3, <2>1 DEF Hello
    <3> QED BY <1>0, <1>1, <2>1, <3>1 DEF GreetInv, Hello, TypeOK
  <2>5. FreshInv'
    <3>1. \A i \in received[Server] : i <= index /\ i # index
      <4>1. received[Server] \subseteq Nat
        BY <1>0, CountAssumption DEF TypeOK, Indexes
      <4> QED BY <1>2, <4>1 DEF FreshInv, Stats
    <3>2. \A m \in network : m.to = Server /\ m.index # Greeting => m.index <= index
      <4>1. \A m \in network : m.index \in Nat
        BY CountAssumption DEF TypeOK, Datagram, Indexes, Greeting
      <4> QED BY <1>2, <4>1 DEF FreshInv, Stats
    <3>3. index <= index /\ index \notin received[Server]
      BY <1>2, <3>1
    <3>4. ASSUME NEW m \in network', m.to = Server, m.index # Greeting
          PROVE  m.index \notin received[Server] /\ m.index <= index
      <4>1. CASE m \in network
        BY <3>2, <3>4, <4>1 DEF FreshInv
      <4>2. CASE m \notin network
        <5>1. m = [to |-> Server, index |-> index]
          BY <2>1, <4>2
        <5> QED BY <3>3, <5>1
      <4> QED BY <4>1, <4>2
    <3>5. received' = received /\ stats'[Client].packet_index = index
      BY <2>1, <2>2
    <3> QED BY <3>1, <3>4, <3>5 DEF FreshInv
  <2> QED BY <2>3, <2>4, <2>5
<1> QED BY <1>4, <1>5

LEMMA CalmRecv ==
  ASSUME TypeOK, LossAccounted, Calm, GreetInv, FreshInv, ReportInv, NEW t \in Tasks, netRecv(t)
  PROVE  GreetInv' /\ FreshInv' /\ ReportInv'
<1>0. /\ Client \in Tasks /\ Server \in Tasks /\ Client # Server
  BY TasksAssumption DEF Tasks
<1>1. t = Server /\ pc[Server] = "io" /\ ~half[Server] /\ ~TimesOut(Server)
  BY <1>0 DEF netRecv, Sends, Calm, At, Tasks, GreetInv, TimesOut, HasTimeout
<1>2. Hello \notin network
  BY <1>1 DEF GreetInv
<1>3. CASE UNCHANGED <<network, half, buffer, stats, received>> /\ Goto(Server, "close")
  <2>1. ReportInv' /\ FreshInv'
    BY <1>3, ReportKept DEF FreshInv
  <2>2. GreetInv'
    BY <1>0, <1>1, <1>2, <1>3 DEF GreetInv, Hello, Goto, TypeOK
  <2> QED BY <2>1, <2>2
<1>4. ASSUME NEW m \in To(Server), m.index # Greeting, Take(m, network'), Account(Server, m.index),
             received' = [received EXCEPT ![Server] = @ \cup {m.index}]
      PROVE  GreetInv' /\ FreshInv' /\ ReportInv'
  <2>1. /\ m \in network /\ m \in Datagram /\ m.to = Server /\ m.index \in Indexes
        /\ network' = network \ {m}
    BY <1>4 DEF To, TypeOK, Datagram, Take, Calm
  <2>2. /\ stats' = [stats EXCEPT ![Server] = Sequenced(Counted(stats[Server]), m.index)]
        /\ half' = [half EXCEPT ![Server] = FALSE] /\ pc' = [pc EXCEPT ![Server] = "loop"]
    BY <1>4 DEF Account, Goto
  <2>3. GreetInv'
    BY <1>0, <1>1, <1>2, <2>1, <2>2 DEF GreetInv, Hello, TypeOK
  <2>4. /\ stats'[Client] = stats[Client] /\ received'[Server] = received[Server] \cup {m.index}
        /\ stats'[Server] = Sequenced(Counted(stats[Server]), m.index)
    BY <1>0, <1>4, <2>2 DEF TypeOK
  <2>5. FreshInv'
    <3>1. \A n \in network' : n.to = Server /\ n.index # Greeting => n.index # m.index
      BY <2>1 DEF Datagram, TypeOK
    <3> QED BY <1>4, <2>1, <2>4, <3>1 DEF FreshInv
  <2>6. ReportInv'
    <3>1. m.index \in Indexes \ received[Server] /\ received[Server] \in SUBSET Indexes
      BY <1>0, <1>4, <2>1 DEF FreshInv, TypeOK
    <3>2. stats[Server] \in Stats /\ Missing(Server) = Gap(received[Server])
      BY <1>0, MissingIsGap DEF TypeOK
    <3>3. stats[Server].packet_cnt_error + stats[Server].blocks_recv <= stats[Server].packet_index
      BY <1>0 DEF LossAccounted
    <3>4. /\ received'[Server] \subseteq 1..stats'[Server].packet_index
          /\ stats'[Server].blocks_recv = Cardinality(received'[Server])
          /\ stats'[Server].packet_cnt_error <= Cardinality(Gap(received'[Server]))
      <4> DEFINE s == stats[Server]
                 R == received[Server]
                 r == Sequenced(Counted(s), m.index)
      <4>1. R \subseteq 1..s.packet_index /\ s.blocks_recv = Cardinality(R)
            /\ s.packet_cnt_error <= Cardinality(Gap(R))
        BY <3>2 DEF ReportInv
      <4>2. /\ R \cup {m.index} \subseteq 1..r.packet_index
            /\ r.blocks_recv = Cardinality(R \cup {m.index})
            /\ r.packet_cnt_error <= Cardinality(Gap(R \cup {m.index}))
        BY <3>1, <3>2, <3>3, <4>1, ReportStep
      <4> QED BY <2>4, <4>2
    <3>5. Missing(Server)' = Gap(received'[Server])
      BY DEF Missing, Gap
    <3> QED BY <2>4, <3>4, <3>5 DEF ReportInv
  <2> QED BY <2>3, <2>5, <2>6
<1> QED BY <1>1, <1>3, <1>4 DEF netRecv

LEMMA NextCalm == IInv /\ CalmInv /\ [Next]_vars => CalmInv'
<1> SUFFICES ASSUME IInv, CalmInv, [Next]_vars, Calm' PROVE GreetInv' /\ FreshInv' /\ ReportInv'
  BY DEF CalmInv
<1>1. world' = world
  BY DEF Next, vars, Task, Start, Bind, SetUpFails, Iterate, netSend, RecvHalf, netRecv, Close,
         netConnectSend, netConnectReply, netAccept, Cancel, Lose, Bounce
<1>2. Calm /\ GreetInv /\ FreshInv /\ ReportInv /\ TypeOK /\ LossAccounted
  BY <1>1 DEF Calm, CalmInv, IInv
<1>3. ASSUME NEW t \in Tasks, Task(t) PROVE GreetInv' /\ FreshInv' /\ ReportInv'
  BY <1>2, <1>3, CalmSteps, CalmSend, CalmRecv DEF Task
<1>4. ASSUME NEW t \in Tasks, Cancel(t) PROVE GreetInv' /\ FreshInv' /\ ReportInv'
  BY <1>2, <1>4, CalmSteps
<1>5. CASE Lose \/ Bounce
  BY <1>2, <1>5, CalmSteps DEF Tasks
<1>6. CASE UNCHANGED vars
  BY <1>2, <1>6, ReportKept DEF vars, GreetInv, FreshInv, Hello
<1> QED BY <1>3, <1>4, <1>5, <1>6 DEF Next

\* Lines 272-291: in that direction, without copies and with an early timeout only,
\* no more datagrams are reported lost than are missing, for every number of them.
THEOREM ReportCovered == Spec => []LossNotOverstated
<1>1. Init => IInv /\ CalmInv
  BY InitIInv, InitCalm
<1>2. IInv /\ CalmInv /\ [Next]_vars => (IInv /\ CalmInv)'
  BY NextIInv, NextCalm
<1>3. IInv /\ CalmInv => LossNotOverstated
  <2> SUFFICES ASSUME IInv, CalmInv, Calm, NEW t \in Tasks
               PROVE  stats[t].packet_cnt_error <= Cardinality(Missing(t))
    BY DEF LossNotOverstated, Calm
  <2>1. Cardinality(Missing(t)) \in Nat
    BY MissingIsGap, GapFinite
  <2> QED BY <2>1 DEF CalmInv, ReportInv, Tasks
<1> QED BY <1>1, <1>2, <1>3, PTL DEF Spec

-----------------------------------------------------------------------------
(* TimerList: chains.                                                        *)

\* A sequence a, and NULL before and behind it.
Entry(a, k) == IF k \in 1..Len(a) THEN a[k] ELSE NULL

\* The pointers nx lead from the head through a, which holds no timer twice.
IsChain(a, head, nx) ==
  /\ a \in Seq(Timers)
  /\ head = Entry(a, 1)
  /\ \A k \in 1..Len(a) : nx[a[k]] = Entry(a, k + 1)
  /\ \A j, k \in 1..Len(a) : a[j] = a[k] => j = k

\* The least of a set of numbers.
LEMMA LeastNumber ==
  ASSUME NEW S \in SUBSET Nat, S # {}
  PROVE  \E x \in S : \A y \in S : x <= y
<1>1. PICK x \in S : \A y \in S : ~ (<<y, x>> \in OpToRel(<, Nat))
  BY NatLessThanWellFounded, WFMin
<1>2. ASSUME NEW y \in S PROVE x <= y
  <2>1. ~ (<<y, x>> \in OpToRel(<, Nat))
    BY <1>1
  <2>2. <<y, x>> \in Nat \X Nat
    OBVIOUS
  <2>3. ~ (y < x)
    <3> SUFFICES ASSUME y < x PROVE <<y, x>> \in OpToRel(<, Nat)
      BY <2>1
    <3> QED
      BY <2>2 DEF OpToRel
  <2> QED
    BY <2>3
<1> QED
  BY <1>2

LEMMA NullIsNoTimer == NULL \notin Timers
BY TimersAssumption

\* As many timers as places in a chain.
LEMMA NodesCounted ==
  ASSUME NEW a \in Seq(Timers), \A j, k \in 1..Len(a) : a[j] = a[k] => j = k
  PROVE  IsFiniteSet(Nodes(a)) /\ Cardinality(Nodes(a)) = Len(a) /\ Nodes(a) \subseteq Timers
<1>1. Len(a) \in Nat /\ DOMAIN a = 1..Len(a) /\ a \in [1..Len(a) -> Timers]
  OBVIOUS
<1>2. a \in Bijection(1..Len(a), Nodes(a))
  <2>1. a \in [1..Len(a) -> Nodes(a)]
    BY <1>1 DEF Nodes
  <2>2. \A x, y \in 1..Len(a) : a[x] = a[y] => x = y
    OBVIOUS
  <2>3. \A x \in Nodes(a) : \E k \in 1..Len(a) : a[k] = x
    BY <1>1 DEF Nodes
  <2> QED
    BY <2>1, <2>2, <2>3 DEF Bijection, Injection, Surjection, IsInjective
<1>3. ExistsBijection(1..Len(a), Nodes(a))
  BY <1>2 DEF ExistsBijection
<1>4. IsFiniteSet(1..Len(a)) /\ Cardinality(1..Len(a)) = Len(a)
  BY <1>1, FS_Interval
<1>5. Nodes(a) \subseteq Timers
  BY <1>1 DEF Nodes
<1> QED
  BY <1>3, <1>4, <1>5, FS_Bijection

\* Chain walks along the pointers as they lead.
LEMMA ChainIs ==
  ASSUME NEW a, NEW head, NEW nx, IsChain(a, head, nx), Len(a) <= Cardinality(Timers)
  PROVE  Chain(head, nx) = a
<1> DEFINE N == Cardinality(Timers)
           Walk(f) == [k \in 0..N |-> IF k = 0 THEN head
                                      ELSE LET x == f[k - 1] IN IF x = NULL THEN NULL ELSE nx[x]]
           nth == CHOOSE f : f = Walk(f)
           g == [k \in 0..N |-> Entry(a, k + 1)]
<1>0. N \in Nat
  BY TimersAssumption, FS_CardinalityType
<1>1. a \in Seq(Timers) /\ Len(a) \in Nat /\ Len(a) <= N /\ DOMAIN a = 1..Len(a)
  BY DEF IsChain
<1>2. g = Walk(g)
  <2>1. ASSUME NEW k \in 0..N PROVE g[k] = Walk(g)[k]
    <3>1. CASE k = 0
      BY <1>0, <3>1 DEF IsChain
    <3>2. CASE k # 0 /\ k \in 1..Len(a)
      <4>1. g[k - 1] = a[k] /\ a[k] \in Timers
        BY <1>0, <1>1, <3>2 DEF Entry
      <4>2. g[k - 1] # NULL /\ nx[a[k]] = Entry(a, k + 1)
        BY <4>1, <3>2, NullIsNoTimer DEF IsChain
      <4> QED
        BY <1>0, <3>2, <4>1, <4>2
    <3>3. CASE k # 0 /\ k \notin 1..Len(a)
      <4>1. g[k - 1] = NULL /\ g[k] = NULL
        BY <1>0, <1>1, <3>3 DEF Entry
      <4> QED
        BY <1>0, <3>3, <4>1
    <3> QED
      BY <3>1, <3>2, <3>3
  <2> QED
    BY <2>1
<1>3. nth = Walk(nth)
  BY <1>2
<1> HIDE DEF nth
<1>4. \A k \in 0..N : nth[k] = g[k]
  <2> DEFINE S == {k \in 0..N : nth[k] # g[k]}
  <2> SUFFICES ASSUME S # {} PROVE FALSE
    OBVIOUS
  <2>0. S \in SUBSET Nat
    BY <1>0
  <2>1. PICK k \in S : \A y \in S : k <= y
    <3> HIDE DEF S
    <3> QED
      BY <2>0, LeastNumber
  <2>2. k # 0
    BY <1>2, <1>3, <1>0
  <2>3. k - 1 \in 0..N /\ nth[k - 1] = g[k - 1]
    BY <2>1, <2>2, <1>0
  <2>4. nth[k] = Walk(nth)[k] /\ g[k] = Walk(g)[k] /\ k \in 0..N
    BY <1>2, <1>3
  <2>5. nth[k] = g[k]
    <3> HIDE DEF g
    <3> QED
      BY <2>2, <2>3, <2>4
  <2> QED
    BY <2>5
<1> DEFINE length == Cardinality({k \in 0..N : nth[k] # NULL})
<1>5. length = Len(a)
  <2>1. {k \in 0..N : nth[k] # NULL} = 0..Len(a) - 1
    <3>1. ASSUME NEW k \in 0..N PROVE nth[k] # NULL <=> k \in 0..Len(a) - 1
      <4>1. nth[k] = Entry(a, k + 1)
        BY <1>4
      <4>2. k + 1 \in 1..Len(a) <=> k \in 0..Len(a) - 1
        BY <1>0, <1>1
      <4>3. \A i \in 1..Len(a) : a[i] # NULL
        BY <1>1, NullIsNoTimer
      <4> QED
        BY <4>1, <4>2, <4>3 DEF Entry
    <3>2. 0..Len(a) - 1 \subseteq 0..N
      BY <1>0, <1>1
    <3> QED
      BY <3>1, <3>2
  <2>2. Cardinality(0..Len(a) - 1) = Len(a)
    BY <1>1, FS_Interval
  <2> QED
    BY <2>1, <2>2
<1>6. Chain(head, nx) = [k \in 1..length |-> nth[k - 1]]
  BY DEF Chain, nth
<1>7. \A k \in 1..Len(a) : nth[k - 1] = a[k]
  BY <1>0, <1>1, <1>4 DEF Entry
<1> HIDE DEF length
<1>8. [k \in 1..length |-> nth[k - 1]] = [k \in 1..Len(a) |-> a[k]]
  BY <1>5, <1>7
<1>9. a = [k \in 1..Len(a) |-> a[k]]
  BY <1>1
<1> QED
  BY <1>6, <1>8, <1>9

-----------------------------------------------------------------------------
(* Lists: a chain whose prev pointers lead back.                             *)

IsList(a, s) ==
  /\ IsChain(a, s.head, s.nx)
  /\ \A k \in 1..Len(a) : s.pv[a[k]] = Entry(a, k - 1)

\* A function on the timers.
OnTimers(nx) == nx = [y \in Timers |-> nx[y]]

InOrder(a, tm) == \A j, k \in 1..Len(a) : j <= k => tm[a[j]] <= tm[a[k]]

\* Timer x behind the first m of a, and a without its place m.
Inserted(a, m, x) == [k \in 1..Len(a) + 1 |-> IF k <= m THEN a[k] ELSE IF k = m + 1 THEN x ELSE a[k - 1]]
Deleted(a, m) == [k \in 1..Len(a) - 1 |-> IF k < m THEN a[k] ELSE a[k + 1]]

\* Where list_add puts a timer: behind all that are not later than it.
LEMMA InsertAfterIs ==
  ASSUME NEW a, NEW s, IsChain(a, s.head, s.nx), Len(a) <= Cardinality(Timers),
         NEW tm \in [Timers -> Int], NEW x \in Timers
  PROVE  \E m \in 0..Len(a) : /\ InsertAfter(s, x, tm) = Entry(a, m)
                              /\ \A j \in 1..m : tm[a[j]] <= tm[x]
                              /\ m < Len(a) => tm[x] < tm[a[m + 1]]
<1>1. /\ Chain(s.head, s.nx) = a /\ Len(a) \in Nat /\ DOMAIN a = 1..Len(a)
      /\ \A k \in 1..Len(a) : a[k] \in Timers /\ tm[a[k]] \in Int
  <2>1. a \in Seq(Timers)
    BY DEF IsChain
  <2>2. Len(a) \in Nat /\ DOMAIN a = 1..Len(a) /\ \A k \in 1..Len(a) : a[k] \in Timers
    BY <2>1
  <2>3. Chain(s.head, s.nx) = a
    BY ChainIs
  <2> QED
    BY <2>2, <2>3
<1>2. tm[x] \in Int
  OBVIOUS
<1> DEFINE S == {k \in 1..Len(a) + 1 : k <= Len(a) => tm[x] < tm[a[k]]}
           ready == {k \in DOMAIN a : \A j \in 1..k : ~Before(tm[x], tm[a[j]])}
<1>3. S \in SUBSET Nat /\ Len(a) + 1 \in S
  BY <1>1
<1>4. PICK b \in S : \A y \in S : b <= y
  <2> HIDE DEF S
  <2> QED
    BY <1>3, LeastNumber
<1>5. PICK m \in 0..Len(a) : b = m + 1
  BY <1>1, <1>4
<1>6. \A j \in 1..m : tm[a[j]] <= tm[x]
  BY <1>1, <1>2, <1>4, <1>5
<1>7. m < Len(a) => tm[x] < tm[a[m + 1]]
  BY <1>1, <1>4, <1>5
<1>8. ready = 1..m
  <2>1. ASSUME NEW k \in DOMAIN a PROVE k \in ready <=> k <= m
    <3>1. CASE k <= m
      BY <1>1, <1>2, <1>6, <2>1, <3>1 DEF Before
    <3>2. CASE ~(k <= m)
      <4>1. m + 1 \in 1..k /\ m < Len(a)
        BY <1>1, <2>1, <3>2
      <4> QED
        BY <1>1, <1>7, <4>1, <3>2 DEF Before
    <3> QED
      BY <3>1, <3>2
  <2> QED
    BY <1>1, <2>1
<1>9. InsertAfter(s, x, tm) = IF ready = {} THEN NULL ELSE a[CHOOSE k \in ready : \A j \in ready : j <= k]
  BY <1>1 DEF InsertAfter
<1>10. ASSUME m # 0 PROVE (CHOOSE k \in ready : \A j \in ready : j <= k) = m
  <2> DEFINE c == CHOOSE k \in ready : \A j \in ready : j <= k
  <2>1. m \in ready /\ \A j \in ready : j <= m
    BY <1>1, <1>8, <1>10
  <2>2. c \in ready /\ \A j \in ready : j <= c
    <3> HIDE DEF ready
    <3> QED
      BY <2>1
  <2> HIDE DEF c
  <2>3. c = m
    BY <2>1, <2>2, <1>8, <1>1
  <2> QED
    BY <2>3 DEF c
<1>11. InsertAfter(s, x, tm) = Entry(a, m)
  <2>1. CASE m = 0
    BY <1>1, <1>8, <1>9, <2>1 DEF Entry
  <2>2. CASE m # 0
    <3>1. m \in 1..Len(a) /\ m \in ready
      BY <1>1, <1>8, <2>2
    <3> HIDE DEF ready
    <3> QED
      BY <1>9, <1>10, <2>2, <3>1 DEF Entry
  <2> QED
    BY <2>1, <2>2
<1> QED
  BY <1>6, <1>7, <1>11

\* list_add on a list: the timer is in its place, and no other chain is touched.
LEMMA ListAdd ==
  ASSUME NEW a, NEW s, IsList(a, s), Len(a) <= Cardinality(Timers),
         NEW tm \in [Timers -> Int], NEW x \in Timers \ Nodes(a), InOrder(a, tm),
         NEW r, r = list_add(s, x, tm)
  PROVE  \E m, b : m \in 0..Len(a)
           /\ b = Inserted(a, m, x) /\ IsList(b, r) /\ InOrder(b, tm)
           /\ OnTimers(r.nx) /\ OnTimers(r.pv)
           /\ \A y \in Timers \ (Nodes(a) \cup {x}) : r.nx[y] = s.nx[y] /\ r.pv[y] = s.pv[y]
<1>1. /\ a \in Seq(Timers) /\ Len(a) \in Nat /\ DOMAIN a = 1..Len(a)
      /\ \A k \in 1..Len(a) : a[k] \in Timers /\ a[k] # NULL /\ a[k] # x /\ tm[a[k]] \in Int
  BY NullIsNoTimer DEF IsList, IsChain, Nodes
<1>2. x # NULL /\ tm[x] \in Int
  BY NullIsNoTimer
<1>3. PICK m \in 0..Len(a) : /\ InsertAfter(s, x, tm) = Entry(a, m)
                             /\ \A j \in 1..m : tm[a[j]] <= tm[x]
                             /\ m < Len(a) => tm[x] < tm[a[m + 1]]
  BY InsertAfterIs DEF IsList
<1> DEFINE p == Entry(a, m)
           q == Entry(a, m + 1)
           b == Inserted(a, m, x)
<1>22. /\ s.head = Entry(a, 1)
       /\ \A k \in 1..Len(a) : s.nx[a[k]] = Entry(a, k + 1) /\ s.pv[a[k]] = Entry(a, k - 1)
       /\ \A j, k \in 1..Len(a) : a[j] = a[k] => j = k
       /\ \A k \in 1..Len(a) : a[k] # NULL /\ a[k] # x
  BY <1>1 DEF IsList, IsChain
<1>4. q = IF p = NULL THEN s.head ELSE s.nx[p]
  <2>1. CASE m = 0
    <3>1. ~(0 \in 1..Len(a)) /\ 0 + 1 = 1
      BY <1>1
    <3> QED
      BY <1>22, <2>1, <3>1 DEF Entry
  <2>2. CASE m # 0
    <3>1. m \in 1..Len(a)
      BY <1>1, <2>2
    <3> QED
      BY <1>22, <3>1 DEF Entry
  <2> QED
    BY <2>1, <2>2
<1>5. r = Linked(s, p, x, q)
  BY <1>3, <1>4 DEF list_add
<1>6. /\ r.head = IF p = NULL THEN x ELSE s.head
      /\ r.nx = [y \in Timers |-> IF y = x THEN q ELSE IF y = p THEN x ELSE s.nx[y]]
      /\ r.pv = [y \in Timers |-> IF y = x THEN p ELSE IF y = q THEN x ELSE s.pv[y]]
  BY <1>5 DEF Linked
<1>7. /\ Len(b) = Len(a) + 1 /\ DOMAIN b = 1..Len(a) + 1 /\ b \in Seq(Timers)
      /\ \A k \in Nat : k \in 1..m => b[k] = a[k] /\ k \in 1..Len(a)
      /\ b[m + 1] = x
      /\ \A k \in Nat : m + 2 <= k /\ k <= Len(a) + 1 => b[k] = a[k - 1] /\ k - 1 \in 1..Len(a)
      /\ m \in Nat /\ m <= Len(a)
  <2>1. \A k \in 1..Len(a) + 1 : b[k] \in Timers
    BY <1>1 DEF Inserted
  <2>2. b \in Seq(Timers) /\ Len(b) = Len(a) + 1
    BY <1>1, <2>1 DEF Inserted
  <2> QED
    BY <1>1, <2>2 DEF Inserted
<1> HIDE DEF b
<1>8. \A k \in 1..Len(b) : k \in Nat /\ (k \in 1..m \/ k = m + 1 \/ k \in m + 2..Len(a) + 1)
  BY <1>1, <1>7
<1> DEFINE n == Len(a)
           From(k) == IF k <= m THEN k ELSE k - 1
<1>17. n \in Nat /\ Len(b) = n + 1 /\ m \in Nat /\ m <= n
  BY <1>1, <1>7
<1>18. ASSUME NEW k \in 1..Len(b), k # m + 1 PROVE b[k] = a[From(k)] /\ From(k) \in 1..Len(a)
  <2>1. CASE k \in 1..m
    BY <1>7, <1>8, <2>1
  <2>2. CASE k \in m + 2..Len(a) + 1
    <3>1. m + 2 <= k /\ k <= Len(a) + 1 /\ k \in Nat /\ ~(k <= m)
      BY <1>17, <2>2
    <3>2. b[k] = a[k - 1] /\ k - 1 \in 1..Len(a)
      BY <1>7, <3>1
    <3> QED
      BY <3>1, <3>2
  <2> QED
    BY <1>8, <1>18, <2>1, <2>2
<1>20. ASSUME NEW k \in 1..m PROVE b[k] = a[k] /\ k \in 1..Len(a)
  BY <1>7, <1>17
<1>21. ASSUME NEW k \in m + 2..n + 1 PROVE b[k] = a[k - 1] /\ k - 1 \in 1..Len(a)
  <2>1. k \in Nat /\ m + 2 <= k /\ k <= Len(a) + 1
    BY <1>17
  <2> QED
    BY <1>7, <2>1
<1>9. \A j, k \in 1..Len(b) : b[j] = b[k] => j = k
  <2> SUFFICES ASSUME NEW j \in 1..Len(b), NEW k \in 1..Len(b), b[j] = b[k] PROVE j = k
    OBVIOUS
  <2>1. CASE j # m + 1 /\ k # m + 1
    <3>1. a[From(j)] = a[From(k)] /\ From(j) \in 1..Len(a) /\ From(k) \in 1..Len(a)
      BY <1>18, <2>1
    <3>2. From(j) = From(k)
      <4> HIDE DEF From
      <4> QED
        BY <3>1 DEF IsList, IsChain
    <3> QED
      BY <1>17, <2>1, <3>2
  <2>2. CASE j = m + 1 /\ k # m + 1
    <3>1. b[k] = a[From(k)] /\ From(k) \in 1..Len(a)
      BY <1>18, <2>2
    <3> HIDE DEF From
    <3> QED
      BY <1>1, <1>7, <2>2, <3>1
  <2>3. CASE j # m + 1 /\ k = m + 1
    <3>1. b[j] = a[From(j)] /\ From(j) \in 1..Len(a)
      BY <1>18, <2>3
    <3> HIDE DEF From
    <3> QED
      BY <1>1, <1>7, <2>3, <3>1
  <2> QED
    BY <2>1, <2>2, <2>3
<1>10. r.head = Entry(b, 1)
  <2>1. CASE m = 0
    BY <1>1, <1>6, <1>7, <2>1 DEF Entry
  <2>2. CASE m # 0
    BY <1>1, <1>6, <1>7, <2>2 DEF Entry, IsList, IsChain
  <2> QED
    BY <2>1, <2>2
<1>11. ASSUME NEW k \in 1..Len(b) PROVE r.nx[b[k]] = Entry(b, k + 1)
  <2>1. CASE k \in 1..m - 1
    <3>1. k \in 1..m /\ k + 1 \in 1..m /\ m \in 1..m /\ k # m /\ k + 1 \in 1..Len(b)
      BY <1>17, <2>1
    <3>2. b[k] = a[k] /\ b[k + 1] = a[k + 1] /\ k + 1 \in 1..Len(a) /\ k \in 1..Len(a) /\ m \in 1..Len(a)
      BY <1>20, <3>1
    <3>3. a[k] # x /\ p = a[m] /\ a[k] # p /\ a[k] \in Timers
      BY <1>1, <1>22, <3>1, <3>2 DEF Entry
    <3>4. r.nx[a[k]] = s.nx[a[k]]
      BY <1>6, <3>3
    <3>5. s.nx[a[k]] = a[k + 1] /\ Entry(b, k + 1) = b[k + 1]
      BY <1>22, <3>1, <3>2 DEF Entry
    <3> QED
      BY <3>2, <3>4, <3>5
  <2>2. CASE k = m
    <3>0. m \in 1..m /\ m \in Nat /\ m + 1 \in 1..Len(b)
      BY <1>17, <2>2
    <3>1. b[k] = a[m] /\ b[k + 1] = x /\ m \in 1..Len(a)
      BY <1>7, <2>2, <3>0
    <3>2. a[m] = p /\ a[m] \in Timers /\ a[m] # x /\ Entry(b, k + 1) = x
      BY <1>1, <1>22, <2>2, <3>0, <3>1 DEF Entry
    <3> QED
      BY <1>6, <3>1, <3>2
  <2>3. CASE k = m + 1
    <3>1. b[k] = x /\ r.nx[x] = q
      BY <1>6, <1>7, <2>3
    <3>2. q = Entry(b, k + 1)
      <4>1. CASE m = n
        BY <1>17, <2>3, <4>1 DEF Entry
      <4>2. CASE m # n
        <5>1. k + 1 \in m + 2..n + 1 /\ k + 1 \in 1..Len(b) /\ m + 1 \in 1..Len(a) /\ (k + 1) - 1 = m + 1
          BY <1>17, <2>3, <4>2
        <5>2. b[k + 1] = a[m + 1]
          BY <1>21, <5>1
        <5> QED
          BY <5>1, <5>2 DEF Entry
      <4> QED
        BY <4>1, <4>2
    <3> QED
      BY <3>1, <3>2
  <2>4. CASE k \in m + 2..n + 1
    <3>1. b[k] = a[k - 1] /\ k - 1 \in 1..Len(a) /\ k - 1 # m /\ (k - 1) + 1 = k
      BY <1>17, <1>21, <2>4
    <3>2. a[k - 1] # x /\ a[k - 1] # p /\ a[k - 1] \in Timers
      BY <1>1, <1>22, <3>1 DEF Entry
    <3>3. s.nx[a[k - 1]] = Entry(a, k)
      BY <1>22, <3>1
    <3>4. Entry(b, k + 1) = Entry(a, k)
      <4>1. CASE k = n + 1
        BY <1>17, <4>1 DEF Entry
      <4>2. CASE k # n + 1
        <5>1. k + 1 \in 1..Len(b) /\ k + 1 \in m + 2..n + 1 /\ (k + 1) - 1 = k /\ k \in 1..Len(a)
          BY <1>17, <2>4, <4>2
        <5>2. b[k + 1] = a[k]
          BY <1>21, <5>1
        <5> QED
          BY <5>1, <5>2 DEF Entry
      <4> QED
        BY <4>1, <4>2
    <3> QED
      BY <1>6, <3>1, <3>2, <3>3, <3>4
  <2>5. k \in 1..m - 1 \/ k = m \/ k = m + 1 \/ k \in m + 2..n + 1
    BY <1>17
  <2> QED
    BY <2>1, <2>2, <2>3, <2>4, <2>5
<1>12. ASSUME NEW k \in 1..Len(b) PROVE r.pv[b[k]] = Entry(b, k - 1)
  <2>1. CASE k \in 1..m
    <3>1. b[k] = a[k] /\ k \in 1..Len(a) /\ k # m + 1
      BY <1>17, <1>20, <2>1
    <3>2. a[k] # x /\ a[k] # q /\ a[k] \in Timers
      BY <1>1, <1>22, <3>1 DEF Entry
    <3>3. s.pv[a[k]] = Entry(a, k - 1)
      BY <1>22, <3>1
    <3>4. Entry(b, k - 1) = Entry(a, k - 1)
      <4>1. CASE k = 1
        BY <4>1 DEF Entry
      <4>2. CASE k # 1
        <5>1. k - 1 \in 1..m /\ k - 1 \in 1..Len(b) /\ k - 1 \in 1..Len(a)
          BY <1>17, <2>1, <4>2
        <5> QED
          BY <1>20, <5>1 DEF Entry
      <4> QED
        BY <4>1, <4>2
    <3> QED
      BY <1>6, <3>1, <3>2, <3>3, <3>4
  <2>2. CASE k = m + 1
    <3>1. Entry(b, k - 1) = Entry(a, m)
      <4>1. CASE m = 0
        BY <2>2, <4>1 DEF Entry
      <4>2. CASE m # 0
        <5>1. k - 1 = m /\ m \in 1..m /\ m \in 1..Len(b) /\ m \in 1..Len(a)
          BY <1>17, <2>2, <4>2
        <5> QED
          BY <1>20, <5>1 DEF Entry
      <4> QED
        BY <4>1, <4>2
    <3> QED
      BY <1>6, <1>7, <2>2, <3>1
  <2>3. CASE k = m + 2
    <3>0. k \in m + 2..n + 1 /\ k - 1 = m + 1 /\ m + 1 \in 1..Len(b)
      BY <1>17, <2>3
    <3>1. b[k] = a[m + 1] /\ m + 1 \in 1..Len(a)
      BY <1>21, <3>0
    <3>2. Entry(b, k - 1) = x
      BY <1>7, <3>0 DEF Entry
    <3>3. q = a[m + 1] /\ q # x /\ q \in Timers
      BY <1>1, <1>22, <3>1 DEF Entry
    <3> QED
      BY <1>6, <3>1, <3>2, <3>3
  <2>4. CASE k \in m + 3..n + 1
    <3>0. k \in m + 2..n + 1 /\ k - 1 \in m + 2..n + 1 /\ k - 1 # m + 1 /\ (k - 1) - 1 = k - 2 /\ k - 1 \in 1..Len(b)
      BY <1>17, <2>4
    <3>1. b[k] = a[k - 1] /\ k - 1 \in 1..Len(a) /\ b[k - 1] = a[k - 2] /\ k - 2 \in 1..Len(a)
      BY <1>21, <3>0
    <3>2. a[k - 1] # x /\ a[k - 1] # q /\ a[k - 1] \in Timers
      BY <1>1, <1>22, <3>0, <3>1 DEF Entry
    <3>3. s.pv[a[k - 1]] = Entry(a, k - 2)
      BY <1>22, <3>0, <3>1
    <3>4. Entry(b, k - 1) = Entry(a, k - 2)
      BY <3>0, <3>1 DEF Entry
    <3> QED
      BY <1>6, <3>1, <3>2, <3>3, <3>4
  <2>5. k \in 1..m \/ k = m + 1 \/ k = m + 2 \/ k \in m + 3..n + 1
    BY <1>17
  <2> QED
    BY <2>1, <2>2, <2>3, <2>4, <2>5
<1>13. InOrder(b, tm)
  <2> SUFFICES ASSUME NEW j \in 1..Len(b), NEW k \in 1..Len(b), j <= k PROVE tm[b[j]] <= tm[b[k]]
    BY DEF InOrder
  <2>1. CASE k \in 1..m
    <3>1. j \in 1..m
      BY <1>17, <2>1
    <3> QED
      BY <1>20, <2>1, <3>1 DEF InOrder
  <2>2. CASE k = m + 1 /\ j = m + 1
    BY <1>2, <1>7, <2>2
  <2>6. CASE k = m + 1 /\ j \in 1..m
    BY <1>3, <1>7, <1>20, <2>6
  <2>3. CASE k \in m + 2..n + 1 /\ j \in 1..m
    <3>1. b[j] = a[j] /\ b[k] = a[k - 1] /\ j \in 1..Len(a) /\ k - 1 \in 1..Len(a)
      BY <1>20, <1>21, <2>3
    <3>2. j <= k - 1
      BY <1>17, <2>3
    <3> QED
      BY <3>1, <3>2 DEF InOrder
  <2>4. CASE k \in m + 2..n + 1 /\ j = m + 1
    <3>0. b[k] = a[k - 1] /\ k - 1 \in 1..Len(a)
      BY <1>21, <2>4
    <3>1. m + 1 \in 1..Len(a) /\ m + 1 <= k - 1 /\ m < Len(a)
      BY <1>17, <2>4
    <3>2. tm[a[m + 1]] <= tm[a[k - 1]]
      BY <3>0, <3>1 DEF InOrder
    <3>3. tm[x] < tm[a[m + 1]]
      BY <1>3, <3>1
    <3>4. tm[a[m + 1]] \in Int /\ tm[a[k - 1]] \in Int
      BY <1>1, <3>0, <3>1
    <3>5. tm[x] <= tm[a[k - 1]]
      BY <1>2, <3>2, <3>3, <3>4
    <3> QED
      BY <1>7, <2>4, <3>0, <3>5
  <2>5. CASE k \in m + 2..n + 1 /\ j \in m + 2..n + 1
    <3>1. b[j] = a[j - 1] /\ b[k] = a[k - 1] /\ j - 1 \in 1..Len(a) /\ k - 1 \in 1..Len(a)
      BY <1>21, <2>5
    <3>2. j - 1 <= k - 1
      BY <1>17, <2>5
    <3> QED
      BY <3>1, <3>2 DEF InOrder
  <2>7. /\ k \in 1..m \/ k = m + 1 \/ k \in m + 2..n + 1
        /\ j \in 1..m \/ j = m + 1 \/ j \in m + 2..n + 1
        /\ k \in 1..m => j \in 1..m
        /\ k = m + 1 => j \in 1..m \/ j = m + 1
    BY <1>17
  <2> QED
    BY <2>1, <2>2, <2>3, <2>4, <2>5, <2>6, <2>7
<1>14. \A y \in Timers \ (Nodes(a) \cup {x}) : r.nx[y] = s.nx[y] /\ r.pv[y] = s.pv[y]
  <2> SUFFICES ASSUME NEW y \in Timers \ (Nodes(a) \cup {x}) PROVE r.nx[y] = s.nx[y] /\ r.pv[y] = s.pv[y]
    OBVIOUS
  <2>1. y # p /\ y # q
    BY <1>1, NullIsNoTimer DEF Entry, Nodes
  <2> QED
    BY <1>6, <2>1
<1>15. OnTimers(r.nx) /\ OnTimers(r.pv)
  BY <1>6 DEF OnTimers
<1>16. IsList(b, r)
  BY <1>7, <1>9, <1>10, <1>11, <1>12 DEF IsList, IsChain
<1>19. b = Inserted(a, m, x)
  BY DEF b
<1> QED
  BY <1>13, <1>14, <1>15, <1>16, <1>19

\* The nodes of a list that has been changed.
LEMMA InsertedIs ==
  ASSUME NEW a \in Seq(Timers), NEW m \in 0..Len(a), NEW x \in Timers
  PROVE  /\ Inserted(a, m, x) \in Seq(Timers) /\ Len(Inserted(a, m, x)) = Len(a) + 1
         /\ \A k \in 1..Len(a) + 1 :
              Inserted(a, m, x)[k] = IF k <= m THEN a[k] ELSE IF k = m + 1 THEN x ELSE a[k - 1]
         /\ Nodes(Inserted(a, m, x)) = Nodes(a) \cup {x}
<1> DEFINE b == Inserted(a, m, x)
           n == Len(a)
<1>1. n \in Nat /\ m \in Nat /\ m <= n /\ DOMAIN a = 1..n /\ \A k \in 1..n : a[k] \in Timers
  OBVIOUS
<1>2. \A k \in 1..n + 1 : (IF k <= m THEN a[k] ELSE IF k = m + 1 THEN x ELSE a[k - 1]) \in Timers
  BY <1>1
<1>3. b \in Seq(Timers) /\ Len(b) = n + 1 /\ DOMAIN b = 1..n + 1
  BY <1>1, <1>2 DEF Inserted
<1>4. \A k \in 1..n + 1 : b[k] = IF k <= m THEN a[k] ELSE IF k = m + 1 THEN x ELSE a[k - 1]
  BY DEF Inserted
<1> HIDE DEF b
<1>5. ASSUME NEW k \in 1..n PROVE a[k] \in Nodes(b)
  <2>1. CASE k <= m
    <3>1. k \in 1..n + 1 /\ b[k] = a[k]
      BY <1>1, <1>4, <2>1
    <3> QED
      BY <1>3, <3>1 DEF Nodes
  <2>2. CASE ~(k <= m)
    <3>1. k + 1 \in 1..n + 1 /\ ~(k + 1 <= m) /\ k + 1 # m + 1 /\ (k + 1) - 1 = k
      BY <1>1, <2>2
    <3>2. b[k + 1] = a[k]
      BY <1>4, <3>1
    <3> QED
      BY <1>3, <3>1, <3>2 DEF Nodes
  <2> QED
    BY <2>1, <2>2
<1>6. x \in Nodes(b)
  <2>1. m + 1 \in 1..n + 1 /\ b[m + 1] = x
    BY <1>1, <1>4
  <2> QED
    BY <1>3, <2>1 DEF Nodes
<1>7. ASSUME NEW k \in 1..n + 1 PROVE b[k] \in Nodes(a) \cup {x}
  <2>1. CASE k <= m
    BY <1>1, <1>4, <2>1 DEF Nodes
  <2>2. CASE k > m + 1
    <3>1. b[k] = a[k - 1] /\ k - 1 \in 1..n
      BY <1>1, <1>4, <2>2
    <3> QED
      BY <1>1, <3>1 DEF Nodes
  <2>3. CASE k = m + 1
    BY <1>1, <1>4, <2>3
  <2> QED
    BY <1>1, <2>1, <2>2, <2>3
<1>8. Nodes(b) = Nodes(a) \cup {x}
  <2>1. Nodes(b) \subseteq Nodes(a) \cup {x}
    BY <1>3, <1>7 DEF Nodes
  <2>2. Nodes(a) \subseteq Nodes(b)
    BY <1>1, <1>5 DEF Nodes
  <2> QED
    BY <1>6, <2>1, <2>2
<1> QED
  BY <1>3, <1>4, <1>8 DEF b

LEMMA DeletedIs ==
  ASSUME NEW a \in Seq(Timers), \A j, k \in 1..Len(a) : a[j] = a[k] => j = k, NEW m \in 1..Len(a)
  PROVE  /\ Deleted(a, m) \in Seq(Timers) /\ Len(Deleted(a, m)) = Len(a) - 1
         /\ \A k \in 1..Len(a) - 1 : Deleted(a, m)[k] = IF k < m THEN a[k] ELSE a[k + 1]
         /\ Nodes(Deleted(a, m)) = Nodes(a) \ {a[m]}
<1> DEFINE b == Deleted(a, m)
           n == Len(a)
<1>1. n \in Nat /\ n - 1 \in Nat /\ m \in Nat /\ 1 <= m /\ m <= n /\ DOMAIN a = 1..n /\ \A k \in 1..n : a[k] \in Timers
  OBVIOUS
<1>2. \A k \in 1..n - 1 : (IF k < m THEN a[k] ELSE a[k + 1]) \in Timers
  BY <1>1
<1>3. b \in Seq(Timers) /\ Len(b) = n - 1 /\ DOMAIN b = 1..n - 1
  BY <1>1, <1>2 DEF Deleted
<1>4. \A k \in 1..n - 1 : b[k] = IF k < m THEN a[k] ELSE a[k + 1]
  BY DEF Deleted
<1> HIDE DEF b
<1>5. ASSUME NEW k \in 1..n, k # m PROVE a[k] \in Nodes(b)
  <2>1. CASE k < m
    <3>1. k \in 1..n - 1 /\ b[k] = a[k]
      BY <1>1, <1>4, <2>1
    <3> QED
      BY <1>3, <3>1 DEF Nodes
  <2>2. CASE k > m
    <3>1. k - 1 \in 1..n - 1 /\ ~(k - 1 < m) /\ (k - 1) + 1 = k
      BY <1>1, <2>2
    <3>2. b[k - 1] = a[k]
      BY <1>4, <3>1
    <3> QED
      BY <1>3, <3>1, <3>2 DEF Nodes
  <2> QED
    BY <1>1, <1>5, <2>1, <2>2
<1>6. ASSUME NEW k \in 1..n - 1 PROVE b[k] \in Nodes(a) \ {a[m]}
  <2>1. CASE k < m
    <3>1. b[k] = a[k] /\ k \in 1..n /\ k # m
      BY <1>1, <1>4, <2>1
    <3> QED
      BY <1>1, <3>1 DEF Nodes
  <2>2. CASE ~(k < m)
    <3>1. b[k] = a[k + 1] /\ k + 1 \in 1..n /\ k + 1 # m
      BY <1>1, <1>4, <2>2
    <3> QED
      BY <1>1, <3>1 DEF Nodes
  <2> QED
    BY <2>1, <2>2
<1>7. Nodes(b) = Nodes(a) \ {a[m]}
  <2>1. Nodes(b) \subseteq Nodes(a) \ {a[m]}
    BY <1>3, <1>6 DEF Nodes
  <2>2. Nodes(a) \ {a[m]} \subseteq Nodes(b)
    BY <1>1, <1>5 DEF Nodes
  <2> QED
    BY <2>1, <2>2
<1> QED
  BY <1>3, <1>4, <1>7 DEF b

\* list_remove takes a timer out of the list and touches no other chain; the timer keeps its
\* own pointers.
LEMMA ListRemove ==
  ASSUME NEW a, NEW s, IsList(a, s), NEW m \in 1..Len(a),
         NEW r, r = list_remove(s, a[m]), NEW b, b = Deleted(a, m)
  PROVE  /\ IsList(b, r)
         /\ OnTimers(r.nx) /\ OnTimers(r.pv)
         /\ \A y \in Timers \ Nodes(b) : r.nx[y] = s.nx[y] /\ r.pv[y] = s.pv[y]
<1> DEFINE n == Len(a)
<1>1. /\ a \in Seq(Timers) /\ n \in Nat /\ DOMAIN a = 1..n
      /\ \A k \in 1..n : a[k] \in Timers /\ a[k] # NULL
      /\ \A j, k \in 1..n : a[j] = a[k] => j = k
      /\ m \in Nat /\ 1 <= m /\ m <= n
  BY NullIsNoTimer DEF IsList, IsChain
<1>0. n \in Nat /\ m \in Nat /\ 1 <= m /\ m <= n
  BY <1>1
<1>2. /\ b \in Seq(Timers) /\ Len(b) = n - 1 /\ DOMAIN b = 1..n - 1 /\ n - 1 \in Nat
      /\ \A k \in 1..n - 1 : b[k] = IF k < m THEN a[k] ELSE a[k + 1]
      /\ Nodes(b) = Nodes(a) \ {a[m]}
  <2>1. DOMAIN b = 1..n - 1
    BY DEF Deleted
  <2>2. /\ Deleted(a, m) \in Seq(Timers) /\ Len(Deleted(a, m)) = n - 1
        /\ \A k \in 1..n - 1 : Deleted(a, m)[k] = IF k < m THEN a[k] ELSE a[k + 1]
        /\ Nodes(Deleted(a, m)) = Nodes(a) \ {a[m]}
    BY <1>1, DeletedIs
  <2>3. n - 1 \in Nat
    BY <1>0
  <2> QED
    BY <2>1, <2>2, <2>3
<1> DEFINE x == a[m]
           p == Entry(a, m - 1)
           q == Entry(a, m + 1)
<1>3. s.nx[x] = q /\ s.pv[x] = p /\ s.head = a[1]
  <2>1. s.head = Entry(a, 1)
    BY DEF IsList, IsChain
  <2>2. 1 \in 1..n
    BY <1>1
  <2> QED
    BY <2>1, <2>2 DEF IsList, IsChain, Entry
<1>4. /\ r.head = IF p = NULL THEN q ELSE s.head
      /\ r.nx = [y \in Timers |-> IF y = p THEN q ELSE s.nx[y]]
      /\ r.pv = [y \in Timers |-> IF y = q THEN p ELSE s.pv[y]]
  BY <1>3 DEF list_remove
<1> DEFINE From(k) == IF k < m THEN k ELSE k + 1
<1>5. ASSUME NEW k \in 1..n - 1 PROVE b[k] = a[From(k)] /\ From(k) \in 1..n /\ From(k) # m
  BY <1>1, <1>2
<1>6. \A j, k \in 1..Len(b) : b[j] = b[k] => j = k
  <2> SUFFICES ASSUME NEW j \in 1..n - 1, NEW k \in 1..n - 1, b[j] = b[k] PROVE j = k
    BY <1>2
  <2>1. a[From(j)] = a[From(k)] /\ From(j) \in 1..n /\ From(k) \in 1..n
    BY <1>5
  <2>2. From(j) = From(k)
    <3> HIDE DEF From
    <3> QED
      BY <1>1, <2>1
  <2> QED
    BY <1>1, <2>2
<1>7. r.head = Entry(b, 1)
  <2>1. CASE m = 1
    <3>1. p = NULL
      BY <2>1 DEF Entry
    <3>2. q = Entry(b, 1)
      <4>1. CASE n = 1
        BY <1>1, <1>2, <2>1, <4>1 DEF Entry
      <4>2. CASE n > 1
        <5>1. 1 \in 1..n - 1 /\ 2 \in 1..n /\ b[1] = a[2]
          BY <1>1, <1>2, <2>1, <4>2
        <5> QED
          BY <1>2, <2>1, <5>1 DEF Entry
      <4> QED
        BY <1>1, <4>1, <4>2
    <3> QED
      BY <1>4, <3>1, <3>2
  <2>2. CASE m # 1
    <3>1. m - 1 \in 1..n /\ 1 \in 1..n - 1 /\ b[1] = a[1]
      BY <1>1, <1>2, <2>2
    <3>2. p # NULL
      BY <1>1, <3>1 DEF Entry
    <3> QED
      BY <1>2, <1>3, <1>4, <3>1, <3>2 DEF Entry
  <2> QED
    BY <2>1, <2>2
<1>8. \A k \in 1..n : a[k] = p <=> k = m - 1
  <2> SUFFICES ASSUME NEW k \in 1..n PROVE a[k] = p <=> k = m - 1
    OBVIOUS
  <2>1. CASE m = 1
    BY <1>1, <2>1 DEF Entry
  <2>2. CASE m # 1
    <3>1. m - 1 \in 1..n
      BY <1>1, <2>2
    <3> QED
      BY <1>1, <3>1 DEF Entry
  <2> QED
    BY <2>1, <2>2
<1>9. \A k \in 1..n : a[k] = q <=> k = m + 1
  <2> SUFFICES ASSUME NEW k \in 1..n PROVE a[k] = q <=> k = m + 1
    OBVIOUS
  <2>1. CASE m = n
    BY <1>1, <2>1 DEF Entry
  <2>2. CASE m # n
    <3>1. m + 1 \in 1..n
      BY <1>0, <2>2
    <3> QED
      BY <1>1, <3>1 DEF Entry
  <2> QED
    BY <2>1, <2>2
<1>10. \A k \in 1..n : s.nx[a[k]] = Entry(a, k + 1) /\ s.pv[a[k]] = Entry(a, k - 1)
  BY DEF IsList, IsChain
<1> HIDE DEF From
<1>11. ASSUME NEW k \in 1..n - 1 PROVE r.nx[b[k]] = Entry(b, k + 1) /\ r.pv[b[k]] = Entry(b, k - 1)
  <2>0. k \in Nat /\ 1 <= k /\ k <= n - 1
    BY <1>2
  <2>1. CASE k < m - 1
    <3>1. b[k] = a[k] /\ k \in 1..n /\ k # m - 1 /\ k # m + 1 /\ k + 1 \in 1..n - 1 /\ k + 1 \in 1..n /\ b[k + 1] = a[k + 1]
      BY <1>1, <1>2, <2>0, <2>1
    <3>2. Entry(b, k + 1) = Entry(a, k + 1)
      BY <1>2, <3>1 DEF Entry
    <3>3. Entry(b, k - 1) = Entry(a, k - 1)
      <4>1. CASE k = 1
        BY <4>1 DEF Entry
      <4>2. CASE k # 1
        <5>1. k - 1 \in 1..n - 1 /\ k - 1 \in 1..n /\ b[k - 1] = a[k - 1]
          BY <1>1, <1>2, <2>0, <2>1, <4>2
        <5> QED
          BY <1>2, <5>1 DEF Entry
      <4> QED
        BY <4>1, <4>2
    <3>4. r.nx[b[k]] = s.nx[a[k]] /\ r.pv[b[k]] = s.pv[a[k]]
      BY <1>1, <1>4, <1>8, <1>9, <3>1
    <3> QED
      BY <1>10, <3>1, <3>2, <3>3, <3>4
  <2>2. CASE k = m - 1
    <3>1. b[k] = a[k] /\ k \in 1..n /\ k = m - 1 /\ k # m + 1
      BY <1>1, <1>2, <2>0, <2>2
    <3>2. r.nx[b[k]] = q /\ r.pv[b[k]] = s.pv[a[k]]
      BY <1>1, <1>4, <1>8, <1>9, <3>1
    <3>3. q = Entry(b, k + 1)
      <4>1. CASE m = n
        BY <1>1, <1>2, <2>2, <4>1 DEF Entry
      <4>2. CASE m # n
        <5>1. k + 1 = m /\ m \in 1..n - 1 /\ m + 1 \in 1..n /\ ~(m < m)
          BY <1>0, <2>2, <4>2
        <5>2. b[m] = a[m + 1]
          BY <1>2, <5>1
        <5> QED
          BY <1>2, <5>1, <5>2 DEF Entry
      <4> QED
        BY <4>1, <4>2
    <3>4. Entry(b, k - 1) = Entry(a, k - 1)
      <4>1. CASE k = 1
        BY <4>1 DEF Entry
      <4>2. CASE k # 1
        <5>1. k - 1 \in 1..n - 1 /\ k - 1 \in 1..n /\ b[k - 1] = a[k - 1]
          BY <1>1, <1>2, <2>0, <2>2, <4>2
        <5> QED
          BY <1>2, <5>1 DEF Entry
      <4> QED
        BY <4>1, <4>2
    <3> QED
      BY <1>10, <3>1, <3>2, <3>3, <3>4
  <2>3. CASE k = m
    <3>1. b[k] = a[k + 1] /\ k + 1 \in 1..n /\ k + 1 = m + 1 /\ k + 1 # m - 1
      BY <1>1, <1>2, <2>0, <2>3
    <3>2. r.nx[b[k]] = s.nx[a[k + 1]] /\ r.pv[b[k]] = p
      BY <1>1, <1>4, <1>8, <1>9, <3>1
    <3>3. Entry(a, k + 2) = Entry(b, k + 1)
      <4>1. CASE k = n - 1
        BY <1>1, <1>2, <4>1 DEF Entry
      <4>2. CASE k # n - 1
        <5>1. k + 1 \in 1..n - 1 /\ k + 2 \in 1..n /\ ~(k + 1 < m) /\ (k + 1) + 1 = k + 2
          BY <1>0, <2>0, <2>3, <4>2
        <5>2. b[k + 1] = a[k + 2]
          BY <1>2, <5>1
        <5> QED
          BY <1>2, <5>1, <5>2 DEF Entry
      <4> QED
        BY <4>1, <4>2
    <3>4. Entry(b, k - 1) = p
      <4>1. CASE k = 1
        BY <2>3, <4>1 DEF Entry
      <4>2. CASE k # 1
        <5>1. k - 1 \in 1..n - 1 /\ k - 1 \in 1..n /\ b[k - 1] = a[k - 1]
          BY <1>1, <1>2, <2>0, <2>3, <4>2
        <5> QED
          BY <1>2, <2>3, <5>1 DEF Entry
      <4> QED
        BY <4>1, <4>2
    <3>5. s.nx[a[k + 1]] = Entry(a, k + 2)
      BY <1>10, <2>0, <3>1
    <3> QED
      BY <3>2, <3>3, <3>4, <3>5
  <2>4. CASE k > m
    <3>1. b[k] = a[k + 1] /\ k + 1 \in 1..n /\ k + 1 # m + 1 /\ k + 1 # m - 1
      BY <1>1, <1>2, <2>0, <2>4
    <3>2. r.nx[b[k]] = s.nx[a[k + 1]] /\ r.pv[b[k]] = s.pv[a[k + 1]]
      BY <1>1, <1>4, <1>8, <1>9, <3>1
    <3>3. Entry(a, k + 2) = Entry(b, k + 1)
      <4>1. CASE k = n - 1
        BY <1>1, <1>2, <4>1 DEF Entry
      <4>2. CASE k # n - 1
        <5>1. k + 1 \in 1..n - 1 /\ k + 2 \in 1..n /\ ~(k + 1 < m) /\ (k + 1) + 1 = k + 2
          BY <1>0, <2>0, <2>4, <4>2
        <5>2. b[k + 1] = a[k + 2]
          BY <1>2, <5>1
        <5> QED
          BY <1>2, <5>1, <5>2 DEF Entry
      <4> QED
        BY <4>1, <4>2
    <3>4. Entry(b, k - 1) = Entry(a, k)
      <4>1. k - 1 \in 1..n - 1 /\ k \in 1..n /\ b[k - 1] = a[k]
        BY <1>1, <1>2, <2>0, <2>4
      <4> QED
        BY <1>2, <4>1 DEF Entry
    <3>5. s.nx[a[k + 1]] = Entry(a, k + 2) /\ s.pv[a[k + 1]] = Entry(a, k)
      BY <1>10, <2>0, <3>1
    <3> QED
      BY <3>2, <3>3, <3>4, <3>5
  <2> QED
    BY <1>1, <2>0, <2>1, <2>2, <2>3, <2>4
<1>12. \A y \in Timers \ Nodes(b) : r.nx[y] = s.nx[y] /\ r.pv[y] = s.pv[y]
  <2> SUFFICES ASSUME NEW y \in Timers \ Nodes(b) PROVE r.nx[y] = s.nx[y] /\ r.pv[y] = s.pv[y]
    OBVIOUS
  <2>1. y = x \/ \A k \in 1..n : a[k] # y
    BY <1>1, <1>2 DEF Nodes
  <2>2. y # p /\ y # q
    <3>1. CASE y = x
      BY <1>1, <1>8, <1>9, <3>1
    <3>2. CASE \A k \in 1..n : a[k] # y
      BY <3>2, NullIsNoTimer DEF Entry
    <3> QED
      BY <2>1, <3>1, <3>2
  <2> QED
    BY <1>4, <2>2
<1>13. OnTimers(r.nx) /\ OnTimers(r.pv)
  BY <1>4 DEF OnTimers
<1>14. IsList(b, r)
  BY <1>2, <1>6, <1>7, <1>11 DEF IsList, IsChain
<1> QED
  BY <1>12, <1>13, <1>14

-----------------------------------------------------------------------------
(* The invariant.                                                            *)

\* Timer x is in the list a and y is not before it.
Follows(a, x, y) == \E i, j \in 1..Len(a) : i <= j /\ a[i] = x /\ a[j] = y

\* The active list a and the free list f are apart and hold all of the heap; nothing else
\* has pointers.
Lists(a, f) ==
  /\ heap \subseteq Timers
  /\ IsList(a, This) /\ IsChain(f, free_timers, next)
  /\ Nodes(a) \cap Nodes(f) = {} /\ Nodes(a) \cup Nodes(f) = heap
  /\ \A x \in Nodes(f) : prev[x] = NULL
  /\ \A x \in Timers \ heap : next[x] = NULL /\ prev[x] = NULL
  /\ InOrder(a, time)

\* The pointers of timer_run are to active timers, and it has remembered another one than that
\* which is called back.
Walk(a) ==
  /\ phase = "client" => current = NULL
  /\ phase # "callback" => t_next = NULL
  /\ phase = "walk" => current \in Nodes(a) \cup {NULL}
  /\ phase = "callback" => current \in Nodes(a) /\ t_next \in Nodes(a) \cup {NULL} /\ t_next # current

\* What is due is not before the timer the walk is at, or comes to next.
Ahead(a) ==
  /\ now <= clock
  /\ \A y \in due : time[y] <= now
  /\ phase = "client" => due = {}
  /\ phase = "walk" => \A y \in due : Follows(a, current, y)
  /\ phase = "callback" => current \notin due /\ \A y \in due : Follows(a, t_next, y)

\* No active timer is set to a time that the bounds exclude.
Bounded(a) ==
  /\ \A x \in Nodes(a) : /\ usecs[x] \in Delays /\ (periodic[x] => usecs[x] \in Periods)
                         /\ time[x] <= MaxClock + 2 * usecs[x]
  /\ phase = "callback" => time[current] <= MaxClock + usecs[current]

active == Chain(timers, next)
free == Chain(free_timers, next)

TimersInv == TimersTypeOK /\ Lists(active, free) /\ Walk(active)
PassInv == Ahead(active) /\ Bounded(active)

-----------------------------------------------------------------------------
(* What the operations make of the lists.                                    *)

LEMMA FollowsInserted ==
  ASSUME NEW a \in Seq(Timers), NEW m \in 0..Len(a), NEW x \in Timers, NEW y, NEW z, Follows(a, y, z)
  PROVE  Follows(Inserted(a, m, x), y, z)
<1> DEFINE b == Inserted(a, m, x)
           Moved(k) == IF k <= m THEN k ELSE k + 1
<1>1. PICK i, j \in 1..Len(a) : i <= j /\ a[i] = y /\ a[j] = z
  BY DEF Follows
<1>2. Len(b) = Len(a) + 1 /\ Len(a) \in Nat /\ m \in Nat /\ m <= Len(a)
  BY InsertedIs
<1>3. ASSUME NEW k \in 1..Len(a) PROVE b[Moved(k)] = a[k] /\ Moved(k) \in 1..Len(b)
  <2>1. Moved(k) \in 1..Len(a) + 1 /\ (Moved(k) <= m <=> k <= m) /\ Moved(k) # m + 1 /\ (k <= m => Moved(k) = k)
        /\ (~(k <= m) => Moved(k) - 1 = k)
    BY <1>2
  <2>2. b[Moved(k)] = IF Moved(k) <= m THEN a[Moved(k)] ELSE IF Moved(k) = m + 1 THEN x ELSE a[Moved(k) - 1]
    <3> HIDE DEF Moved
    <3> QED
      BY <2>1, InsertedIs
  <2> HIDE DEF Moved
  <2> QED
    BY <1>2, <2>1, <2>2
<1>4. Moved(i) <= Moved(j)
  BY <1>1, <1>2
<1> HIDE DEF Moved, b
<1>5. Follows(b, y, z)
  BY <1>1, <1>3, <1>4 DEF Follows
<1> QED
  BY <1>5 DEF b

LEMMA FollowsDeleted ==
  ASSUME NEW a \in Seq(Timers), \A j, k \in 1..Len(a) : a[j] = a[k] => j = k, NEW m \in 1..Len(a),
         NEW y, NEW z, y # a[m], z # a[m], Follows(a, y, z)
  PROVE  Follows(Deleted(a, m), y, z)
<1> DEFINE b == Deleted(a, m)
           Moved(k) == IF k < m THEN k ELSE k - 1
<1>1. PICK i, j \in 1..Len(a) : i <= j /\ a[i] = y /\ a[j] = z
  BY DEF Follows
<1>2. Len(b) = Len(a) - 1 /\ Len(a) \in Nat /\ m \in Nat /\ 1 <= m /\ m <= Len(a) /\ i # m /\ j # m
  BY <1>1, DeletedIs
<1>3. ASSUME NEW k \in 1..Len(a), k # m PROVE b[Moved(k)] = a[k] /\ Moved(k) \in 1..Len(b)
  <2>1. Moved(k) \in 1..Len(a) - 1 /\ (Moved(k) < m <=> k < m) /\ (k < m => Moved(k) = k)
        /\ (~(k < m) => Moved(k) + 1 = k)
    BY <1>2, <1>3
  <2>2. b[Moved(k)] = IF Moved(k) < m THEN a[Moved(k)] ELSE a[Moved(k) + 1]
    <3> HIDE DEF Moved
    <3> QED
      BY <2>1, DeletedIs
  <2> HIDE DEF Moved
  <2> QED
    BY <1>2, <2>1, <2>2
<1>4. Moved(i) <= Moved(j)
  BY <1>1, <1>2
<1> HIDE DEF Moved, b
<1>5. Follows(b, y, z)
  BY <1>1, <1>2, <1>3, <1>4 DEF Follows
<1> QED
  BY <1>5 DEF b

\* A chain that is not touched, one that is pushed on, and one that is popped.
LEMMA ChainUntouched ==
  ASSUME NEW f, NEW head, NEW nx, NEW ny, IsChain(f, head, nx), \A y \in Nodes(f) : ny[y] = nx[y]
  PROVE  IsChain(f, head, ny)
BY DEF IsChain, Nodes

LEMMA ChainPushed ==
  ASSUME NEW f, NEW head, NEW nx, IsChain(f, head, nx), NEW x \in Timers \ Nodes(f), NEW ny,
         ny[x] = head, \A y \in Nodes(f) : ny[y] = nx[y]
  PROVE  IsChain(Inserted(f, 0, x), x, ny)
<1> DEFINE g == Inserted(f, 0, x)
           n == Len(f)
<1>1. f \in Seq(Timers) /\ n \in Nat /\ DOMAIN f = 1..n /\ 0 \in 0..n
  BY DEF IsChain
<1>2. g \in Seq(Timers) /\ Len(g) = n + 1 /\ \A k \in 1..n + 1 : g[k] = IF k <= 0 THEN f[k] ELSE IF k = 0 + 1 THEN x ELSE f[k - 1]
  BY <1>1, InsertedIs
<1> HIDE DEF g
<1>3. g[1] = x
  BY <1>1, <1>2
<1>4. ASSUME NEW k \in 2..n + 1 PROVE g[k] = f[k - 1] /\ k - 1 \in 1..n /\ f[k - 1] \in Nodes(f)
  <2>1. k \in 1..n + 1 /\ ~(k <= 0) /\ k # 1 /\ k - 1 \in 1..n
    BY <1>1
  <2> QED
    BY <1>1, <1>2, <2>1 DEF Nodes
<1>5. \A k \in 1..n + 1 : k = 1 \/ k \in 2..n + 1
  BY <1>1
<1>6. Entry(g, 1) = x
  BY <1>1, <1>2, <1>3 DEF Entry
<1>7. ASSUME NEW k \in 1..n + 1 PROVE ny[g[k]] = Entry(g, k + 1)
  <2>0. Entry(g, k + 1) = Entry(f, k)
    <3>1. CASE k = n + 1
      BY <1>1, <1>2, <3>1 DEF Entry
    <3>2. CASE k # n + 1
      <4>1. k + 1 \in 2..n + 1 /\ k + 1 \in 1..n + 1 /\ k \in 1..n /\ (k + 1) - 1 = k
        BY <1>1, <3>2
      <4>2. g[k + 1] = f[k]
        BY <1>4, <4>1
      <4> QED
        BY <1>2, <4>1, <4>2 DEF Entry
    <3> QED
      BY <3>1, <3>2
  <2>1. CASE k = 1
    BY <1>3, <2>0, <2>1 DEF IsChain
  <2>2. CASE k \in 2..n + 1
    <3>1. g[k] = f[k - 1] /\ k - 1 \in 1..n /\ f[k - 1] \in Nodes(f) /\ (k - 1) + 1 = k
      BY <1>1, <1>4, <2>2
    <3> QED
      BY <2>0, <3>1 DEF IsChain
  <2> QED
    BY <1>5, <2>1, <2>2
<1>8. \A j, k \in 1..n + 1 : g[j] = g[k] => j = k
  <2> SUFFICES ASSUME NEW j \in 1..n + 1, NEW k \in 1..n + 1, g[j] = g[k] PROVE j = k
    OBVIOUS
  <2>1. CASE j \in 2..n + 1 /\ k \in 2..n + 1
    <3>1. f[j - 1] = f[k - 1] /\ j - 1 \in 1..n /\ k - 1 \in 1..n
      BY <1>4, <2>1
    <3>2. j - 1 = k - 1
      BY <3>1 DEF IsChain
    <3> QED
      BY <1>1, <3>2
  <2>2. CASE j = 1 /\ k \in 2..n + 1
    BY <1>3, <1>4, <2>2
  <2>3. CASE k = 1 /\ j \in 2..n + 1
    BY <1>3, <1>4, <2>3
  <2> QED
    BY <1>5, <2>1, <2>2, <2>3
<1>9. IsChain(g, x, ny)
  BY <1>2, <1>6, <1>7, <1>8 DEF IsChain
<1> QED
  BY <1>9 DEF g

LEMMA ChainPopped ==
  ASSUME NEW f, NEW head, NEW nx, IsChain(f, head, nx), head # NULL, NEW ny,
         NEW g, g = Deleted(f, 1), \A y \in Nodes(g) : ny[y] = nx[y]
  PROVE  /\ head = f[1] /\ 1 \in 1..Len(f) /\ IsChain(g, nx[head], ny)
         /\ Nodes(g) = Nodes(f) \ {head} /\ Len(g) = Len(f) - 1
<1> DEFINE n == Len(f)
<1>1. f \in Seq(Timers) /\ n \in Nat /\ DOMAIN f = 1..n /\ 1 \in 1..n /\ head = f[1]
      /\ \A j, k \in 1..n : f[j] = f[k] => j = k
  BY DEF IsChain, Entry
<1>2. n - 1 \in Nat
  BY <1>1
<1>3. g \in Seq(Timers) /\ Len(g) = n - 1 /\ (\A k \in 1..n - 1 : g[k] = IF k < 1 THEN f[k] ELSE f[k + 1])
      /\ Nodes(g) = Nodes(f) \ {f[1]}
  BY <1>1, DeletedIs
<1>4. ASSUME NEW k \in 1..n - 1 PROVE g[k] = f[k + 1] /\ k + 1 \in 1..n /\ g[k] \in Nodes(g)
  <2>1. ~(k < 1) /\ k + 1 \in 1..n
    BY <1>1, <1>2
  <2>2. DOMAIN g = 1..n - 1
    BY <1>3
  <2> QED
    BY <1>3, <2>1, <2>2 DEF Nodes
<1>5. \A k \in 0..n - 1 : Entry(g, k) = IF k = 0 THEN NULL ELSE f[k + 1]
  BY <1>2, <1>3, <1>4 DEF Entry
<1>6. ASSUME NEW k \in 1..n PROVE Entry(f, k + 1) = Entry(g, k)
  <2>1. CASE k = n
    BY <1>1, <1>2, <1>3, <2>1 DEF Entry
  <2>2. CASE k # n
    <3>1. k \in 1..n - 1 /\ k + 1 \in 1..n
      <4>1. n \in Nat
        BY <1>1
      <4> HIDE DEF n
      <4> QED
        BY <2>2, <4>1
    <3>2. Entry(f, k + 1) = f[k + 1]
      BY <3>1 DEF Entry
    <3>3. Entry(g, k) = g[k]
      BY <1>3, <3>1 DEF Entry
    <3>4. g[k] = f[k + 1]
      BY <1>4, <3>1
    <3> QED
      BY <3>2, <3>3, <3>4
  <2> QED
    BY <2>1, <2>2
<1>7. nx[head] = Entry(g, 1)
  BY <1>1, <1>6 DEF IsChain
<1>8. ASSUME NEW k \in 1..n - 1 PROVE ny[g[k]] = Entry(g, k + 1)
  <2>1. g[k] = f[k + 1] /\ k + 1 \in 1..n /\ ny[g[k]] = nx[g[k]]
    BY <1>4
  <2>2. nx[f[k + 1]] = Entry(f, (k + 1) + 1)
    BY <2>1 DEF IsChain
  <2> QED
    BY <1>6, <2>1, <2>2
<1>9. \A j, k \in 1..n - 1 : g[j] = g[k] => j = k
  <2> SUFFICES ASSUME NEW j \in 1..n - 1, NEW k \in 1..n - 1, g[j] = g[k] PROVE j = k
    OBVIOUS
  <2>1. f[j + 1] = f[k + 1] /\ j + 1 \in 1..n /\ k + 1 \in 1..n
    BY <1>4
  <2>2. j + 1 = k + 1
    BY <1>1, <2>1
  <2> QED
    BY <1>1, <2>2
<1>10. IsChain(g, nx[head], ny)
  BY <1>3, <1>7, <1>8, <1>9 DEF IsChain
<1> QED
  BY <1>1, <1>3, <1>10

LEMMA ListsCounted ==
  ASSUME NEW a, NEW s, IsList(a, s), NEW f, NEW head, IsChain(f, head, s.nx), NEW h \in SUBSET Timers,
         Nodes(a) \cap Nodes(f) = {}, Nodes(a) \cup Nodes(f) = h
  PROVE  /\ Len(a) + Len(f) = Cardinality(h)
         /\ Len(a) \in Nat /\ Len(a) <= Cardinality(Timers) /\ Len(f) <= Cardinality(Timers)
<1>1. /\ a \in Seq(Timers) /\ f \in Seq(Timers) /\ Len(a) \in Nat /\ Len(f) \in Nat
      /\ \A j, k \in 1..Len(a) : a[j] = a[k] => j = k
      /\ \A j, k \in 1..Len(f) : f[j] = f[k] => j = k
  BY DEF IsList, IsChain
<1>2. /\ IsFiniteSet(Nodes(a)) /\ Cardinality(Nodes(a)) = Len(a)
      /\ IsFiniteSet(Nodes(f)) /\ Cardinality(Nodes(f)) = Len(f)
  BY <1>1, NodesCounted
<1>3. Cardinality(h) = Len(a) + Len(f) - Cardinality({})
  BY <1>2, FS_Union
<1>4. Cardinality(h) <= Cardinality(Timers) /\ Cardinality(Timers) \in Nat
  BY TimersAssumption, FS_Subset, FS_CardinalityType
<1>5. Cardinality(h) = Len(a) + Len(f)
  BY <1>1, <1>3, FS_EmptySet
<1>6. Len(a) <= Cardinality(Timers) /\ Len(f) <= Cardinality(Timers)
  BY <1>1, <1>4, <1>5
<1> QED
  BY <1>1, <1>5, <1>6

LEMMA ListsTyped ==
  ASSUME NEW a, NEW s, IsList(a, s), NEW f, NEW head, IsChain(f, head, s.nx), NEW h \in SUBSET Timers,
         Nodes(a) \cup Nodes(f) = h, \A x \in Nodes(f) : s.pv[x] = NULL,
         \A x \in Timers \ h : s.nx[x] = NULL /\ s.pv[x] = NULL,
         OnTimers(s.nx), OnTimers(s.pv)
  PROVE  /\ s.head \in h \cup {NULL} /\ head \in h \cup {NULL}
         /\ s.nx \in [Timers -> h \cup {NULL}] /\ s.pv \in [Timers -> h \cup {NULL}]
<1>1. a \in Seq(Timers) /\ f \in Seq(Timers) /\ DOMAIN a = 1..Len(a) /\ DOMAIN f = 1..Len(f)
  BY DEF IsList, IsChain
<1>2. \A k : Entry(a, k) \in Nodes(a) \cup {NULL} /\ Entry(f, k) \in Nodes(f) \cup {NULL}
  BY <1>1 DEF Entry, Nodes
<1>3. s.head \in h \cup {NULL} /\ head \in h \cup {NULL}
  BY <1>2 DEF IsList, IsChain
<1>4. ASSUME NEW x \in Timers PROVE s.nx[x] \in h \cup {NULL} /\ s.pv[x] \in h \cup {NULL}
  <2>1. CASE x \in Nodes(a)
    <3>1. PICK k \in 1..Len(a) : x = a[k]
      BY <1>1, <2>1 DEF Nodes
    <3>2. s.nx[x] = Entry(a, k + 1) /\ s.pv[x] = Entry(a, k - 1)
      BY <3>1 DEF IsList, IsChain
    <3> QED
      BY <1>2, <3>2
  <2>2. CASE x \in Nodes(f)
    <3>1. PICK k \in 1..Len(f) : x = f[k]
      BY <1>1, <2>2 DEF Nodes
    <3>2. s.nx[x] = Entry(f, k + 1) /\ s.pv[x] = NULL
      BY <2>2, <3>1 DEF IsChain
    <3> QED
      BY <1>2, <3>2
  <2>3. CASE x \notin h
    BY <2>3
  <2> QED
    BY <2>1, <2>2, <2>3
<1> QED
  BY <1>3, <1>4 DEF OnTimers

\* The pointers are to timers of the heap.
Pointers ==
  /\ timers \in Pointer /\ free_timers \in Pointer
  /\ next \in [Timers -> Pointer] /\ prev \in [Timers -> Pointer]

\* What the lists are, with the record of the active one.
LEMMA TheLists ==
  ASSUME NEW a, NEW f, Lists(a, f)
  PROVE  /\ IsList(a, This) /\ IsChain(f, free_timers, next) /\ IsChain(f, free_timers, This.nx)
         /\ heap \in SUBSET Timers /\ heap \subseteq Timers
         /\ This.head = timers /\ This.nx = next /\ This.pv = prev
         /\ Nodes(a) \cap Nodes(f) = {} /\ Nodes(a) \cup Nodes(f) = heap
         /\ a \in Seq(Timers) /\ DOMAIN a = 1..Len(a) /\ Len(a) \in Nat
         /\ \A j, k \in 1..Len(a) : a[j] = a[k] => j = k
         /\ f \in Seq(Timers) /\ DOMAIN f = 1..Len(f) /\ Len(f) \in Nat
<1>1. This.head = timers /\ This.nx = next /\ This.pv = prev
  BY DEF This
<1>2. /\ IsList(a, This) /\ IsChain(f, free_timers, next)
      /\ heap \subseteq Timers
      /\ Nodes(a) \cap Nodes(f) = {} /\ Nodes(a) \cup Nodes(f) = heap
  BY DEF Lists
<1>3. IsChain(f, free_timers, This.nx) /\ heap \in SUBSET Timers
  BY <1>1, <1>2
<1>4. /\ a \in Seq(Timers) /\ DOMAIN a = 1..Len(a) /\ Len(a) \in Nat
      /\ \A j, k \in 1..Len(a) : a[j] = a[k] => j = k
  BY <1>2 DEF IsList, IsChain
<1>5. f \in Seq(Timers) /\ DOMAIN f = 1..Len(f) /\ Len(f) \in Nat
  BY <1>2 DEF IsChain
<1> QED
  BY <1>1, <1>2, <1>3, <1>4, <1>5

\* The lists after a step, from the record r of the active one.
LEMMA ListsBecome ==
  ASSUME NEW b, NEW g, NEW r, IsList(b, r), OnTimers(r.nx), OnTimers(r.pv),
         timers' = r.head, next' = r.nx, prev' = r.pv,
         InOrder(b, time'), IsChain(g, free_timers', r.nx), heap' \in SUBSET Timers,
         Nodes(b) \cap Nodes(g) = {}, Nodes(b) \cup Nodes(g) = heap',
         \A y \in Nodes(g) : r.pv[y] = NULL,
         \A y \in Timers \ heap' : r.nx[y] = NULL /\ r.pv[y] = NULL
  PROVE  Lists(b, g)' /\ Pointers'
<1>1. /\ r.head \in heap' \cup {NULL} /\ free_timers' \in heap' \cup {NULL}
      /\ r.nx \in [Timers -> heap' \cup {NULL}] /\ r.pv \in [Timers -> heap' \cup {NULL}]
  BY ListsTyped
<1>2. Pointers'
  BY <1>1 DEF Pointers, Pointer
<1>3. This'.head = r.head /\ This'.nx = r.nx /\ This'.pv = r.pv
  BY DEF This
<1>4. IsList(b, This')
  BY <1>3 DEF IsList
<1>5. Lists(b, g)'
  BY <1>4 DEF Lists
<1> QED
  BY <1>2, <1>5

\* timer_create puts a timer that was free, or new, on the active list.
LEMMA CreateLists ==
  ASSUME TimersTypeOK, NEW a, NEW f, Lists(a, f), NEW x \in Timers, NEW delay \in Delays, NEW period,
         timer_create(x, delay, period)
  PROVE  \E b, g : /\ Lists(b, g)' /\ Pointers' /\ heap' \subseteq Timers
                   /\ Nodes(b) = Nodes(a) \cup {x} /\ x \notin Nodes(a) /\ heap \subseteq heap'
                   /\ \A y, z : Follows(a, y, z) => Follows(b, y, z)
<1> DEFINE when == clock + delay
           r == list_add(This, x, time')
<1>0. PICK g : g = IF free_timers = NULL THEN f ELSE Deleted(f, 1)
  OBVIOUS
<1>1. /\ IsList(a, This) /\ IsChain(f, free_timers, next) /\ IsChain(f, free_timers, This.nx) /\ heap \subseteq Timers /\ This.nx = next /\ This.pv = prev
      /\ Nodes(a) \cap Nodes(f) = {} /\ Nodes(a) \cup Nodes(f) = heap
      /\ a \in Seq(Timers) /\ f \in Seq(Timers) /\ DOMAIN f = 1..Len(f) /\ Len(f) \in Nat /\ DOMAIN a = 1..Len(a)
  BY TheLists
<1>2. Len(a) \in Nat /\ Len(a) <= Cardinality(Timers)
  <2>1. heap \in SUBSET Timers
    BY <1>1
  <2> QED
    BY <1>1, <2>1, ListsCounted
<1>3. when \in Nat /\ time' = [time EXCEPT ![x] = when] /\ time \in [Timers -> Nat]
  BY DelaysAssumption DEF timer_create, TimersTypeOK
<1>4. time' \in [Timers -> Int] /\ \A y \in Timers \ {x} : time'[y] = time[y]
  BY <1>3
<1>5. /\ x \notin Nodes(a) /\ x \in heap' /\ heap \subseteq heap' /\ heap' = heap \cup {x}
      /\ Nodes(g) = heap' \ (Nodes(a) \cup {x})
      /\ \A ny : (\A y \in Nodes(g) : ny[y] = next[y]) => IsChain(g, free_timers', ny)
  <2>1. CASE free_timers = NULL
    <3>1. f = <<>>
      <4>1. Entry(f, 1) = NULL
        BY <1>1, <2>1 DEF IsChain
      <4>2. ~(1 \in 1..Len(f))
        BY <1>1, <4>1, NullIsNoTimer DEF Entry
      <4> QED
        BY <1>1, <4>2
    <3>2. Nodes(f) = {} /\ heap = Nodes(a)
      BY <1>1, <3>1 DEF Nodes
    <3>3. x \notin heap /\ heap' = heap \cup {x} /\ free_timers' = NULL
      BY <2>1, NullIsNoTimer DEF timer_create
    <3>4. \A ny : (\A y \in Nodes(g) : ny[y] = next[y]) => IsChain(g, free_timers', ny)
      BY <1>0, <1>1, <2>1, <3>3, ChainUntouched
    <3> QED
      BY <1>0, <1>1, <2>1, <3>2, <3>3, <3>4
  <2>2. CASE free_timers # NULL
    <3>1. free_timers = x /\ free_timers' = next[x] /\ heap' = heap
      BY <2>2 DEF timer_create
    <3>2. x = f[1] /\ 1 \in 1..Len(f) /\ Nodes(g) = Nodes(f) \ {x}
      BY <1>0, <1>1, <2>2, <3>1, ChainPopped
    <3>3. x \in Nodes(f)
      BY <1>1, <3>2 DEF Nodes
    <3>4. ASSUME NEW ny, \A y \in Nodes(g) : ny[y] = next[y] PROVE IsChain(g, free_timers', ny)
      BY <1>0, <1>1, <2>2, <3>1, <3>4, ChainPopped
    <3> QED
      BY <1>1, <3>1, <3>2, <3>3, <3>4
  <2> QED
    BY <2>1, <2>2
<1>6. InOrder(a, time')
  <2>1. \A k \in 1..Len(a) : time'[a[k]] = time[a[k]]
    BY <1>1, <1>4, <1>5 DEF Nodes
  <2> QED
    BY <2>1 DEF Lists, InOrder
<1>7. PICK m, b : m \in 0..Len(a)
        /\ b = Inserted(a, m, x) /\ IsList(b, r) /\ InOrder(b, time')
        /\ OnTimers(r.nx) /\ OnTimers(r.pv)
        /\ \A y \in Timers \ (Nodes(a) \cup {x}) : r.nx[y] = This.nx[y] /\ r.pv[y] = This.pv[y]
  <2> HIDE DEF r
  <2>1. r = list_add(This, x, time')
    BY DEF r
  <2>2. x \in Timers \ Nodes(a)
    BY <1>5
  <2>3. ASSUME NEW s, IsList(a, s), NEW tm \in [Timers -> Int], InOrder(a, tm), NEW q, q = list_add(s, x, tm)
        PROVE  \E m, b : m \in 0..Len(a)
                 /\ b = Inserted(a, m, x) /\ IsList(b, q) /\ InOrder(b, tm)
                 /\ OnTimers(q.nx) /\ OnTimers(q.pv)
                 /\ \A y \in Timers \ (Nodes(a) \cup {x}) : q.nx[y] = s.nx[y] /\ q.pv[y] = s.pv[y]
    BY <1>2, <2>2, <2>3, ListAdd
  <2>4. PICK tm \in [Timers -> Int] : tm = time'
    BY <1>4
  <2>5. PICK s : s = This
    OBVIOUS
  <2>6. IsList(a, s) /\ InOrder(a, tm) /\ r = list_add(s, x, tm)
    BY <1>1, <1>6, <2>1, <2>4, <2>5
  <2>7. \E m, b : m \in 0..Len(a)
          /\ b = Inserted(a, m, x) /\ IsList(b, r) /\ InOrder(b, tm)
          /\ OnTimers(r.nx) /\ OnTimers(r.pv)
          /\ \A y \in Timers \ (Nodes(a) \cup {x}) : r.nx[y] = s.nx[y] /\ r.pv[y] = s.pv[y]
    BY <2>3, <2>6
  <2> QED
    BY <2>4, <2>5, <2>7
<1>8. Nodes(b) = Nodes(a) \cup {x}
  BY <1>1, <1>7, InsertedIs
<1>9. timers' = r.head /\ next' = r.nx /\ prev' = r.pv
  BY DEF timer_create, SetList
<1> HIDE DEF r
<1>11. \A y \in Timers \ Nodes(b) : r.nx[y] = next[y] /\ r.pv[y] = prev[y]
  BY <1>1, <1>7, <1>8
<1>12. IsChain(g, free_timers', r.nx)
  <2>1. \A y \in Nodes(g) : r.nx[y] = next[y]
    BY <1>1, <1>5, <1>8, <1>11
  <2> QED
    BY <1>5, <2>1
<1>13. /\ Nodes(b) \cap Nodes(g) = {} /\ Nodes(b) \cup Nodes(g) = heap' /\ heap' \in SUBSET Timers
       /\ Nodes(g) \subseteq Nodes(f)
  BY <1>1, <1>5, <1>8
<1>14. /\ \A y \in Nodes(g) : r.pv[y] = NULL
       /\ \A y \in Timers \ heap' : r.nx[y] = NULL /\ r.pv[y] = NULL
  BY <1>5, <1>8, <1>11, <1>13 DEF Lists
<1>15. Lists(b, g)' /\ Pointers'
  BY <1>7, <1>9, <1>12, <1>13, <1>14, ListsBecome
<1>17. \A y, z : Follows(a, y, z) => Follows(b, y, z)
  BY <1>1, <1>7, FollowsInserted
<1> QED
  BY <1>5, <1>8, <1>13, <1>15, <1>17

\* A timer is taken out of the list and put back in its place.
LEMMA ResortLists ==
  ASSUME TimersTypeOK, NEW a, NEW f, Lists(a, f), NEW x \in Nodes(a), NEW w \in Nat,
         time' = [time EXCEPT ![x] = w], SetList(list_resort(This, x, time')),
         free_timers' = free_timers, heap' = heap
  PROVE  \E b : /\ Lists(b, f)' /\ Pointers'
                /\ Nodes(b) = Nodes(a)
                /\ \A y, z : y # x /\ z # x /\ Follows(a, y, z) => Follows(b, y, z)
<1>1. /\ IsList(a, This) /\ IsChain(f, free_timers, next) /\ IsChain(f, free_timers, This.nx)
      /\ heap \in SUBSET Timers /\ This.nx = next /\ This.pv = prev
      /\ Nodes(a) \cap Nodes(f) = {} /\ Nodes(a) \cup Nodes(f) = heap
      /\ a \in Seq(Timers) /\ DOMAIN a = 1..Len(a)
      /\ \A j, k \in 1..Len(a) : a[j] = a[k] => j = k
  BY TheLists
<1>2. Len(a) \in Nat /\ Len(a) <= Cardinality(Timers) /\ Cardinality(Timers) \in Nat
  BY <1>1, ListsCounted, TimersAssumption, FS_CardinalityType
<1>3. x \in Timers /\ time \in [Timers -> Nat]
  BY <1>1 DEF TimersTypeOK
<1>4. time' \in [Timers -> Int] /\ \A y \in Timers \ {x} : time'[y] = time[y]
  BY <1>3
<1>5. PICK i \in 1..Len(a) : x = a[i]
  BY <1>1 DEF Nodes
<1>6. PICK s, c : s = list_remove(This, a[i]) /\ c = Deleted(a, i)
  OBVIOUS
<1>7. /\ IsList(c, s) /\ OnTimers(s.nx) /\ OnTimers(s.pv)
      /\ \A y \in Timers \ Nodes(c) : s.nx[y] = next[y] /\ s.pv[y] = prev[y]
  BY <1>1, <1>6, ListRemove
<1>8. c \in Seq(Timers) /\ Len(c) = Len(a) - 1 /\ Nodes(c) = Nodes(a) \ {x} /\ DOMAIN c = 1..Len(c)
      /\ \A k \in 1..Len(c) : c[k] = IF k < i THEN a[k] ELSE a[k + 1]
  <2>1. /\ Deleted(a, i) \in Seq(Timers) /\ Len(Deleted(a, i)) = Len(a) - 1
        /\ \A k \in 1..Len(a) - 1 : Deleted(a, i)[k] = IF k < i THEN a[k] ELSE a[k + 1]
        /\ Nodes(Deleted(a, i)) = Nodes(a) \ {a[i]}
    BY <1>1, DeletedIs
  <2> QED
    BY <1>5, <1>6, <2>1
<1>9. InOrder(c, time')
  <2> SUFFICES ASSUME NEW j \in 1..Len(c), NEW k \in 1..Len(c), j <= k PROVE time'[c[j]] <= time'[c[k]]
    BY DEF InOrder
  <2>1. time'[c[j]] = time[c[j]] /\ time'[c[k]] = time[c[k]]
    <3>1. c[j] \in Nodes(c) /\ c[k] \in Nodes(c) /\ c[j] \in Timers /\ c[k] \in Timers
      <4>1. c \in Seq(Timers) /\ DOMAIN c = 1..Len(c)
        BY <1>8
      <4> QED
        BY <4>1 DEF Nodes
    <3>2. c[j] # x /\ c[k] # x
      BY <1>8, <3>1
    <3> QED
      BY <1>4, <3>1, <3>2
  <2> DEFINE jj == IF j < i THEN j ELSE j + 1
             kk == IF k < i THEN k ELSE k + 1
  <2>2. c[j] = a[jj] /\ c[k] = a[kk]
    BY <1>8
  <2>3. jj \in 1..Len(a) /\ kk \in 1..Len(a) /\ jj <= kk
    BY <1>2, <1>8
  <2> HIDE DEF jj, kk
  <2> QED
    BY <2>1, <2>2, <2>3 DEF Lists, InOrder
<1>10. PICK r : r = list_add(s, x, time')
  OBVIOUS
<1>11. Len(c) <= Cardinality(Timers) /\ x \in Timers \ Nodes(c)
  BY <1>2, <1>3, <1>8
<1>12. PICK m, b : m \in 0..Len(c)
        /\ b = Inserted(c, m, x) /\ IsList(b, r) /\ InOrder(b, time')
        /\ OnTimers(r.nx) /\ OnTimers(r.pv)
        /\ \A y \in Timers \ (Nodes(c) \cup {x}) : r.nx[y] = s.nx[y] /\ r.pv[y] = s.pv[y]
  <2>1. ASSUME NEW tm \in [Timers -> Int], InOrder(c, tm), NEW q, q = list_add(s, x, tm)
        PROVE  \E m, b : m \in 0..Len(c)
                 /\ b = Inserted(c, m, x) /\ IsList(b, q) /\ InOrder(b, tm)
                 /\ OnTimers(q.nx) /\ OnTimers(q.pv)
                 /\ \A y \in Timers \ (Nodes(c) \cup {x}) : q.nx[y] = s.nx[y] /\ q.pv[y] = s.pv[y]
    BY <1>7, <1>11, <2>1, ListAdd
  <2>2. PICK tm \in [Timers -> Int] : tm = time'
    BY <1>4
  <2>3. InOrder(c, tm) /\ r = list_add(s, x, tm)
    BY <1>9, <1>10, <2>2
  <2>4. \E m, b : m \in 0..Len(c)
          /\ b = Inserted(c, m, x) /\ IsList(b, r) /\ InOrder(b, tm)
          /\ OnTimers(r.nx) /\ OnTimers(r.pv)
          /\ \A y \in Timers \ (Nodes(c) \cup {x}) : r.nx[y] = s.nx[y] /\ r.pv[y] = s.pv[y]
    BY <2>1, <2>3
  <2> QED
    BY <2>2, <2>4
<1>13. timers' = r.head /\ next' = r.nx /\ prev' = r.pv
  BY <1>5, <1>6, <1>10 DEF SetList, list_resort
<1>14. Nodes(b) = Nodes(a)
  <2>1. Nodes(Inserted(c, m, x)) = Nodes(c) \cup {x}
    <3>1. c \in Seq(Timers) /\ m \in 0..Len(c)
      BY <1>8, <1>12
    <3> QED
      BY <1>3, <3>1, InsertedIs
  <2> QED
    BY <1>8, <1>12, <2>1
<1>15. \A y \in Timers \ Nodes(a) : r.nx[y] = next[y] /\ r.pv[y] = prev[y]
  BY <1>7, <1>8, <1>12
<1>16. IsChain(f, free_timers', r.nx)
  <2>1. \A y \in Nodes(f) : r.nx[y] = next[y]
    BY <1>1, <1>15
  <2> QED
    BY <1>1, <2>1, ChainUntouched
<1>17. /\ \A y \in Nodes(f) : r.pv[y] = NULL
       /\ \A y \in Timers \ heap' : r.nx[y] = NULL /\ r.pv[y] = NULL
  BY <1>1, <1>15 DEF Lists
<1>18. Lists(b, f)' /\ Pointers'
  BY <1>1, <1>12, <1>13, <1>14, <1>16, <1>17, ListsBecome
<1>19. ASSUME NEW y, NEW z, y # x, z # x, Follows(a, y, z) PROVE Follows(b, y, z)
  <2>1. Follows(c, y, z)
    BY <1>1, <1>5, <1>6, <1>19, FollowsDeleted
  <2> QED
    BY <1>3, <1>8, <1>12, <2>1, FollowsInserted
<1> QED
  BY <1>14, <1>18, <1>19

\* timer_cancel moves a timer to the free list.
LEMMA CancelLists ==
  ASSUME TimersTypeOK, NEW a, NEW f, Lists(a, f), NEW x \in Nodes(a), Cancelled(x),
         time' = time, heap' = heap
  PROVE  \E b, g : /\ Lists(b, g)' /\ Pointers'
                   /\ Nodes(b) = Nodes(a) \ {x}
                   /\ \A y, z : y # x /\ z # x /\ Follows(a, y, z) => Follows(b, y, z)
<1>1. /\ IsList(a, This) /\ IsChain(f, free_timers, next) /\ heap \in SUBSET Timers
      /\ This.nx = next /\ This.pv = prev
      /\ Nodes(a) \cap Nodes(f) = {} /\ Nodes(a) \cup Nodes(f) = heap
      /\ a \in Seq(Timers) /\ DOMAIN a = 1..Len(a) /\ Len(a) \in Nat
      /\ \A j, k \in 1..Len(a) : a[j] = a[k] => j = k
      /\ f \in Seq(Timers) /\ DOMAIN f = 1..Len(f) /\ Len(f) \in Nat
  BY TheLists
<1>2. PICK i \in 1..Len(a) : x = a[i]
  BY <1>1 DEF Nodes
<1>3. PICK s, b, g : s = list_remove(This, a[i]) /\ b = Deleted(a, i) /\ g = Inserted(f, 0, x)
  OBVIOUS
<1>4. /\ IsList(b, s) /\ OnTimers(s.nx) /\ OnTimers(s.pv)
      /\ \A y \in Timers \ Nodes(b) : s.nx[y] = next[y] /\ s.pv[y] = prev[y]
  BY <1>1, <1>3, ListRemove
<1>5. b \in Seq(Timers) /\ Len(b) = Len(a) - 1 /\ Nodes(b) = Nodes(a) \ {x} /\ DOMAIN b = 1..Len(b)
      /\ \A k \in 1..Len(b) : b[k] = IF k < i THEN a[k] ELSE a[k + 1]
  <2>1. /\ Deleted(a, i) \in Seq(Timers) /\ Len(Deleted(a, i)) = Len(a) - 1
        /\ \A k \in 1..Len(a) - 1 : Deleted(a, i)[k] = IF k < i THEN a[k] ELSE a[k + 1]
        /\ Nodes(Deleted(a, i)) = Nodes(a) \ {a[i]}
    BY <1>1, DeletedIs
  <2> QED
    BY <1>2, <1>3, <2>1
<1>6. PICK r : r = [s EXCEPT !.nx[x] = free_timers, !.pv[x] = NULL]
  OBVIOUS
<1>7. s = [head |-> s.head, nx |-> s.nx, pv |-> s.pv]
  BY <1>3 DEF list_remove
<1>8. /\ r.head = s.head /\ r.nx = [s.nx EXCEPT ![x] = free_timers] /\ r.pv = [s.pv EXCEPT ![x] = NULL]
  BY <1>6, <1>7
<1>9. /\ OnTimers(r.nx) /\ OnTimers(r.pv) /\ x \in Timers
      /\ r.nx[x] = free_timers /\ r.pv[x] = NULL
      /\ \A y \in Timers \ {x} : r.nx[y] = s.nx[y] /\ r.pv[y] = s.pv[y]
  BY <1>1, <1>4, <1>8 DEF OnTimers
<1>10. IsList(b, r)
  <2>1. \A k \in 1..Len(b) : r.nx[b[k]] = s.nx[b[k]] /\ r.pv[b[k]] = s.pv[b[k]]
    <3> SUFFICES ASSUME NEW k \in 1..Len(b) PROVE r.nx[b[k]] = s.nx[b[k]] /\ r.pv[b[k]] = s.pv[b[k]]
      OBVIOUS
    <3>1. b[k] \in Nodes(b) /\ b[k] \in Timers
      BY <1>5 DEF Nodes
    <3>2. b[k] \in Timers \ {x}
      BY <1>5, <3>1
    <3> QED
      BY <1>9, <3>2
  <2> QED
    BY <1>4, <1>8, <2>1 DEF IsList, IsChain
<1>11. timers' = r.head /\ next' = r.nx /\ prev' = r.pv /\ free_timers' = x
  BY <1>2, <1>3, <1>6 DEF Cancelled, SetList
<1>12. InOrder(b, time')
  <2> SUFFICES ASSUME NEW j \in 1..Len(b), NEW k \in 1..Len(b), j <= k PROVE time[b[j]] <= time[b[k]]
    BY DEF InOrder
  <2> DEFINE jj == IF j < i THEN j ELSE j + 1
             kk == IF k < i THEN k ELSE k + 1
  <2>1. b[j] = a[jj] /\ b[k] = a[kk]
    BY <1>5
  <2>2. jj \in 1..Len(a) /\ kk \in 1..Len(a) /\ jj <= kk
    BY <1>1, <1>5
  <2> HIDE DEF jj, kk
  <2> QED
    BY <2>1, <2>2 DEF Lists, InOrder
<1>13. x \notin Nodes(f) /\ x \notin Nodes(b) /\ \A y \in Nodes(f) : r.nx[y] = next[y] /\ r.pv[y] = prev[y]
  BY <1>1, <1>4, <1>5, <1>9
<1>14. IsChain(g, free_timers', r.nx)
  <2>1. x \in Timers \ Nodes(f) /\ \A y \in Nodes(f) : r.nx[y] = next[y]
    BY <1>9, <1>13
  <2> QED
    BY <1>1, <1>3, <1>9, <1>11, <2>1, ChainPushed
<1>15. Nodes(g) = Nodes(f) \cup {x}
  <2>1. 0 \in 0..Len(f)
    BY <1>1
  <2> QED
    <3>1. Nodes(Inserted(f, 0, x)) = Nodes(f) \cup {x}
      BY <1>1, <1>9, <2>1, InsertedIs
    <3> QED
      BY <1>3, <3>1
<1>16. Nodes(b) \cap Nodes(g) = {} /\ Nodes(b) \cup Nodes(g) = heap' /\ heap' \in SUBSET Timers
  BY <1>1, <1>5, <1>15
<1>17. /\ \A y \in Nodes(g) : r.pv[y] = NULL
       /\ \A y \in Timers \ heap' : r.nx[y] = NULL /\ r.pv[y] = NULL
  BY <1>1, <1>4, <1>5, <1>9, <1>13, <1>15 DEF Lists
<1>18. Lists(b, g)' /\ Pointers'
  BY <1>9, <1>10, <1>11, <1>12, <1>14, <1>16, <1>17, ListsBecome
<1>19. \A y, z : y # x /\ z # x /\ Follows(a, y, z) => Follows(b, y, z)
  BY <1>1, <1>2, <1>3, FollowsDeleted
<1> QED
  BY <1>5, <1>18, <1>19

\* timer_cleanup frees the free list, and timer_destroy both.
LEMMA FreedLists ==
  ASSUME NEW a, NEW f, Lists(a, f), NEW b, NEW gone, Freed(gone),
         \/ b = a /\ gone = Nodes(f) /\ timers' = timers
         \/ b = <<>> /\ gone = Nodes(a) \cup Nodes(f) /\ timers' = NULL
  PROVE  Lists(b, <<>>)' /\ Pointers' /\ heap' = Nodes(b) /\ heap' \subseteq Timers
<1>1. /\ IsList(a, This) /\ heap \subseteq Timers /\ This.head = timers /\ This.nx = next /\ This.pv = prev
      /\ Nodes(a) \cap Nodes(f) = {} /\ Nodes(a) \cup Nodes(f) = heap
      /\ a \in Seq(Timers) /\ DOMAIN a = 1..Len(a) /\ Len(a) \in Nat
  BY TheLists
<1>2. Nodes(<<>>) = {} /\ <<>> \in Seq(Timers) /\ Len(<<>>) = 0 /\ DOMAIN <<>> = 1..Len(<<>>)
  BY DEF Nodes
<1>3. /\ heap' = heap \ gone /\ free_timers' = NULL
      /\ next' = [y \in Timers |-> IF y \in gone THEN NULL ELSE next[y]]
      /\ prev' = [y \in Timers |-> IF y \in gone THEN NULL ELSE prev[y]]
      /\ time' = [y \in Timers |-> IF y \in gone THEN 0 ELSE time[y]]
  BY DEF Freed, Zeroed
<1>4. heap' = Nodes(b) /\ heap' \in SUBSET Timers /\ gone = heap \ Nodes(b)
  BY <1>1, <1>2, <1>3
<1>5. PICK r : r = [head |-> timers', nx |-> next', pv |-> prev']
  OBVIOUS
<1>6. r.head = timers' /\ r.nx = next' /\ r.pv = prev'
  BY <1>5
<1>7. OnTimers(r.nx) /\ OnTimers(r.pv)
  <2>1. next' = [y \in Timers |-> next'[y]]
    BY <1>3
  <2>2. prev' = [y \in Timers |-> prev'[y]]
    BY <1>3
  <2> QED
    BY <1>6, <2>1, <2>2 DEF OnTimers
<1>8. ASSUME NEW y \in Nodes(b) PROVE r.nx[y] = next[y] /\ r.pv[y] = prev[y] /\ time'[y] = time[y]
  <2>1. y \in Timers /\ y \notin gone
    BY <1>4
  <2> QED
    BY <1>3, <1>6, <2>1
<1>9. b \in Seq(Timers) /\ DOMAIN b = 1..Len(b)
  BY <1>1, <1>2
<1>10. \A k \in 1..Len(b) : b[k] \in Nodes(b)
  BY <1>9 DEF Nodes
<1>11. IsList(b, r) /\ InOrder(b, time')
  <2>1. CASE b = a /\ timers' = timers
    <3>1. IsList(b, r)
      BY <1>1, <1>6, <1>8, <1>10, <2>1 DEF IsList, IsChain
    <3>2. InOrder(a, time)
      BY DEF Lists
    <3>3. InOrder(b, time')
      BY <1>8, <1>10, <2>1, <3>2 DEF InOrder
    <3> QED
      BY <3>1, <3>3
  <2>2. CASE b = <<>> /\ timers' = NULL
    <3>1. ~(1 \in 1..Len(b)) /\ 1..Len(b) = {}
      BY <1>2, <2>2
    <3>2. Entry(b, 1) = NULL
      BY <3>1 DEF Entry
    <3> QED
      BY <1>6, <1>9, <2>2, <3>1, <3>2 DEF IsList, IsChain, InOrder
  <2> QED
    BY <2>1, <2>2
<1>12. IsChain(<<>>, free_timers', r.nx)
  <2>1. ~(1 \in 1..Len(<<>>)) /\ 1..Len(<<>>) = {}
    BY <1>2
  <2>2. Entry(<<>>, 1) = NULL
    BY <2>1 DEF Entry
  <2> QED
    BY <1>2, <1>3, <2>1, <2>2 DEF IsChain
<1>13. ASSUME NEW y \in Timers \ heap' PROVE r.nx[y] = NULL /\ r.pv[y] = NULL
  <2>1. CASE y \in gone
    BY <1>3, <1>6, <2>1
  <2>2. CASE y \notin gone
    BY <1>3, <1>4, <1>6, <2>2 DEF Lists
  <2> QED
    BY <2>1, <2>2
<1>14. Lists(b, <<>>)' /\ Pointers'
  BY <1>2, <1>4, <1>6, <1>7, <1>11, <1>12, <1>13, ListsBecome
<1> QED
  BY <1>4, <1>14

\* The chains of the pointers are the lists.
LEMMA ListsAre ==
  ASSUME NEW a, NEW f, Lists(a, f)
  PROVE  active = a /\ free = f
<1>1. /\ IsList(a, This) /\ IsChain(f, free_timers, This.nx) /\ heap \in SUBSET Timers
      /\ This.head = timers /\ This.nx = next
      /\ Nodes(a) \cap Nodes(f) = {} /\ Nodes(a) \cup Nodes(f) = heap
  BY TheLists
<1>2. PICK s, head, h : s = This /\ head = free_timers /\ h = heap
  OBVIOUS
<1>3. IsList(a, s) /\ IsChain(f, head, s.nx) /\ h \in SUBSET Timers /\ Nodes(a) \cup Nodes(f) = h
  BY <1>1, <1>2
<1>4. Chain(s.head, s.nx) = a /\ Chain(head, s.nx) = f
  <2>1. Len(a) <= Cardinality(Timers) /\ Len(f) <= Cardinality(Timers)
    BY <1>1, <1>3, ListsCounted
  <2> QED
    BY <1>3, <2>1, ChainIs DEF IsList
<1> QED
  BY <1>1, <1>2, <1>4 DEF active, free

LEMMA ListsWillBe ==
  ASSUME NEW a, NEW f, Lists(a, f)'
  PROVE  active' = a /\ free' = f
<1>1. PICK s, head, h : s = This' /\ head = free_timers' /\ h = heap'
  OBVIOUS
<1>2. s.head = timers' /\ s.nx = next' /\ s.pv = prev'
  BY <1>1 DEF This
<1>3. /\ IsList(a, s) /\ IsChain(f, head, next') /\ h \in SUBSET Timers
      /\ Nodes(a) \cap Nodes(f) = {} /\ Nodes(a) \cup Nodes(f) = h
  BY <1>1 DEF Lists
<1>4. IsChain(f, head, s.nx)
  BY <1>2, <1>3
<1>5. Chain(s.head, s.nx) = a /\ Chain(head, s.nx) = f
  <2>1. Len(a) <= Cardinality(Timers) /\ Len(f) <= Cardinality(Timers)
    BY <1>3, <1>4, ListsCounted
  <2> QED
    BY <1>3, <1>4, <2>1, ChainIs DEF IsList
<1> QED
  BY <1>1, <1>2, <1>5 DEF active, free

-----------------------------------------------------------------------------
(* The actions.                                                              *)

\* A timer that another follows is on the list, and so is the other.
LEMMA FollowsOnList ==
  ASSUME NEW a \in Seq(Timers), NEW y, NEW z, Follows(a, y, z)
  PROVE  y \in Nodes(a) /\ z \in Nodes(a) /\ y # NULL
<1>1. PICK i, j \in 1..Len(a) : a[i] = y /\ a[j] = z
  BY DEF Follows
<1>2. DOMAIN a = 1..Len(a)
  OBVIOUS
<1> QED
  BY <1>1, <1>2, NullIsNoTimer DEF Nodes

\* In a sorted list a timer that follows another is not earlier.
LEMMA FollowsIsLater ==
  ASSUME NEW a, NEW tm, InOrder(a, tm), NEW y, NEW z, Follows(a, y, z)
  PROVE  tm[y] <= tm[z]
BY DEF InOrder, Follows

\* Lists that a step leaves alone.
LEMMA SameLists ==
  ASSUME NEW a, NEW f, Lists(a, f), UNCHANGED <<list, heap, time>>
  PROVE  Lists(a, f)'
<1>1. timers' = timers /\ free_timers' = free_timers /\ next' = next /\ prev' = prev /\ heap' = heap /\ time' = time
  BY DEF list
<1>2. This' = This
  BY <1>1 DEF This
<1> QED
  BY <1>1, <1>2 DEF Lists

\* The invariants after a step that has made the lists b and g.
LEMMA InvBecomes ==
  ASSUME NEW b, NEW g, Lists(b, g)', TimersTypeOK', Walk(b)'
  PROVE  TimersInv' /\ Active' = Nodes(b) /\ (Ahead(b)' /\ Bounded(b)' => PassInv')
<1>1. active' = b /\ free' = g
  BY ListsWillBe
<1>2. Lists(active, free)' /\ Walk(active)'
  BY <1>1 DEF Walk, Lists
<1>3. Ahead(b)' /\ Bounded(b)' => Ahead(active)' /\ Bounded(active)'
  BY <1>1 DEF Ahead, Bounded
<1>4. Active' = Nodes(b)
  BY <1>1 DEF Active, active
<1> QED
  BY <1>2, <1>3, <1>4 DEF TimersInv, PassInv

LEMMA CreateStep ==
  ASSUME TimersInv, NEW x \in Timers, NEW delay \in Delays, NEW period \in BOOLEAN,
         timer_create(x, delay, period)
  PROVE  /\ TimersInv' /\ (PassInv => PassInv')
         /\ Active' = Active \cup {x} /\ x \notin Active
<1>1. TimersTypeOK /\ Lists(active, free) /\ Walk(active)
  BY DEF TimersInv
<1>2. PICK a, f : a = active /\ f = free
  OBVIOUS
<1>3. Lists(a, f) /\ Walk(a) /\ Active = Nodes(a)
  BY <1>1, <1>2 DEF Active, active
<1>4. PICK b, g : /\ Lists(b, g)' /\ Pointers' /\ heap' \subseteq Timers
                  /\ Nodes(b) = Nodes(a) \cup {x} /\ x \notin Nodes(a) /\ heap \subseteq heap'
                  /\ \A y, z : Follows(a, y, z) => Follows(b, y, z)
  BY <1>1, <1>3, CreateLists
<1>5. /\ usecs' = [usecs EXCEPT ![x] = delay] /\ periodic' = [periodic EXCEPT ![x] = period]
      /\ time' = [time EXCEPT ![x] = clock + delay] /\ (period => delay \in Periods)
      /\ clock' = clock /\ phase' = phase /\ now' = now /\ current' = current /\ t_next' = t_next /\ due' = due
      /\ (phase = "client" \/ phase = "callback")
  BY DEF timer_create, locals, Allowed
<1>6. delay \in Nat /\ clock \in Nat /\ clock <= MaxClock /\ MaxClock \in Nat
  BY <1>1, DelaysAssumption DEF TimersTypeOK
<1>7. a \in Seq(Timers) /\ Nodes(a) \subseteq heap
  BY <1>3, TheLists
<1>8. TimersTypeOK'
  <2>1. time' \in [Timers -> Nat] /\ usecs' \in [Timers -> Nat] /\ periodic' \in [Timers -> BOOLEAN]
    BY <1>1, <1>5, <1>6 DEF TimersTypeOK
  <2>2. current' \in Pointer' /\ t_next' \in Pointer'
    BY <1>1, <1>4, <1>5 DEF TimersTypeOK, Pointer
  <2> QED
    BY <1>1, <1>4, <1>5, <2>1, <2>2 DEF TimersTypeOK, Pointers
<1>9. Walk(b)'
  BY <1>3, <1>4, <1>5 DEF Walk
<1>10. ASSUME PassInv PROVE Ahead(b)' /\ Bounded(b)'
  <2>1. Ahead(a) /\ Bounded(a)
    BY <1>2, <1>10 DEF PassInv
  <2>2. ASSUME NEW y \in Timers \ {x} PROVE time'[y] = time[y] /\ usecs'[y] = usecs[y] /\ periodic'[y] = periodic[y]
    BY <1>1, <1>5 DEF TimersTypeOK
  <2>3. time'[x] = clock + delay /\ usecs'[x] = delay /\ periodic'[x] = period
    BY <1>1, <1>5 DEF TimersTypeOK
  <2>4. \A y \in due : y \in Timers \ {x}
    <3>1. CASE phase = "client"
      BY <2>1, <3>1 DEF Ahead
    <3>2. CASE phase = "callback"
      BY <1>4, <1>7, <2>1, <3>2, FollowsOnList, TheLists, <1>3 DEF Ahead
    <3> QED
      BY <1>5, <3>1, <3>2
  <2>5. Ahead(b)'
    BY <1>4, <1>5, <2>1, <2>2, <2>4 DEF Ahead
  <2>6. clock + delay <= MaxClock + 2 * delay
    BY <1>6
  <2>7. Bounded(b)'
    <3>1. ASSUME NEW y \in Nodes(b)
          PROVE usecs'[y] \in Delays /\ (periodic'[y] => usecs'[y] \in Periods) /\ time'[y] <= MaxClock + 2 * usecs'[y]
      <4>1. CASE y = x
        BY <1>5, <2>3, <2>6, <4>1
      <4>2. CASE y # x
        <5>1. y \in Nodes(a) /\ y \in Timers \ {x}
          BY <1>1, <1>4, <1>7, <4>2 DEF TimersTypeOK
        <5> QED
          BY <2>1, <2>2, <5>1 DEF Bounded
      <4> QED
        BY <4>1, <4>2
    <3>2. phase' = "callback" => time'[current'] <= MaxClock + usecs'[current']
      <4>1. phase' = "callback" => current \in Nodes(a) /\ current \in Timers \ {x}
        BY <1>1, <1>3, <1>4, <1>5, <1>7 DEF Walk, TimersTypeOK
      <4> QED
        BY <1>5, <2>1, <2>2, <4>1 DEF Bounded
    <3> QED
      BY <3>1, <3>2 DEF Bounded
  <2> QED
    BY <2>5, <2>7
<1> QED
  BY <1>3, <1>4, <1>8, <1>9, <1>10, InvBecomes

\* Putting a timer back at a new time, at the client's wish or for its next period.
LEMMA ResetStep ==
  ASSUME TimersInv, NEW x, timer_reset(x)
  PROVE  /\ TimersInv' /\ (PassInv /\ (phase = "callback" => x = current) => PassInv')
         /\ Active' = Active /\ x \in Active /\ Active \subseteq Timers
<1>1. TimersTypeOK /\ Lists(active, free) /\ Walk(active)
  BY DEF TimersInv
<1>2. PICK a, f : a = active /\ f = free
  OBVIOUS
<1>3. Lists(a, f) /\ Walk(a) /\ x \in Nodes(a) /\ Active = Nodes(a)
  BY <1>1, <1>2 DEF timer_reset, Active, active
<1>4. a \in Seq(Timers) /\ Nodes(a) \subseteq heap /\ heap \subseteq Timers
  BY <1>3, TheLists
<1>5. PICK w : w = clock + usecs[x]
  OBVIOUS
<1>6. /\ time' = [time EXCEPT ![x] = w] /\ SetList(list_resort(This, x, time')) /\ due' = due \ {x}
      /\ free_timers' = free_timers /\ heap' = heap /\ usecs' = usecs /\ periodic' = periodic
      /\ clock' = clock /\ phase' = phase /\ now' = now /\ current' = current /\ t_next' = t_next
      /\ (phase = "client" \/ phase = "callback")
  BY <1>5 DEF timer_reset, locals, Allowed
<1>7. w \in Nat /\ w <= MaxClock + usecs[x] /\ usecs[x] \in Nat /\ MaxClock \in Nat /\ x \in Timers
  BY <1>1, <1>3, <1>4, <1>5, DelaysAssumption DEF TimersTypeOK
<1>8. PICK b : /\ Lists(b, f)' /\ Pointers' /\ Nodes(b) = Nodes(a)
               /\ \A y, z : y # x /\ z # x /\ Follows(a, y, z) => Follows(b, y, z)
  BY <1>1, <1>3, <1>6, <1>7, ResortLists
<1>9. TimersTypeOK'
  <2>1. time' \in [Timers -> Nat]
    BY <1>1, <1>6, <1>7 DEF TimersTypeOK
  <2> QED
    BY <1>1, <1>6, <1>8, <2>1 DEF TimersTypeOK, Pointers, Pointer
<1>10. Walk(b)'
  BY <1>3, <1>6, <1>8 DEF Walk
<1>11. ASSUME PassInv, phase = "callback" => x = current PROVE Ahead(b)' /\ Bounded(b)'
  <2>1. Ahead(a) /\ Bounded(a)
    BY <1>2, <1>11 DEF PassInv
  <2>2. time'[x] = w /\ \A y \in Timers \ {x} : time'[y] = time[y]
    BY <1>1, <1>6, <1>7 DEF TimersTypeOK
  <2>3. Ahead(b)'
    <3>1. CASE phase = "client"
      BY <1>6, <2>1, <3>1 DEF Ahead
    <3>2. CASE phase = "callback"
      <4>1. x = current /\ t_next # current /\ due' = due
        BY <1>3, <1>6, <1>11, <2>1, <3>2 DEF Walk, Ahead
      <4>2. \A y \in due : Follows(a, t_next, y) /\ y # x
        BY <2>1, <3>2, <4>1 DEF Ahead
      <4>3. \A y \in due : Follows(b, t_next, y)
        BY <1>8, <4>1, <4>2
      <4>4. \A y \in due : y \in Timers \ {x}
        BY <1>4, <4>2, FollowsOnList
      <4> QED
        BY <1>6, <2>1, <2>2, <3>2, <4>1, <4>3, <4>4 DEF Ahead
    <3> QED
      BY <1>6, <3>1, <3>2
  <2>4. w <= MaxClock + 2 * usecs[x]
    BY <1>7
  <2>5. Bounded(b)'
    <3>1. ASSUME NEW y \in Nodes(b)
          PROVE usecs'[y] \in Delays /\ (periodic'[y] => usecs'[y] \in Periods) /\ time'[y] <= MaxClock + 2 * usecs'[y]
      <4>1. CASE y = x
        BY <1>3, <1>6, <2>1, <2>2, <2>4, <4>1 DEF Bounded
      <4>2. CASE y # x
        <5>1. y \in Nodes(a) /\ y \in Timers \ {x}
          BY <1>4, <1>8, <4>2
        <5> QED
          BY <1>6, <2>1, <2>2, <5>1 DEF Bounded
      <4> QED
        BY <4>1, <4>2
    <3>2. phase' = "callback" => time'[current'] <= MaxClock + usecs'[current']
      <4>1. phase' = "callback" => current = x
        BY <1>6, <1>11
      <4> QED
        BY <1>6, <1>7, <2>2, <4>1
    <3> QED
      BY <3>1, <3>2 DEF Bounded
  <2> QED
    BY <2>3, <2>5
<1> QED
  BY <1>3, <1>4, <1>8, <1>9, <1>10, <1>11, InvBecomes

\* Outside timer_run.
LEMMA CancelStep ==
  ASSUME TimersInv, NEW x, timer_cancel(x), phase = "client"
  PROVE  /\ TimersInv' /\ (PassInv => PassInv')
         /\ Active' = Active \ {x} /\ x \in Active /\ Active \subseteq Timers
<1>1. TimersTypeOK /\ Lists(active, free) /\ Walk(active)
  BY DEF TimersInv
<1>2. PICK a, f : a = active /\ f = free
  OBVIOUS
<1>3. Lists(a, f) /\ Walk(a) /\ x \in Nodes(a) /\ Active = Nodes(a)
  BY <1>1, <1>2 DEF timer_cancel, Active, active
<1>4. a \in Seq(Timers) /\ Nodes(a) \subseteq heap /\ heap \subseteq Timers
  BY <1>3, TheLists
<1>5. /\ Cancelled(x) /\ time' = time /\ due' = due \ {x}
      /\ heap' = heap /\ usecs' = usecs /\ periodic' = periodic
      /\ clock' = clock /\ phase' = phase /\ now' = now /\ current' = current /\ t_next' = t_next
  BY DEF timer_cancel, fields, locals
<1>6. PICK b, g : /\ Lists(b, g)' /\ Pointers' /\ Nodes(b) = Nodes(a) \ {x}
                  /\ \A y, z : y # x /\ z # x /\ Follows(a, y, z) => Follows(b, y, z)
  BY <1>1, <1>3, <1>5, CancelLists
<1>7. TimersTypeOK'
  BY <1>1, <1>5, <1>6 DEF TimersTypeOK, Pointers, Pointer
<1>8. Walk(b)'
  BY <1>3, <1>5 DEF Walk
<1>9. ASSUME PassInv PROVE Ahead(b)' /\ Bounded(b)'
  <2>1. Ahead(a) /\ Bounded(a)
    BY <1>2, <1>9 DEF PassInv
  <2>2. Ahead(b)'
    BY <1>5, <2>1 DEF Ahead
  <2>3. Bounded(b)'
    BY <1>5, <1>6, <2>1 DEF Bounded
  <2> QED
    BY <2>2, <2>3
<1> QED
  BY <1>3, <1>4, <1>6, <1>7, <1>8, <1>9, InvBecomes

LEMMA FreedStep ==
  ASSUME TimersInv, timer_cleanup \/ timer_destroy
  PROVE  /\ TimersInv' /\ (PassInv => PassInv')
         /\ \/ Active' = Active /\ \A y \in Active : time'[y] = time[y]
            \/ Active' = {}
<1>1. TimersTypeOK /\ Lists(active, free) /\ Walk(active)
  BY DEF TimersInv
<1>2. PICK a, f : a = active /\ f = free
  OBVIOUS
<1>3. Lists(a, f) /\ Walk(a) /\ Active = Nodes(a)
  BY <1>1, <1>2 DEF Active, active
<1>4. PICK b, gone : /\ Freed(gone)
                     /\ \/ b = a /\ gone = Nodes(f) /\ timers' = timers
                        \/ b = <<>> /\ gone = Nodes(a) \cup Nodes(f) /\ timers' = NULL
  BY <1>2 DEF timer_cleanup, timer_destroy, Free, Active, active, free
<1>5. Lists(b, <<>>)' /\ Pointers' /\ heap' = Nodes(b) /\ heap' \subseteq Timers
  BY <1>3, <1>4, FreedLists
<1>6. clock' = clock /\ phase' = phase /\ now' = now /\ current' = current /\ t_next' = t_next /\ due' = due /\ phase = "client"
  BY DEF timer_cleanup, timer_destroy, locals
<1>7. /\ time' = [y \in Timers |-> IF y \in gone THEN 0 ELSE time[y]]
      /\ usecs' = [y \in Timers |-> IF y \in gone THEN 0 ELSE usecs[y]]
      /\ periodic' = [y \in Timers |-> IF y \in gone THEN FALSE ELSE periodic[y]]
      /\ heap' = heap \ gone
  BY <1>4 DEF Freed, Zeroed
<1>8. time' \in [Timers -> Nat] /\ usecs' \in [Timers -> Nat] /\ periodic' \in [Timers -> BOOLEAN]
  BY <1>1, <1>7 DEF TimersTypeOK
<1>9. current = NULL /\ t_next = NULL
  BY <1>3, <1>6 DEF Walk
<1>10. TimersTypeOK'
  BY <1>1, <1>5, <1>6, <1>8, <1>9 DEF TimersTypeOK, Pointers, Pointer
<1>11. Walk(b)'
  BY <1>6, <1>9 DEF Walk
<1>12. ASSUME NEW y \in Nodes(b)
       PROVE  y \in Nodes(a) /\ time'[y] = time[y] /\ usecs'[y] = usecs[y] /\ periodic'[y] = periodic[y]
  <2>1. y \in Timers /\ y \in heap' /\ y \notin gone
    BY <1>5, <1>7
  <2>2. y \in Nodes(a)
    BY <1>4, <2>1 DEF Nodes
  <2> QED
    BY <1>7, <2>1, <2>2
<1>13. ASSUME PassInv PROVE Ahead(b)' /\ Bounded(b)'
  <2>1. Ahead(a) /\ Bounded(a)
    BY <1>2, <1>13 DEF PassInv
  <2>2. Ahead(b)'
    BY <1>6, <2>1 DEF Ahead
  <2>3. Bounded(b)'
    BY <1>6, <1>12, <2>1 DEF Bounded
  <2> QED
    BY <2>2, <2>3
<1>14. (b = a /\ Nodes(b) = Nodes(a)) \/ Nodes(b) = {}
  BY <1>4 DEF Nodes
<1> QED
  BY <1>3, <1>5, <1>10, <1>11, <1>12, <1>13, <1>14, InvBecomes

LEMMA TickStep ==
  ASSUME TimersInv, Tick
  PROVE  /\ TimersInv' /\ (PassInv => PassInv')
         /\ Active' = Active
<1>1. TimersTypeOK /\ Lists(active, free) /\ Walk(active)
  BY DEF TimersInv
<1>2. PICK a, f : a = active /\ f = free
  OBVIOUS
<1>3. Lists(a, f) /\ Walk(a) /\ Active = Nodes(a)
  BY <1>1, <1>2 DEF Active, active
<1>4. /\ UNCHANGED <<list, heap, time>> /\ UNCHANGED <<usecs, periodic, phase, now, current, t_next, due>>
      /\ clock' \in 0..MaxClock /\ clock <= clock'
  BY <1>1, DelaysAssumption DEF Tick, fields, locals, TimersTypeOK
<1>5. Lists(a, f)'
  BY <1>3, <1>4, SameLists
<1>6. TimersTypeOK'
  BY <1>1, <1>4 DEF TimersTypeOK, Pointer, list
<1>7. Walk(a)'
  BY <1>3, <1>4 DEF Walk
<1>8. ASSUME PassInv PROVE Ahead(a)' /\ Bounded(a)'
  <2>1. Ahead(a) /\ Bounded(a)
    BY <1>2, <1>8 DEF PassInv
  <2>2. now <= clock'
    BY <1>1, <1>4, <2>1 DEF Ahead, TimersTypeOK
  <2> QED
    BY <1>4, <2>1, <2>2 DEF Ahead, Bounded
<1> QED
  BY <1>3, <1>5, <1>6, <1>7, <1>8, InvBecomes

\* What timer_run's loop starts with follows from the head of the list on.
LEMMA RunBeginStep ==
  ASSUME TimersInv, RunBegin
  PROVE  /\ TimersInv' /\ (PassInv => PassInv')
         /\ Active' = Active
<1>1. TimersTypeOK /\ Lists(active, free) /\ Walk(active)
  BY DEF TimersInv
<1>2. PICK a, f : a = active /\ f = free
  OBVIOUS
<1>3. Lists(a, f) /\ Walk(a) /\ Active = Nodes(a)
  BY <1>1, <1>2 DEF Active, active
<1>4. /\ UNCHANGED <<list, heap, time>> /\ UNCHANGED <<usecs, periodic, clock, t_next>>
      /\ now' = clock /\ current' = timers /\ phase' = "walk" /\ phase = "client"
      /\ due' = {y \in Nodes(a) : time[y] <= clock}
  BY <1>2 DEF RunBegin, fields, locals, Active, active
<1>5. Lists(a, f)'
  BY <1>3, <1>4, SameLists
<1>6. a \in Seq(Timers) /\ DOMAIN a = 1..Len(a) /\ Len(a) \in Nat /\ Nodes(a) \subseteq Timers /\ timers = Entry(a, 1)
  <2>1. IsList(a, This) /\ This.head = timers
    BY <1>3, TheLists
  <2> QED
    BY <1>3, <2>1, TheLists DEF IsList, IsChain
<1>7. timers \in Nodes(a) \cup {NULL}
  BY <1>6 DEF Entry, Nodes
<1>8. TimersTypeOK'
  <2>1. due' \subseteq Timers /\ now' \in 0..MaxClock /\ phase' \in {"client", "walk", "callback"} /\ current' \in Pointer
    BY <1>1, <1>4, <1>6 DEF TimersTypeOK
  <2> QED
    BY <1>1, <1>4, <2>1 DEF TimersTypeOK, Pointer, list
<1>9. Walk(a)'
  BY <1>3, <1>4, <1>7 DEF Walk
<1>10. ASSUME PassInv PROVE Ahead(a)' /\ Bounded(a)'
  <2>1. Ahead(a) /\ Bounded(a)
    BY <1>2, <1>10 DEF PassInv
  <2>2. ASSUME NEW y \in due' PROVE Follows(a, timers, y)
    <3>1. PICK k \in 1..Len(a) : a[k] = y
      BY <1>4, <1>6 DEF Nodes
    <3>2. 1 \in 1..Len(a) /\ 1 <= k
      BY <1>6
    <3>3. a[1] = timers
      BY <1>6, <3>2 DEF Entry
    <3> QED
      BY <3>1, <3>2, <3>3 DEF Follows
  <2>3. clock <= clock
    BY <1>1 DEF TimersTypeOK
  <2>4. Ahead(a)'
    BY <1>4, <2>2, <2>3 DEF Ahead
  <2>5. Bounded(a)'
    BY <1>4, <2>1 DEF Bounded
  <2> QED
    BY <2>4, <2>5
<1> QED
  BY <1>3, <1>5, <1>8, <1>9, <1>10, InvBecomes

\* The timer after current, remembered before the callback: what followed current, and is not current, follows it.
LEMMA NextOnList ==
  ASSUME NEW a, NEW head, NEW nx, IsChain(a, head, nx), NEW x \in Nodes(a)
  PROVE  /\ nx[x] \in Nodes(a) \cup {NULL} /\ nx[x] # x
         /\ \A y : y # x /\ Follows(a, x, y) => Follows(a, nx[x], y)
<1>1. /\ a \in Seq(Timers) /\ DOMAIN a = 1..Len(a) /\ Len(a) \in Nat
      /\ \A j, k \in 1..Len(a) : a[j] = a[k] => j = k
  BY DEF IsChain
<1>2. PICK k \in 1..Len(a) : x = a[k]
  BY <1>1 DEF Nodes
<1>3. nx[x] = Entry(a, k + 1) /\ k + 1 \in Nat /\ k \in Nat
  BY <1>1, <1>2 DEF IsChain
<1>4. nx[x] \in Nodes(a) \cup {NULL}
  BY <1>1, <1>3 DEF Entry, Nodes
<1>5. nx[x] # x
  <2>1. CASE k + 1 \in 1..Len(a)
    <3>1. nx[x] = a[k + 1] /\ k + 1 # k
      BY <1>3, <2>1 DEF Entry
    <3> QED
      BY <1>1, <1>2, <2>1, <3>1
  <2>2. CASE k + 1 \notin 1..Len(a)
    <3>1. nx[x] = NULL /\ x \in Timers
      BY <1>1, <1>2, <1>3, <2>2 DEF Entry
    <3> QED
      BY <3>1, NullIsNoTimer
  <2> QED
    BY <2>1, <2>2
<1>6. ASSUME NEW y, y # x, Follows(a, x, y) PROVE Follows(a, nx[x], y)
  <2>1. PICK i, j \in 1..Len(a) : i <= j /\ a[i] = x /\ a[j] = y
    BY <1>6 DEF Follows
  <2>2. i = k /\ j # k
    BY <1>1, <1>2, <1>6, <2>1
  <2>3. k + 1 <= j /\ k + 1 \in 1..Len(a)
    BY <1>1, <1>3, <2>1, <2>2
  <2>4. nx[x] = a[k + 1]
    BY <1>3, <2>3 DEF Entry
  <2> QED
    BY <2>1, <2>3, <2>4 DEF Follows
<1> QED
  BY <1>4, <1>5, <1>6

LEMMA RunCallStep ==
  ASSUME TimersInv, RunCall
  PROVE  /\ TimersInv' /\ (PassInv => PassInv')
         /\ Active' = Active /\ current \in Active
<1>1. TimersTypeOK /\ Lists(active, free) /\ Walk(active)
  BY DEF TimersInv
<1>2. PICK a, f : a = active /\ f = free
  OBVIOUS
<1>3. Lists(a, f) /\ Walk(a) /\ Active = Nodes(a)
  BY <1>1, <1>2 DEF Active, active
<1>4. /\ UNCHANGED <<list, heap, time>> /\ UNCHANGED <<usecs, periodic, clock, now, current>>
      /\ t_next' = next[current] /\ due' = due \ {current} /\ phase' = "callback" /\ phase = "walk"
      /\ current # NULL /\ ~(time[current] > now)
  BY DEF RunCall, fields, NotReady
<1>5. Lists(a, f)'
  BY <1>3, <1>4, SameLists
<1>6. current \in Nodes(a) /\ IsChain(a, timers, next) /\ Nodes(a) \subseteq Timers /\ Nodes(a) \subseteq heap
  <2>1. IsList(a, This) /\ This.head = timers /\ This.nx = next
    BY <1>3, TheLists
  <2>2. IsChain(a, timers, next)
    BY <2>1 DEF IsList
  <2>3. current \in Nodes(a)
    BY <1>3, <1>4 DEF Walk
  <2> QED
    BY <1>3, <2>2, <2>3, TheLists
<1>7. /\ next[current] \in Nodes(a) \cup {NULL} /\ next[current] # current
      /\ \A y : y # current /\ Follows(a, current, y) => Follows(a, next[current], y)
  BY <1>6, NextOnList
<1>8. TimersTypeOK'
  <2>1. t_next' \in Pointer
    BY <1>4, <1>6, <1>7 DEF Pointer
  <2> QED
    BY <1>1, <1>4, <2>1 DEF TimersTypeOK, Pointer, list
<1>9. Walk(a)'
  BY <1>4, <1>6, <1>7 DEF Walk
<1>10. ASSUME PassInv PROVE Ahead(a)' /\ Bounded(a)'
  <2>1. Ahead(a) /\ Bounded(a)
    BY <1>2, <1>10 DEF PassInv
  <2>2. Ahead(a)'
    BY <1>4, <1>7, <2>1 DEF Ahead
  <2>3. time[current] <= MaxClock + usecs[current]
    <3>1. time[current] \in Nat /\ usecs[current] \in Nat /\ now \in 0..MaxClock /\ MaxClock \in Nat
      BY <1>1, <1>6, DelaysAssumption DEF TimersTypeOK
    <3> QED
      BY <1>4, <3>1
  <2>4. Bounded(a)'
    BY <1>4, <2>1, <2>3 DEF Bounded
  <2> QED
    BY <2>2, <2>4
<1> QED
  BY <1>3, <1>6, <1>5, <1>8, <1>9, <1>10, InvBecomes

\* The walk stops at the end of the list or at a timer that is later than the pass: nothing that
\* was due follows it.
LEMMA RunEndStep ==
  ASSUME TimersInv, RunEnd
  PROVE  /\ TimersInv' /\ (PassInv => PassInv')
         /\ Active' = Active
<1>1. TimersTypeOK /\ Lists(active, free) /\ Walk(active)
  BY DEF TimersInv
<1>2. PICK a, f : a = active /\ f = free
  OBVIOUS
<1>3. Lists(a, f) /\ Walk(a) /\ Active = Nodes(a)
  BY <1>1, <1>2 DEF Active, active
<1>4. /\ UNCHANGED <<list, heap, time>> /\ UNCHANGED <<usecs, periodic, clock, t_next, due>>
      /\ current' = NULL /\ now' = 0 /\ phase' = "client" /\ phase = "walk"
      /\ current = NULL \/ time[current] > now
  BY DEF RunEnd, fields, NotReady
<1>5. Lists(a, f)'
  BY <1>3, <1>4, SameLists
<1>6. TimersTypeOK'
  <2>1. now' \in 0..MaxClock
    BY <1>4, DelaysAssumption
  <2> QED
    BY <1>1, <1>4, <2>1 DEF TimersTypeOK, Pointer, list
<1>7. Walk(a)'
  BY <1>3, <1>4 DEF Walk
<1>8. ASSUME PassInv PROVE Ahead(a)' /\ Bounded(a)'
  <2>1. Ahead(a) /\ Bounded(a)
    BY <1>2, <1>8 DEF PassInv
  <2>2. due = {}
    <3> SUFFICES ASSUME NEW y \in due PROVE FALSE
      OBVIOUS
    <3>1. Follows(a, current, y) /\ time[y] <= now
      BY <1>4, <2>1 DEF Ahead
    <3>2. current \in Nodes(a) /\ current # NULL /\ y \in Nodes(a) /\ Nodes(a) \subseteq Timers
      BY <1>3, <3>1, FollowsOnList, TheLists
    <3>3. time[current] <= time[y]
      <4>1. InOrder(a, time)
        BY <1>3 DEF Lists
      <4> QED
        BY <3>1, <4>1, FollowsIsLater
    <3>4. time[current] \in Nat /\ time[y] \in Nat /\ now \in Nat
      BY <1>1, <3>2 DEF TimersTypeOK
    <3> QED
      BY <1>4, <3>1, <3>2, <3>3, <3>4
  <2>3. 0 <= clock
    BY <1>1 DEF TimersTypeOK
  <2>4. Ahead(a)'
    BY <1>4, <2>2, <2>3 DEF Ahead
  <2>5. Bounded(a)'
    BY <1>4, <2>1 DEF Bounded
  <2> QED
    BY <2>4, <2>5
<1> QED
  BY <1>3, <1>5, <1>6, <1>7, <1>8, InvBecomes

\* After a callback the timer is put back or cancelled, and the walk goes on with the remembered
\* one, which what is due follows still.
LEMMA RunReturnStep ==
  ASSUME TimersInv, RunReturn
  PROVE  /\ TimersInv' /\ (PassInv => PassInv')
         /\ Active' = (IF periodic[current] THEN Active ELSE Active \ {current}) /\ current \in Active /\ Active \subseteq Timers
<1>1. TimersTypeOK /\ Lists(active, free) /\ Walk(active)
  BY DEF TimersInv
<1>2. PICK a, f : a = active /\ f = free
  OBVIOUS
<1>3. Lists(a, f) /\ Walk(a) /\ Active = Nodes(a)
  BY <1>1, <1>2 DEF Active, active
<1>4. /\ UNCHANGED <<usecs, periodic, heap, clock, now, due>>
      /\ current' = t_next /\ t_next' = NULL /\ phase' = "walk" /\ phase = "callback"
  BY DEF RunReturn
<1>5. a \in Seq(Timers) /\ Nodes(a) \subseteq Timers /\ Nodes(a) \subseteq heap
  BY <1>3, TheLists
<1>6. current \in Nodes(a) /\ t_next \in Nodes(a) \cup {NULL} /\ t_next # current
  BY <1>3, <1>4 DEF Walk
<1>7. PICK w : w = time[current] + usecs[current]
  OBVIOUS
<1>8. time[current] \in Nat /\ usecs[current] \in Nat /\ w \in Nat /\ time \in [Timers -> Nat]
  BY <1>1, <1>5, <1>6, <1>7 DEF TimersTypeOK
<1>9. PICK b, g : /\ Lists(b, g)' /\ Pointers'
                  /\ Nodes(b) = IF periodic[current] THEN Nodes(a) ELSE Nodes(a) \ {current}
                  /\ \A y, z : y # current /\ z # current /\ Follows(a, y, z) => Follows(b, y, z)
                  /\ ((time' = time /\ current \notin Nodes(b)) \/ (time' = [time EXCEPT ![current] = w] /\ periodic[current]))
  <2>1. CASE periodic[current]
    <3>1. time' = [time EXCEPT ![current] = w] /\ SetList(list_resort(This, current, time')) /\ free_timers' = free_timers
      BY <1>7, <2>1 DEF RunReturn, Rescheduled
    <3>2. PICK b : /\ Lists(b, f)' /\ Pointers' /\ Nodes(b) = Nodes(a)
                   /\ \A y, z : y # current /\ z # current /\ Follows(a, y, z) => Follows(b, y, z)
      <4>1. PICK x : x = current
        OBVIOUS
      <4>2. x \in Nodes(a) /\ time' = [time EXCEPT ![x] = w] /\ SetList(list_resort(This, x, time'))
        BY <1>6, <3>1, <4>1
      <4>3. free_timers' = free_timers /\ heap' = heap
        BY <1>4, <3>1
      <4>4. \E b : /\ Lists(b, f)' /\ Pointers' /\ Nodes(b) = Nodes(a)
                   /\ \A y, z : y # x /\ z # x /\ Follows(a, y, z) => Follows(b, y, z)
        BY <1>1, <1>3, <1>8, <4>2, <4>3, ResortLists
      <4> QED
        BY <4>1, <4>4
    <3> QED
      BY <2>1, <3>1, <3>2
  <2>2. CASE ~periodic[current]
    <3>1. Cancelled(current) /\ time' = time
      BY <2>2 DEF RunReturn
    <3>2. PICK b, g : /\ Lists(b, g)' /\ Pointers' /\ Nodes(b) = Nodes(a) \ {current}
                      /\ \A y, z : y # current /\ z # current /\ Follows(a, y, z) => Follows(b, y, z)
      BY <1>1, <1>3, <1>4, <1>6, <3>1, CancelLists
    <3> QED
      BY <2>2, <3>1, <3>2
  <2> QED
    BY <2>1, <2>2
<1>10. time' \in [Timers -> Nat]
  BY <1>8, <1>9
<1>11. TimersTypeOK'
  <2>1. current' \in Pointer' /\ t_next' \in Pointer'
    BY <1>4, <1>5, <1>6 DEF Pointer
  <2> QED
    BY <1>1, <1>4, <1>9, <1>10, <2>1 DEF TimersTypeOK, Pointers, Pointer
<1>12. Walk(b)'
  BY <1>4, <1>6, <1>9 DEF Walk
<1>13. ASSUME PassInv PROVE Ahead(b)' /\ Bounded(b)'
  <2>1. Ahead(a) /\ Bounded(a)
    BY <1>2, <1>13 DEF PassInv
  <2>2. \A y \in due : Follows(a, t_next, y) /\ y \in Timers \ {current}
    <3>1. \A y \in due : Follows(a, t_next, y) /\ y # current
      BY <1>4, <2>1 DEF Ahead
    <3> QED
      BY <1>5, <3>1, FollowsOnList
  <2>3. \A y \in due : Follows(b, t_next, y)
    BY <1>6, <1>9, <2>2
  <2>4. \A y \in Timers \ {current} : time'[y] = time[y]
    BY <1>8, <1>9
  <2>5. Ahead(b)'
    BY <1>4, <2>1, <2>2, <2>3, <2>4 DEF Ahead
  <2>6. ASSUME NEW y \in Nodes(b)
        PROVE  usecs'[y] \in Delays /\ (periodic'[y] => usecs'[y] \in Periods) /\ time'[y] <= MaxClock + 2 * usecs'[y]
    <3>0. y \in Nodes(a) /\ y \in Timers
      BY <1>5, <1>9
    <3>1. CASE y # current
      BY <1>4, <2>1, <2>4, <3>0, <3>1 DEF Bounded
    <3>2. CASE y = current
      <4>1. time'[current] = w
        BY <1>5, <1>6, <1>8, <1>9, <3>2
      <4>2. time[current] <= MaxClock + usecs[current]
        BY <1>4, <2>1 DEF Bounded
      <4>3. w <= MaxClock + 2 * usecs[current]
        BY <1>7, <1>8, <4>2, DelaysAssumption
      <4> QED
        BY <1>4, <2>1, <3>0, <3>2, <4>1, <4>3 DEF Bounded
    <3> QED
      BY <3>1, <3>2
  <2>7. Bounded(b)'
    BY <1>4, <2>6 DEF Bounded
  <2> QED
    BY <2>5, <2>7
<1> QED
  BY <1>3, <1>5, <1>6, <1>9, <1>11, <1>12, <1>13, InvBecomes

-----------------------------------------------------------------------------
(* The invariants hold.                                                      *)

\* Callbacks that cancel no timer, and such that put back only their own.
NoCancels == CallbackOps \subseteq {"create", "reset_self", "reset_other"}
OwnTimer == CallbackOps \subseteq {"create", "reset_self"}

LEMMA TimersInvInit == TimersInit => TimersInv /\ PassInv
<1> SUFFICES ASSUME TimersInit PROVE TimersInv /\ PassInv
  OBVIOUS
<1>1. TimersTypeOK
  BY DelaysAssumption DEF TimersInit, TimersTypeOK, Pointer
<1>2. 1..Len(<<>>) = {} /\ <<>> \in Seq(Timers) /\ Nodes(<<>>) = {} /\ Entry(<<>>, 1) = NULL
  BY DEF Nodes, Entry
<1>3. This.head = NULL /\ free_timers = NULL
  BY DEF This, TimersInit
<1>4. IsList(<<>>, This) /\ IsChain(<<>>, free_timers, next)
  BY <1>2, <1>3 DEF IsList, IsChain
<1>5. Lists(<<>>, <<>>)
  BY <1>2, <1>4 DEF Lists, InOrder, TimersInit
<1>6. active = <<>> /\ free = <<>>
  BY <1>5, ListsAre
<1>7. Walk(<<>>) /\ Ahead(<<>>) /\ Bounded(<<>>)
  BY <1>2 DEF Walk, Ahead, Bounded, TimersInit
<1> QED
  BY <1>1, <1>5, <1>6, <1>7 DEF TimersInv, PassInv

LEMMA TimersInvStep == NoCancels /\ TimersInv /\ [TimersNext]_timers_vars => TimersInv'
<1> SUFFICES ASSUME NoCancels, TimersInv, [TimersNext]_timers_vars PROVE TimersInv'
  OBVIOUS
<1>1. CASE UNCHANGED timers_vars
  <2>1. active' = active /\ free' = free
    BY <1>1 DEF timers_vars, list, active, free
  <2>2. TimersTypeOK'
    BY <1>1 DEF timers_vars, list, fields, locals, TimersInv, TimersTypeOK, Pointer
  <2>3. PICK a, f : a = active /\ f = free
    OBVIOUS
  <2>4. Lists(a, f)'
    BY <1>1, <2>3, SameLists DEF timers_vars, list, fields, TimersInv
  <2>5. Walk(a)'
    BY <1>1, <2>3 DEF timers_vars, locals, TimersInv, Walk
  <2> QED
    BY <2>2, <2>4, <2>5, InvBecomes
<1>2. ASSUME NEW x \in Timers, NEW d \in Delays, NEW p \in BOOLEAN, timer_create(x, d, p) PROVE TimersInv'
  BY <1>2, CreateStep
<1>3. ASSUME NEW x \in Timers, timer_reset(x) PROVE TimersInv'
  BY <1>3, ResetStep
<1>4. ASSUME NEW x \in Timers, timer_cancel(x) PROVE TimersInv'
  <2>1. phase = "client"
    BY <1>4 DEF timer_cancel, Allowed, NoCancels
  <2> QED
    BY <1>4, <2>1, CancelStep
<1>5. CASE timer_cleanup \/ timer_destroy
  BY <1>5, FreedStep
<1>6. CASE RunBegin
  BY <1>6, RunBeginStep
<1>7. CASE RunCall
  BY <1>7, RunCallStep
<1>8. CASE RunEnd
  BY <1>8, RunEndStep
<1>9. CASE RunReturn
  BY <1>9, RunReturnStep
<1>10. CASE Tick
  BY <1>10, TickStep
<1> QED
  BY <1>1, <1>2, <1>3, <1>4, <1>5, <1>6, <1>7, <1>8, <1>9, <1>10 DEF TimersNext

LEMMA PassInvStep == OwnTimer /\ TimersInv /\ PassInv /\ [TimersNext]_timers_vars => PassInv'
<1> SUFFICES ASSUME OwnTimer, TimersInv, PassInv, [TimersNext]_timers_vars PROVE PassInv'
  OBVIOUS
<1>1. CASE UNCHANGED timers_vars
  <2>1. active' = active
    BY <1>1 DEF timers_vars, list, active
  <2> QED
    BY <1>1, <2>1 DEF timers_vars, fields, locals, PassInv, Ahead, Bounded
<1>2. ASSUME NEW x \in Timers, NEW d \in Delays, NEW p \in BOOLEAN, timer_create(x, d, p) PROVE PassInv'
  BY <1>2, CreateStep
<1>3. ASSUME NEW x \in Timers, timer_reset(x) PROVE PassInv'
  <2>1. phase = "callback" => x = current
    BY <1>3 DEF timer_reset, Allowed, OwnTimer
  <2> QED
    BY <1>3, <2>1, ResetStep
<1>4. ASSUME NEW x \in Timers, timer_cancel(x) PROVE PassInv'
  <2>1. phase = "client"
    BY <1>4 DEF timer_cancel, Allowed, OwnTimer
  <2> QED
    BY <1>4, <2>1, CancelStep
<1>5. CASE timer_cleanup \/ timer_destroy
  BY <1>5, FreedStep
<1>6. CASE RunBegin
  BY <1>6, RunBeginStep
<1>7. CASE RunCall
  BY <1>7, RunCallStep
<1>8. CASE RunEnd
  BY <1>8, RunEndStep
<1>9. CASE RunReturn
  BY <1>9, RunReturnStep
<1>10. CASE Tick
  BY <1>10, TickStep
<1> QED
  BY <1>1, <1>2, <1>3, <1>4, <1>5, <1>6, <1>7, <1>8, <1>9, <1>10 DEF TimersNext

\* What the invariant says of the lists is what is claimed of them.
LEMMA TimersInvSound == TimersInv => ListsSound
<1> SUFFICES ASSUME TimersInv PROVE ListsSound
  OBVIOUS
<1>1. TimersTypeOK /\ Lists(active, free)
  BY DEF TimersInv
<1>2. PICK a, f : a = active /\ f = free
  OBVIOUS
<1>3. Lists(a, f) /\ a = Chain(timers, next) /\ f = Chain(free_timers, next) /\ Active = Nodes(a)
  BY <1>1, <1>2 DEF active, free, Active
<1>4. /\ IsList(a, This) /\ IsChain(f, free_timers, This.nx) /\ heap \in SUBSET Timers
      /\ This.head = timers /\ This.nx = next /\ This.pv = prev
      /\ Nodes(a) \cap Nodes(f) = {} /\ Nodes(a) \cup Nodes(f) = heap
      /\ a \in Seq(Timers) /\ DOMAIN a = 1..Len(a) /\ Len(a) \in Nat
  BY <1>3, TheLists
<1>5. Len(a) + Len(f) = Cardinality(heap)
  <2>1. PICK s, head, h : s = This /\ head = free_timers /\ h = heap
    OBVIOUS
  <2>2. IsList(a, s) /\ IsChain(f, head, s.nx) /\ h \in SUBSET Timers /\ Nodes(a) \cup Nodes(f) = h
    BY <1>4, <2>1
  <2>3. Len(a) + Len(f) = Cardinality(h)
    BY <1>4, <2>2, ListsCounted
  <2> QED
    BY <2>1, <2>3
<1>6. ASSUME NEW k \in 1..Len(a) - 1 PROVE time[a[k]] <= time[a[k + 1]]
  <2>1. k \in 1..Len(a) /\ k + 1 \in 1..Len(a) /\ k <= k + 1
    BY <1>4
  <2> QED
    BY <1>3, <2>1 DEF Lists, InOrder
<1>7. ASSUME NEW k \in 1..Len(a) PROVE prev[a[k]] = IF k = 1 THEN NULL ELSE a[k - 1]
  <2>1. prev[a[k]] = Entry(a, k - 1)
    BY <1>4 DEF IsList
  <2>2. k - 1 \in 1..Len(a) <=> k # 1
    BY <1>4
  <2> QED
    BY <2>1, <2>2 DEF Entry
<1>8. timers = Entry(a, 1)
  BY <1>4 DEF IsList, IsChain
<1>9. TimeoutIsEarliest
  <2>1. CASE Len(a) = 0
    <3>1. Nodes(a) = {} /\ timers = NULL
      BY <1>4, <1>8, <2>1 DEF Nodes, Entry
    <3> QED
      BY <1>3, <3>1 DEF TimeoutIsEarliest, timer_timeout
  <2>2. CASE Len(a) # 0
    <3>1. 1 \in 1..Len(a) /\ timers = a[1]
      BY <1>4, <1>8, <2>2 DEF Entry
    <3>2. timers \in Nodes(a) /\ timers # NULL /\ timers \in Timers
      BY <1>4, <3>1, NullIsNoTimer DEF Nodes
    <3>3. ASSUME NEW y \in Nodes(a) PROVE time[timers] <= time[y]
      <4>1. PICK k \in 1..Len(a) : a[k] = y
        BY <1>4 DEF Nodes
      <4>2. 1 <= k
        BY <1>4
      <4> QED
        BY <1>3, <3>1, <4>1, <4>2 DEF Lists, InOrder
    <3>4. time[timers] \in Nat /\ clock \in Nat
      BY <1>1, <3>2 DEF TimersTypeOK
    <3>5. timer_timeout = IF time[timers] > clock THEN time[timers] - clock ELSE 0
      BY <3>2, <3>4 DEF timer_timeout
    <3> QED
      BY <1>3, <3>2, <3>3, <3>5 DEF TimeoutIsEarliest
  <2> QED
    BY <2>1, <2>2
<1> QED
  BY <1>1, <1>3, <1>4, <1>5, <1>6, <1>7, <1>9 DEF ListsSound

LEMMA TimersInvHolds == ASSUME NoCancels PROVE TimersSpec => []TimersInv
<1>1. TimersInit => TimersInv
  BY TimersInvInit
<1>2. TimersInv /\ [TimersNext]_timers_vars => TimersInv'
  BY TimersInvStep
<1> QED
  BY <1>1, <1>2, PTL DEF TimersSpec

LEMMA PassInvHolds == ASSUME OwnTimer PROVE TimersSpec => [](TimersInv /\ PassInv)
<1>1. TimersInit => TimersInv /\ PassInv
  BY TimersInvInit
<1>2. NoCancels
  BY DEF OwnTimer, NoCancels
<1>3. (TimersInv /\ PassInv) /\ [TimersNext]_timers_vars => (TimersInv /\ PassInv)'
  BY <1>2, TimersInvStep, PassInvStep
<1> QED
  BY <1>1, <1>3, PTL DEF TimersSpec

\* Whatever the callbacks create and put back, the two lists are finite, apart and hold the heap,
\* the active one is sorted and its prev pointers lead back along it (list_add, list_remove,
\* timer_cancel), and select's timeout is the time until the earliest timer.
THEOREM ListsAreSound == NoCancels => (TimersSpec => []ListsSound)
<1> SUFFICES ASSUME NoCancels PROVE TimersSpec => []ListsSound
  OBVIOUS
<1> QED
  BY TimersInvHolds, TimersInvSound, PTL

\* No timer that was due when timer_run began is left when it ends, whatever number of timers
\* there are and whichever of them the callbacks create.
THEOREM DueTimersRun == OwnTimer => (TimersSpec => []AllDueRun)
<1> SUFFICES ASSUME OwnTimer PROVE TimersSpec => []AllDueRun
  OBVIOUS
<1>1. PassInv => AllDueRun
  BY DEF PassInv, Ahead, AllDueRun
<1> QED
  BY <1>1, PassInvHolds, PTL

-----------------------------------------------------------------------------
(* The service.  What its variables are, by name.                            *)

Deadline == [x \in Active |-> time[x]]
Now == IF phase = "client" THEN clock ELSE now
Running == IF phase = "callback" THEN current ELSE NULL
Callers == TimersInv /\ PassInv
PeriodsPass == 0 \notin Periods

\* What the invariants say of the service's state.
LEMMA ServiceFacts ==
  ASSUME Callers
  PROVE  /\ Active \subseteq Timers /\ time \in [Timers -> Nat] /\ usecs \in [Timers -> Nat]
         /\ Now \in Nat /\ clock \in Nat /\ Now <= clock /\ clock <= MaxClock /\ MaxTime \in Nat /\ MaxClock <= MaxTime
         /\ \A x \in Active : /\ time[x] <= MaxTime
                              /\ usecs[x] \in Delays /\ clock + usecs[x] <= MaxTime
                              /\ (periodic[x] => usecs[x] \in Periods)
         /\ \A d \in Delays : d \in Nat /\ clock + d \in 0..MaxTime
         /\ phase = "client" => due = {}
         /\ phase = "callback" => current \in Active /\ time[current] + usecs[current] \in 0..MaxTime
<1>1. TimersTypeOK /\ Lists(active, free) /\ Walk(active) /\ Ahead(active) /\ Bounded(active)
  BY DEF Callers, TimersInv, PassInv
<1>2. Active = Nodes(active)
  BY DEF Active, active
<1>3. Active \subseteq Timers
  BY <1>1, <1>2, TheLists
<1>4. time \in [Timers -> Nat] /\ usecs \in [Timers -> Nat] /\ clock \in Nat /\ now \in Nat /\ clock <= MaxClock
      /\ MaxClock \in Nat
  BY <1>1, DelaysAssumption DEF TimersTypeOK
<1>5. Now \in Nat /\ Now <= clock
  BY <1>1, <1>4 DEF Now, Ahead
<1>6. MaxTime \in Nat /\ MaxClock <= MaxTime /\ \A d \in Delays : d \in Nat /\ MaxClock + 2 * d <= MaxTime
  <2>1. MaxClock + 2 * 0 <= MaxTime
    BY TimesAssumption
  <2> QED
    BY <1>4, <2>1, TimesAssumption, DelaysAssumption
<1>7. ASSUME NEW d \in Delays PROVE clock + d \in 0..MaxTime
  BY <1>4, <1>6
<1>8. ASSUME NEW x \in Active
      PROVE  /\ time[x] <= MaxTime /\ usecs[x] \in Delays /\ clock + usecs[x] <= MaxTime
             /\ (periodic[x] => usecs[x] \in Periods)
  <2>1. usecs[x] \in Delays /\ (periodic[x] => usecs[x] \in Periods) /\ time[x] <= MaxClock + 2 * usecs[x]
    BY <1>1, <1>2 DEF Bounded
  <2>2. time[x] \in Nat /\ MaxClock + 2 * usecs[x] <= MaxTime /\ usecs[x] \in Nat
    BY <1>3, <1>4, <1>6, <2>1
  <2>3. time[x] <= MaxTime
    BY <1>4, <1>6, <2>1, <2>2
  <2> QED
    BY <1>4, <1>6, <1>7, <2>1, <2>3
<1>9. phase = "callback" => current \in Active /\ time[current] + usecs[current] \in 0..MaxTime
  <2> SUFFICES ASSUME phase = "callback" PROVE current \in Active /\ time[current] + usecs[current] \in 0..MaxTime
    OBVIOUS
  <2>1. current \in Active /\ time[current] <= MaxClock + usecs[current]
    BY <1>1, <1>2 DEF Walk, Bounded
  <2>2. time[current] \in Nat /\ usecs[current] \in Nat /\ MaxClock + 2 * usecs[current] <= MaxTime
    BY <1>3, <1>4, <1>6, <1>8, <2>1
  <2> QED
    BY <1>4, <1>6, <2>1, <2>2
<1> QED
  BY <1>1, <1>3, <1>4, <1>5, <1>6, <1>7, <1>8, <1>9 DEF Ahead

\* The next deadlines, when one timer is set and when one is dropped.
LEMMA DeadlineSet ==
  ASSUME NEW x, NEW w, Active' = Active \cup {x}, time'[x] = w, \A y \in Active \ {x} : time'[y] = time[y]
  PROVE  Deadline' = Service!With(x, w)
<1>1. Deadline' = [y \in Active' |-> time'[y]]
  BY DEF Deadline
<1>2. Service!With(x, w) = [y \in Active \cup {x} |-> IF y = x THEN w ELSE time[y]]
  BY DEF Service!With, Service!Scheduled
<1> QED
  BY <1>1, <1>2

LEMMA DeadlineDropped ==
  ASSUME NEW x, Active' = Active \ {x}, \A y \in Active \ {x} : time'[y] = time[y]
  PROVE  Deadline' = Service!Without(x)
<1>1. Deadline' = [y \in Active' |-> time'[y]]
  BY DEF Deadline
<1>2. Service!Without(x) = [y \in Active \ {x} |-> time[y]]
  BY DEF Service!Without, Service!Scheduled
<1> QED
  BY <1>1, <1>2

LEMMA DeadlineKept ==
  ASSUME Active' = Active, \A y \in Active : time'[y] = time[y]
  PROVE  Deadline' = Deadline
BY DEF Deadline

LEMMA ServiceInit == TimersInit => Service!Init
<1> SUFFICES ASSUME TimersInit PROVE Service!Init
  OBVIOUS
<1>1. TimersInv
  BY TimersInvInit
<1>2. heap = {}
  BY DEF TimersInit
<1>3. Active = {}
  <2>1. Lists(active, free)
    BY <1>1 DEF TimersInv
  <2> QED
    BY <1>2, <2>1, TheLists DEF Active, active
<1> QED
  BY <1>3 DEF TimersInit, Service!Init

LEMMA ScheduleStep ==
  ASSUME Callers, NEW x \in Timers, NEW d \in Delays, NEW p \in BOOLEAN, timer_create(x, d, p)
  PROVE  Service!Schedule(x)
<1>1. Active' = Active \cup {x} /\ x \notin Active
  BY CreateStep DEF Callers
<1>2. Active \subseteq Timers /\ time \in [Timers -> Nat] /\ Now <= clock /\ Now \in Nat /\ clock \in Nat /\ d \in Nat /\ clock + d \in 0..MaxTime
  BY ServiceFacts
<1>3. /\ time' = [time EXCEPT ![x] = clock + d]
      /\ clock' = clock /\ phase' = phase /\ now' = now /\ current' = current /\ due' = due
  BY DEF timer_create, locals
<1>4. Deadline' = Service!With(x, clock + d)
  BY <1>1, <1>2, <1>3, DeadlineSet
<1>5. clock + d >= Now
  BY <1>2
<1>6. Now' = Now /\ Running' = Running
  BY <1>3 DEF Now, Running
<1> QED
  BY <1>1, <1>2, <1>3, <1>4, <1>5, <1>6 DEF Service!Schedule, Service!Scheduled, Deadline, Now, Running

LEMMA ServiceResetStep ==
  ASSUME Callers, NEW x \in Timers, timer_reset(x)
  PROVE  Service!Reset(x)
<1>1. Active' = Active /\ x \in Active
  BY ResetStep DEF Callers
<1>2. /\ Active \subseteq Timers /\ time \in [Timers -> Nat] /\ Now <= clock /\ Now \in Nat /\ clock \in Nat
      /\ usecs[x] \in Nat /\ clock + usecs[x] \in 0..MaxTime
  BY <1>1, ServiceFacts
<1>3. /\ time' = [time EXCEPT ![x] = clock + usecs[x]]
      /\ clock' = clock /\ phase' = phase /\ now' = now /\ current' = current /\ due' = due \ {x}
  BY DEF timer_reset, locals
<1>4. Deadline' = Service!With(x, clock + usecs[x])
  BY <1>1, <1>2, <1>3, DeadlineSet
<1>5. clock + usecs[x] >= Now
  BY <1>2
<1>6. Now' = Now /\ Running' = Running
  BY <1>3 DEF Now, Running
<1> QED
  BY <1>1, <1>2, <1>3, <1>4, <1>5, <1>6 DEF Service!Reset, Service!Scheduled, Deadline, Now, Running

LEMMA ServiceCancelStep ==
  ASSUME Callers, NEW x \in Timers, timer_cancel(x), phase = "client"
  PROVE  Service!Cancel(x)
<1>1. Active' = Active \ {x} /\ x \in Active
  BY CancelStep DEF Callers
<1>2. time' = time /\ clock' = clock /\ phase' = phase /\ now' = now /\ current' = current /\ due' = due \ {x}
  BY DEF timer_cancel, fields, locals
<1>3. Deadline' = Service!Without(x)
  BY <1>1, <1>2, DeadlineDropped
<1>4. Now' = Now /\ Running' = Running
  BY <1>2 DEF Now, Running
<1> QED
  BY <1>1, <1>2, <1>3, <1>4 DEF Service!Cancel, Service!Scheduled, Deadline, Now, Running

LEMMA ServiceClearStep ==
  ASSUME Callers, timer_cleanup \/ timer_destroy
  PROVE  Service!Clear \/ UNCHANGED <<Now, Deadline, due, Running>>
<1>1. \/ Active' = Active /\ \A y \in Active : time'[y] = time[y]
      \/ Active' = {}
  BY FreedStep DEF Callers
<1>2. clock' = clock /\ phase' = phase /\ now' = now /\ current' = current /\ due' = due /\ phase = "client"
  BY DEF timer_cleanup, timer_destroy, locals
<1>3. Now' = Now /\ Running' = Running /\ Running = NULL
  BY <1>2 DEF Now, Running
<1>4. CASE Active' = Active /\ \A y \in Active : time'[y] = time[y]
  BY <1>2, <1>3, <1>4, DeadlineKept
<1>5. CASE Active' = {}
  <2>1. due = {}
    BY <1>2, ServiceFacts
  <2>2. Deadline' = [x \in {} |-> 0]
    <3>1. Deadline' = [x \in Active' |-> time'[x]]
      BY DEF Deadline
    <3> QED
      BY <1>5, <3>1
  <2> QED
    BY <1>2, <1>3, <2>1, <2>2 DEF Service!Clear, Deadline, Now, Running
<1> QED
  BY <1>1, <1>4, <1>5

LEMMA ServiceBeginStep ==
  ASSUME Callers, RunBegin
  PROVE  Service!Begin
<1>1. Active' = Active
  BY RunBeginStep DEF Callers
<1>2. /\ time' = time /\ clock' = clock /\ phase = "client" /\ phase' = "walk" /\ now' = clock
      /\ due' = {x \in Active : time[x] <= clock}
  BY DEF RunBegin, fields
<1>3. due = {}
  BY <1>2, ServiceFacts
<1>4. Deadline' = Deadline
  BY <1>1, <1>2, DeadlineKept
<1>5. Now' = Now /\ Now = clock /\ Running' = Running /\ Running = NULL
  BY <1>2 DEF Now, Running
<1>6. due' = {x \in Service!Scheduled : Deadline[x] <= Now}
  BY <1>2, <1>5 DEF Service!Scheduled, Deadline
<1> QED
  BY <1>3, <1>4, <1>5, <1>6 DEF Service!Begin, Service!Scheduled, Deadline, Now, Running

LEMMA ServiceCallBackStep ==
  ASSUME Callers, RunCall
  PROVE  current \in Timers /\ Service!CallBack(current)
<1>1. Active' = Active /\ current \in Active
  BY RunCallStep DEF Callers
<1>2. /\ time' = time /\ clock' = clock /\ phase = "walk" /\ phase' = "callback" /\ now' = now /\ current' = current
      /\ current # NULL /\ ~(time[current] > now) /\ due' = due \ {current}
  BY DEF RunCall, fields, NotReady
<1>3. Lists(active, free) /\ Ahead(active) /\ TimersTypeOK
  BY DEF Callers, TimersInv, PassInv
<1>4. Active \subseteq Timers /\ time \in [Timers -> Nat] /\ now \in Nat /\ Active = Nodes(active)
  BY <1>3, ServiceFacts DEF TimersTypeOK, Active, active
<1>5. \A s \in due : s \in Active /\ time[current] <= time[s]
  <2> SUFFICES ASSUME NEW s \in due PROVE s \in Active /\ time[current] <= time[s]
    OBVIOUS
  <2>1. Follows(active, current, s)
    BY <1>2, <1>3 DEF Ahead
  <2>2. InOrder(active, time) /\ active \in Seq(Timers)
    BY <1>3, TheLists DEF Lists
  <2> QED
    BY <1>4, <2>1, <2>2, FollowsOnList, FollowsIsLater
<1>6. time[current] <= now
  BY <1>1, <1>2, <1>4
<1>7. Deadline' = Deadline
  BY <1>1, <1>2, DeadlineKept
<1>8. Now' = Now /\ Now = now /\ Running' = current /\ Running = NULL
  BY <1>2 DEF Now, Running
<1>9. Deadline[current] = time[current] /\ \A s \in due : Deadline[s] = time[s]
  BY <1>1, <1>5 DEF Deadline
<1>10. Deadline[current] <= Now /\ \A s \in due : Deadline[current] <= Deadline[s]
  BY <1>5, <1>6, <1>8, <1>9
<1> QED
  BY <1>1, <1>2, <1>4, <1>7, <1>8, <1>10 DEF Service!CallBack, Service!Scheduled, Deadline, Now, Running

\* The service's time goes on when the clock ticks outside a pass, and when a pass ends.
LEMMA ServicePassStep ==
  ASSUME Callers, Tick \/ RunEnd
  PROVE  Service!Pass \/ UNCHANGED <<Now, Deadline, due, Running>>
<1>1. Active' = Active /\ time' = time /\ due' = due
  BY TickStep, RunEndStep DEF Callers, Tick, RunEnd, fields
<1>2. Deadline' = Deadline
  BY <1>1, DeadlineKept
<1>3. Running' = Running /\ Now' \in 0..MaxTime /\ Now' >= Now /\ Now \in Nat
  <2>1. Now \in Nat /\ clock \in Nat /\ Now <= clock /\ clock <= MaxClock /\ MaxTime \in Nat /\ MaxClock <= MaxTime /\ MaxClock \in Nat
    BY ServiceFacts, DelaysAssumption
  <2>2. CASE Tick
    <3>1. phase' = phase /\ current' = current /\ now' = now /\ clock' = clock + 1 /\ clock < MaxClock
      BY <2>2 DEF Tick, locals
    <3>2. Running' = Running /\ Now' = IF phase = "client" THEN clock + 1 ELSE Now
      BY <3>1 DEF Now, Running
    <3> QED
      BY <2>1, <3>1, <3>2
  <2>3. CASE RunEnd
    <3>1. phase = "walk" /\ phase' = "client" /\ clock' = clock
      BY <2>3 DEF RunEnd
    <3>2. Running' = Running /\ Now' = clock
      BY <3>1 DEF Now, Running
    <3> QED
      BY <2>1, <3>2
  <2> QED
    BY <2>2, <2>3
<1>4. CASE Now' = Now
  BY <1>1, <1>2, <1>3, <1>4
<1>5. CASE Now' # Now
  <2>1. Now' > Now
    BY <1>3, <1>5
  <2> QED
    BY <1>1, <1>2, <1>3, <2>1 DEF Service!Pass, Deadline, Now, Running
<1> QED
  BY <1>4, <1>5

LEMMA ServiceReturnStep ==
  ASSUME Callers, PeriodsPass, RunReturn
  PROVE  Service!Return
<1>1. Active' = (IF periodic[current] THEN Active ELSE Active \ {current}) /\ current \in Active
  BY RunReturnStep DEF Callers
<1>2. phase = "callback" /\ phase' = "walk" /\ clock' = clock /\ now' = now /\ due' = due
  BY DEF RunReturn
<1>3. Active \subseteq Timers /\ time \in [Timers -> Nat] /\ usecs[current] \in Nat /\ time[current] \in Nat
      /\ (periodic[current] => usecs[current] \in Periods) /\ time[current] + usecs[current] \in 0..MaxTime
  BY <1>1, <1>2, ServiceFacts
<1>4. current # NULL /\ Now' = Now /\ Running = current /\ Running' = NULL
  BY <1>1, <1>2, <1>3, NullIsNoTimer DEF Now, Running
<1>5. CASE ~periodic[current]
  <2>1. time' = time
    BY <1>5 DEF RunReturn
  <2>2. Deadline' = Service!Without(current)
    BY <1>1, <1>5, <2>1, DeadlineDropped
  <2> QED
    BY <1>2, <1>4, <2>2 DEF Service!Return, Deadline, Now, Running
<1>6. CASE periodic[current]
  <2>1. time' = [time EXCEPT ![current] = time[current] + usecs[current]]
    BY <1>6 DEF RunReturn, Rescheduled
  <2>2. time'[current] = time[current] + usecs[current] /\ \A y \in Active \ {current} : time'[y] = time[y]
    BY <1>1, <1>3, <2>1
  <2>3. Active' = Active \cup {current}
    BY <1>1, <1>6
  <2>4. Deadline' = Service!With(current, time[current] + usecs[current])
    BY <2>2, <2>3, DeadlineSet
  <2>5. time[current] + usecs[current] > Deadline[current]
    <3>1. usecs[current] # 0
      BY <1>3, <1>6 DEF PeriodsPass
    <3>2. Deadline[current] = time[current]
      BY <1>1 DEF Deadline
    <3> QED
      BY <1>3, <3>1, <3>2
  <2> QED
    BY <1>2, <1>3, <1>4, <2>4, <2>5 DEF Service!Return, Deadline, Now, Running
<1> QED
  BY <1>5, <1>6

LEMMA ServiceStep ==
  OwnTimer /\ PeriodsPass /\ Callers /\ [TimersNext]_timers_vars => [Service!Next]_(Service!vars)
<1> SUFFICES ASSUME OwnTimer, PeriodsPass, Callers, [TimersNext]_timers_vars
             PROVE  Service!Next \/ UNCHANGED <<Now, Deadline, due, Running>>
  BY DEF Service!vars, Now, Deadline, Running
<1>1. CASE UNCHANGED timers_vars
  BY <1>1 DEF timers_vars, list, fields, locals, Now, Deadline, Running, Active
<1>2. ASSUME NEW x \in Timers, NEW d \in Delays, NEW p \in BOOLEAN, timer_create(x, d, p) PROVE Service!Next
  BY <1>2, ScheduleStep DEF Service!Next
<1>3. ASSUME NEW x \in Timers, timer_reset(x) PROVE Service!Next
  BY <1>3, ServiceResetStep DEF Service!Next
<1>4. ASSUME NEW x \in Timers, timer_cancel(x) PROVE Service!Next
  <2>1. phase = "client"
    BY <1>4 DEF timer_cancel, Allowed, OwnTimer
  <2> QED
    BY <1>4, <2>1, ServiceCancelStep DEF Service!Next
<1>5. CASE timer_cleanup \/ timer_destroy
  BY <1>5, ServiceClearStep DEF Service!Next
<1>6. CASE RunBegin
  BY <1>6, ServiceBeginStep DEF Service!Next
<1>7. CASE RunCall
  BY <1>7, ServiceCallBackStep DEF Service!Next
<1>8. CASE RunReturn
  BY <1>8, ServiceReturnStep DEF Service!Next
<1>9. CASE Tick \/ RunEnd
  BY <1>9, ServicePassStep DEF Service!Next
<1> QED
  BY <1>1, <1>2, <1>3, <1>4, <1>5, <1>6, <1>7, <1>8, <1>9 DEF TimersNext

\* A pass of timer_run calls back every timer that was due, earliest first, none early and none
\* that was cancelled, and a periodic timer waits for its next period: the package implements
\* the timer service, for any number of timers, delays and periods above 0.
THEOREM ServiceImplemented == OwnTimer /\ PeriodsPass => (TimersSpec => ImplementsService)
<1> SUFFICES ASSUME OwnTimer, PeriodsPass PROVE TimersSpec => ImplementsService
  OBVIOUS
<1>1. TimersInit => Service!Init
  BY ServiceInit
<1>2. Callers /\ [TimersNext]_timers_vars => [Service!Next]_(Service!vars)
  BY ServiceStep
<1>3. TimersSpec => []Callers
  BY PassInvHolds DEF Callers
<1> QED
  BY <1>1, <1>2, <1>3, PTL DEF TimersSpec, ImplementsService, Service!Spec
=============================================================================
