----------------------------- MODULE RtpSource ------------------------------
(***************************************************************************)
(* The source of RTP frames of live555: MultiFramedRTPSource.cpp with its   *)
(* ReorderingPacketBuffer, for the payload format of H264VideoRTPSource.cpp *)
(* (FramedSource.cpp below it, and the sequence numbers of RTPReceptionStats *)
(* in RTPSource.cpp).  One sender sends the packets of a layout over UDP,   *)
(* which loses, repeats and overtakes them, or over TCP, which delivers     *)
(* them in order and possibly in pieces.  The client asks for a frame, is   *)
(* called back with it, and may stop and start again, also from the handler *)
(* of an RTCP report that came on the same socket.  A packet is the place it *)
(* has in the layout; sequence numbers are taken modulo SeqNums.  One SSRC; *)
(* frames fit the client's buffer.                                          *)
(***************************************************************************)
EXTENDS Integers, Sequences, SequencesExt, FiniteSetsExt

CONSTANTS
  SeqNums,     \* sequence numbers are 0..SeqNums - 1 (0x10000 in the code)
  BaseSeqNum,  \* the one of the first packet
  Layouts,     \* the streams the sender may send
  MaxStops,    \* how often the client stops
  MaxCopies,   \* how many packets the network repeats
  NULL

\* A packet with one NAL unit, with two (STAP-A), the fragments of one (FU-A), and
\* one that is too short for its header.
Kinds == {"single", "pair", "start", "middle", "end", "bad"}
Half == SeqNums \div 2

\* The fragments of a NAL unit follow each other, or packets too short.
Fragment == {"start", "middle"}
InFragments(l) ==
  \A p \in 1..Len(l) : l[p] # "bad" =>
     (l[p] \in {"middle", "end"} <=>
        \E q \in 1..p - 1 : l[q] \in Fragment /\ \A r \in q + 1..p - 1 : l[r] = "bad")

\* A packet is late by less than half of the numbers (0x8000 in the code; see Send).
ASSUME SeqNumsAssumption == Half \in Nat /\ Half > 3 /\ SeqNums = 2 * Half /\ BaseSeqNum \in 0..SeqNums - 1
ASSUME LayoutsAssumption == Layouts \subseteq Seq(Kinds)
ASSUME BoundsAssumption == MaxStops \in Nat /\ MaxCopies \in Nat
ASSUME NullAssumption == NULL \notin Int

VARIABLES
  layout, tcp,   \* what is sent, and over what
  sent,          \* how many packets have been sent
  flight,        \* packets the network has
  copied,        \* those it has repeated
  list,          \* the reordering buffer, from fHeadPacket to fTailPacket
  young,         \* those of them not older than fThresholdTime, as they came
  expected,      \* fNextExpectedSeqNo, NULL before the first packet
  heap,          \* the packet buffers that exist
  saved,         \* fSavedPacket
  savedFree,     \* fSavedPacketFree
  inProgress,    \* fPacketReadInProgress
  hand,          \* the buffer of a report that is being handled
  needDelivery,  \* fNeedDelivery
  flags,         \* fCurrentPacketBeginsFrame, ...CompletesFrame, fPacketLossInFragmentedFrame
  got,           \* what has been put at fTo since it was at fSavedTo
  awaiting,      \* fIsCurrentlyAwaitingData
  nextTask,      \* afterGetting is scheduled
  reading,       \* fAreDoingNetworkReads
  pc,            \* "idle", "inject" (a report), "deliver" (doGetNextFrame1), "client"
  base, highest, \* fBaseExtSeqNumReceived, fHighestExtSeqNumReceived
  first, last,   \* the packets of these numbers (history)
  delivered,     \* the frames handed to the client since it started (history)
  odd,           \* a loss was overlooked (history)
  stops          \* how often the client has stopped

network == <<layout, tcp, sent, flight, copied>>
buffers == <<heap, saved, savedFree, inProgress, hand>>
stats == <<base, highest, first, last>>
vars == <<network, list, young, expected, buffers, needDelivery, flags, got, awaiting,
          nextTask, reading, pc, stats, delivered, odd, stops>>

Packets == 1..Len(layout)
SeqNum(p) == (BaseSeqNum + p - 1) % SeqNums

\* seqNumLT
SeqNumLT(s1, s2) ==
  LET diff == s2 - s1 IN diff \in 1..Half - 1 \/ diff < -Half

Init ==
  /\ layout \in Layouts /\ tcp \in BOOLEAN
  /\ sent = 0 /\ flight = {} /\ copied = {}
  /\ list = <<>> /\ young = <<>> /\ expected = NULL
  /\ heap = {} /\ saved = NULL /\ savedFree = TRUE /\ inProgress = NULL /\ hand = NULL
  /\ needDelivery = FALSE /\ flags = [begins |-> TRUE, completes |-> TRUE, loss |-> FALSE]
  /\ got = <<>> /\ awaiting = FALSE /\ nextTask = FALSE /\ reading = FALSE
  /\ pc = "idle"
  /\ base = 0 /\ highest = 0 /\ first = NULL /\ last = NULL
  /\ delivered = <<>> /\ odd = FALSE /\ stops = 0

-----------------------------------------------------------------------------
(* The sender and the network.                                              *)

\* Numbers are not used again before half of them have passed: neither while a
\* packet is on its way, waits or is waited for, nor since the last that was received.
InReach(s) ==
  /\ \A p \in flight : (s - SeqNum(p)) % SeqNums < Half
  /\ expected # NULL => (s - expected) % SeqNums < Half
  /\ last # NULL => (s - highest) % SeqNums < Half

\* The network delivers nothing that is more than two packets late.
Send ==
  /\ sent < Len(layout) /\ InReach(SeqNum(sent + 1))
  /\ sent' = sent + 1
  /\ flight' = IF tcp THEN flight \cup {sent + 1}
               ELSE {p \in flight : p >= sent - 1} \cup {sent + 1}
  /\ UNCHANGED <<layout, tcp, copied, list, young, expected, buffers, needDelivery, flags, got,
                 awaiting, nextTask, reading, pc, stats, delivered, odd, stops>>

\* Packet p is received; UDP may have it once more.
Take(p) ==
  /\ p \in flight
  /\ tcp => p = Min(flight)
  /\ \/ flight' = flight \ {p} /\ copied' = copied
     \/ ~tcp /\ p \notin copied /\ Cardinality(copied) < MaxCopies /\ flight' = flight /\ copied' = copied \cup {p}
  /\ UNCHANGED <<layout, tcp, sent>>

\* More than fThresholdTime passes for those that came first.
Age ==
  /\ \E n \in 1..Len(young) : young' = SubSeq(young, n + 1, Len(young))
  /\ UNCHANGED <<network, list, expected, buffers, needDelivery, flags, got, awaiting, nextTask,
                 reading, pc, stats, delivered, odd, stops>>

-----------------------------------------------------------------------------
(* Packet buffers: every operator gives [heap, saved, free].                *)

Memory == [heap |-> heap, saved |-> saved, free |-> savedFree]
Has(m) == heap' = m.heap /\ saved' = m.saved /\ savedFree' = m.free

\* getFreePacket, and the buffer it returns.
NewBuffer == CHOOSE b \in 1..Cardinality(heap) + 1 : b \notin heap
GetFreePacket ==
  IF saved = NULL
  THEN [m |-> [heap |-> heap \cup {NewBuffer}, saved |-> NewBuffer, free |-> FALSE], b |-> NewBuffer]
  ELSE IF savedFree THEN [m |-> [Memory EXCEPT !.free = FALSE], b |-> saved]
  ELSE [m |-> [Memory EXCEPT !.heap = @ \cup {NewBuffer}], b |-> NewBuffer]

FreePacket(m, b) ==
  IF b # m.saved THEN [m EXCEPT !.heap = @ \ {b}] ELSE [m EXCEPT !.free = TRUE]

Listed == {list[i].buf : i \in 1..Len(list)}

\* Mutant: the saved buffer is deleted wherever it is.
SavedDeleted(m) == {m.saved}
\* What reset deletes besides the list.
Unlisted(m) == IF m.free THEN {m.saved} ELSE {}

\* ReorderingPacketBuffer::reset
Emptied(m) == [m EXCEPT !.heap = @ \ (Listed \cup Unlisted(m)), !.saved = NULL]

-----------------------------------------------------------------------------
(* Packets that come in.                                                    *)

\* storePacket: the place of a packet with number s, 0 if it is not wanted.  The
\* tail is looked at first, then the packets from the head on are passed.
Number(i) == SeqNum(list[i].pos)
Passed(s) == {i \in 1..Len(list) : \A j \in 1..i : ~SeqNumLT(s, Number(j))}
Place(s, e) ==
  IF SeqNumLT(s, e) \/ \E i \in 1..Len(list) : Number(i) = s THEN 0
  ELSE IF list = <<>> \/ SeqNumLT(Number(Len(list)), s) THEN Len(list) + 1
  ELSE Cardinality(Passed(s)) + 1

\* The cycle that an old packet or a new one belongs to, by the highest so far.
\* Mutant: a new cycle is never started.
SameCycle(s) == (highest - (highest % SeqNums)) + s
Extended(s) ==
  LET old   == highest % SeqNums
      cycle == highest - old
  IN  IF SeqNumLT(old, s)
      THEN (IF s < old THEN cycle + SeqNums ELSE cycle) + s
      ELSE (IF s - old >= Half THEN cycle - SeqNums ELSE cycle) + s

\* noteIncomingPacket
NoteIncomingPacket(p) ==
  LET s == SeqNum(p) IN
  IF last = NULL
  THEN base' = SeqNums + s /\ highest' = SeqNums + s /\ first' = p /\ last' = p
  ELSE /\ highest' = IF SeqNumLT(highest % SeqNums, s) /\ Extended(s) > highest THEN Extended(s)
                     ELSE highest
       /\ base' = IF ~SeqNumLT(highest % SeqNums, s) /\ Extended(s) < base THEN Extended(s) ELSE base
       /\ first' = Min({first, p}) /\ last' = Max({last, p})

\* networkReadHandler1 with an RTP packet in the buffer b, m being the memory.
Store(p, b, m) ==
  LET e   == IF expected = NULL THEN SeqNum(p) ELSE expected
      i   == Place(SeqNum(p), e)
      new == [pos |-> p, buf |-> b, used |-> 0, first |-> expected = NULL]
  IN  /\ NoteIncomingPacket(p)
      /\ expected' = e
      /\ IF i = 0
         THEN Has(FreePacket(m, b)) /\ UNCHANGED <<list, young>>
         ELSE Has(m) /\ list' = InsertAt(list, i, new) /\ young' = Append(young, p)

\* The buffer that a read is made into: that of a read that was incomplete, or a
\* free one.
ReadBuffer == IF inProgress # NULL THEN [m |-> Memory, b |-> inProgress] ELSE GetFreePacket

Read(p) ==
  /\ pc = "idle" /\ reading
  /\ Take(p)
  /\ Store(p, ReadBuffer.b, ReadBuffer.m)
  /\ inProgress' = NULL
  /\ pc' = "deliver"
  /\ UNCHANGED <<hand, needDelivery, flags, got, awaiting, nextTask, reading, delivered, odd, stops>>

\* TCP: a part of a packet.
ReadPart ==
  /\ pc = "idle" /\ reading /\ tcp /\ flight # {} /\ inProgress = NULL
  /\ Has(GetFreePacket.m) /\ inProgress' = GetFreePacket.b
  /\ UNCHANGED <<network, list, young, expected, hand, needDelivery, flags, got, awaiting,
                 nextTask, reading, pc, stats, delivered, odd, stops>>

\* Something else: a packet that fails a check of its header, or an RTCP packet,
\* whose handler the client may stop from.
ReadOther ==
  /\ pc = "idle" /\ reading
  /\ Has(ReadBuffer.m) /\ hand' = ReadBuffer.b /\ inProgress' = NULL
  /\ pc' = "inject"
  /\ UNCHANGED <<network, list, young, expected, needDelivery, flags, got, awaiting, nextTask,
                 reading, stats, delivered, odd, stops>>

OtherFreed ==
  /\ pc = "inject"
  /\ Has(FreePacket(Memory, hand)) /\ hand' = NULL
  /\ pc' = "deliver"
  /\ UNCHANGED <<network, list, young, expected, inProgress, needDelivery, flags, got, awaiting,
                 nextTask, reading, stats, delivered, odd, stops>>

-----------------------------------------------------------------------------
(* doGetNextFrame1.                                                         *)

HeadNumber == Number(1)

\* Mutant: the wait is not given up.
OnlyExpected == list # <<>> /\ HeadNumber = expected
\* getNextCompletedPacket: is there one, and did a loss precede it?
Completed == list # <<>> /\ (HeadNumber = expected \/ ~Contains(young, list[1].pos))
LossPrecedes == HeadNumber = expected => list[1].first

\* H264VideoRTPSource::processSpecialHeader, when the header is right.
SpecialHeader(kind) ==
  CASE kind = "single" -> [flags EXCEPT !.begins = TRUE, !.completes = TRUE]
    [] kind = "start"  -> [flags EXCEPT !.begins = TRUE, !.completes = FALSE]
    [] kind = "middle" -> [flags EXCEPT !.begins = FALSE, !.completes = FALSE]
    [] kind = "end"    -> [flags EXCEPT !.begins = FALSE, !.completes = TRUE]
    [] kind = "pair"   -> flags

\* Mutant: the rest of a frame with a loss is used.
LossForgotten(f) == FALSE
\* Is the packet part of a frame that a part was lost of?
InLossyFrame(f) == IF f.begins THEN FALSE ELSE LossPrecedes \/ f.loss

Kind == layout[list[1].pos]
NALUnits == IF Kind = "pair" THEN 2 ELSE 1

\* releaseUsedPacket of the head, whose number is the expected one by now.
StillYoung(p) == IF Contains(young, p) THEN RemoveAt(young, CHOOSE i \in 1..Len(young) : young[i] = p)
                ELSE young
ReleaseUsedPacket ==
  /\ expected' = (HeadNumber + 1) % SeqNums
  /\ list' = Tail(list)
  /\ young' = StillYoung(list[1].pos)
  /\ Has(FreePacket(Memory, list[1].buf))

\* A header that is not right: on to the next packet.
Reject ==
  /\ pc = "deliver" /\ needDelivery /\ Completed /\ Kind = "bad"
  /\ ReleaseUsedPacket
  /\ odd' = (odd \/ LossPrecedes)
  /\ UNCHANGED <<network, inProgress, hand, needDelivery, flags, got, awaiting, nextTask, reading,
                 pc, stats, delivered, stops>>

\* The head is looked at, and dropped or used.
Flags == LET f == IF list[1].used = 0 THEN SpecialHeader(Kind) ELSE flags
         IN  [f EXCEPT !.loss = InLossyFrame(f)]
Kept == IF Flags.begins /\ (LossPrecedes \/ flags.loss) THEN <<>> ELSE got

\* A packet that opens an aggregate keeps what the one before it said.
Stale == Kind = "pair" /\ list[1].used = 0 /\ ~flags.completes

Drop ==
  /\ pc = "deliver" /\ needDelivery /\ Completed /\ Kind # "bad" /\ Flags.loss
  /\ flags' = Flags /\ got' = Kept
  /\ ReleaseUsedPacket
  /\ odd' = (odd \/ Stale)
  /\ UNCHANGED <<network, inProgress, hand, needDelivery, awaiting, nextTask, reading, pc, stats,
                 delivered, stops>>

\* The frame goes to the client, at once or through the event loop.
Use ==
  /\ pc = "deliver" /\ needDelivery /\ Completed /\ Kind # "bad" /\ ~Flags.loss
  /\ flags' = Flags
  /\ got' = Append(Kept, <<list[1].pos, list[1].used + 1>>)
  /\ IF list[1].used + 1 = NALUnits
     THEN ReleaseUsedPacket
     ELSE /\ list' = [list EXCEPT ![1].used = @ + 1]
          /\ expected' = HeadNumber
          /\ UNCHANGED <<young, heap, saved, savedFree>>
  /\ needDelivery' = ~Flags.completes
  /\ IF ~Flags.completes THEN UNCHANGED <<awaiting, nextTask, pc, delivered>>
     ELSE IF list' = <<>>
     THEN /\ awaiting' = FALSE /\ delivered' = Append(delivered, got')
          /\ pc' = "client" /\ nextTask' = nextTask
     ELSE nextTask' = TRUE /\ pc' = "idle" /\ UNCHANGED <<awaiting, delivered>>
  /\ odd' = (odd \/ Stale)
  /\ UNCHANGED <<network, inProgress, hand, reading, stats, stops>>

\* The loop ends.
Wait ==
  /\ pc = "deliver" /\ ~(needDelivery /\ Completed)
  /\ pc' = "idle"
  /\ UNCHANGED <<network, list, young, expected, buffers, needDelivery, flags, got, awaiting,
                 nextTask, reading, stats, delivered, odd, stops>>

\* The task calls afterGetting.
AfterGetting ==
  /\ pc = "idle" /\ nextTask
  /\ nextTask' = FALSE /\ awaiting' = FALSE /\ delivered' = Append(delivered, got)
  /\ pc' = "client"
  /\ UNCHANGED <<network, list, young, expected, buffers, needDelivery, flags, got, reading, stats,
                 odd, stops>>

-----------------------------------------------------------------------------
(* The client.                                                              *)

\* getNextFrame, doGetNextFrame.
GetNextFrame ==
  /\ pc \in {"idle", "client"} /\ ~awaiting
  /\ awaiting' = TRUE /\ reading' = TRUE /\ got' = <<>> /\ needDelivery' = TRUE
  /\ pc' = "deliver"
  /\ UNCHANGED <<network, list, young, expected, buffers, flags, nextTask, stats, delivered, odd,
                 stops>>

\* It returns without asking for more; doGetNextFrame1 looks once more.
ClientReturns ==
  /\ pc = "client"
  /\ pc' = "deliver"
  /\ UNCHANGED <<network, list, young, expected, buffers, needDelivery, flags, got, awaiting,
                 nextTask, reading, stats, delivered, odd, stops>>

\* stopGettingFrames, doStopGettingFrames.
StopGettingFrames ==
  /\ pc \in {"idle", "client", "inject"} /\ reading /\ stops < MaxStops
  /\ stops' = stops + 1
  /\ awaiting' = FALSE /\ nextTask' = FALSE /\ reading' = FALSE /\ inProgress' = NULL
  /\ needDelivery' = FALSE
  /\ flags' = [begins |-> TRUE, completes |-> TRUE, loss |-> FALSE]
  /\ Has(Emptied(IF inProgress = NULL THEN Memory ELSE FreePacket(Memory, inProgress)))
  /\ list' = <<>> /\ young' = <<>> /\ expected' = NULL
  /\ delivered' = <<>> /\ odd' = FALSE
  /\ UNCHANGED <<network, hand, got, pc, stats>>

Code == OtherFreed \/ Reject \/ Drop \/ Use \/ Wait \/ AfterGetting

Next ==
  \/ Send \/ Age
  \/ (\E p \in Packets : Read(p)) \/ ReadPart \/ ReadOther
  \/ Code
  \/ GetNextFrame \/ ClientReturns \/ StopGettingFrames

Spec == Init /\ [][Next]_vars

\* A handler that has begun goes on, time passes, and the event loop comes to the
\* task and to whatever makes the client ask for its next frame, between the reads.
FairSpec ==
  Spec /\ WF_vars(Code) /\ WF_vars(Age) /\ WF_vars(ClientReturns)
       /\ SF_vars(AfterGetting) /\ SF_vars(GetNextFrame)

-----------------------------------------------------------------------------
\* What the variables hold; a number is one of a packet that was sent.
TypeOK ==
  /\ layout \in Layouts /\ tcp \in BOOLEAN /\ sent \in 0..Len(layout)
  /\ flight \subseteq 1..sent /\ copied \subseteq 1..sent
  /\ list \in Seq([pos : 1..sent, buf : heap, used : 0..1, first : BOOLEAN])
  /\ young \in Seq({list[i].pos : i \in 1..Len(list)})
  /\ expected \in 0..SeqNums - 1 \cup {NULL}
  /\ {needDelivery, awaiting, nextTask, reading, odd, savedFree} \subseteq BOOLEAN
  /\ needDelivery \/ nextTask => awaiting
  /\ pc \in {"idle", "inject", "deliver", "client"}

(* MultiFramedRTPSource.cpp:581-592 and 502-507: whatever is read, dropped,     *)
(* rejected, stopped or used, every packet buffer is in one place: in the      *)
(* list, being filled, in the hands of a report's handler, or kept for the     *)
(* next packet.  None is lost, and none is deleted that is still used.         *)
Whereabouts == <<Listed, {inProgress} \ {NULL}, {hand} \ {NULL}, IF savedFree THEN {saved} \ {NULL} ELSE {}>>
BuffersSound ==
  /\ TypeOK
  /\ IsInjective([i \in 1..Len(list) |-> list[i].buf])
  /\ \A p, q \in 1..4 : p # q => Whereabouts[p] \cap Whereabouts[q] = {}
  /\ heap = UNION {Whereabouts[p] : p \in 1..4}
  /\ saved # NULL => saved \in heap

(* Lines 152-206: a frame that reaches the client is whole, and later in the   *)
(* stream than the one before it, whatever the network loses, repeats and      *)
(* overtakes, except that a loss goes unnoticed when the packet after it is    *)
(* rejected for its header, and that an aggregate after an unfinished frame is *)
(* not seen to begin one.                                                   *)
Whole(f) ==
  LET kind(i) == layout[f[i][1]]
  IN  \/ Len(f) = 1 /\ kind(1) \in {"single", "pair"}
      \/ /\ Len(f) > 1 /\ kind(1) = "start" /\ kind(Len(f)) = "end"
         /\ \A i \in 2..Len(f) - 1 : kind(i) = "middle"
         /\ \A p \in f[1][1]..f[Len(f)][1] :
              layout[p] = "bad" \/ \E i \in 1..Len(f) : f[i][1] = p
Before(a, b) == a[1] < b[1] \/ (a[1] = b[1] /\ a[2] < b[2])
FramesWhole ==
  ~odd => \A i \in 1..Len(delivered) :
            /\ Whole(delivered[i])
            /\ i > 1 => Before(Last(delivered[i - 1]), Head(delivered[i]))

(* RTPSource.cpp:248-276: the extended numbers of a receiver report follow the *)
(* first and the last packet of the stream that was received, across a wrap    *)
(* of the numbers and whatever the order.                                    *)
ExtendedRight ==
  last # NULL => /\ highest % SeqNums = SeqNum(last) /\ base % SeqNums = SeqNum(first)
                 /\ highest - base = last - first

(* Lines 608-630: the wait for a packet that is lost ends.  There is no timer,  *)
(* so it ends only because something is received later on: as long as packets *)
(* of any kind keep coming, none stays in the list (the sender's are finitely *)
(* many here).                                                              *)
KeepsGoing == []<><<ReadOther>>_vars => <>[](list = <<>>)
=============================================================================
