----------------------------- MODULE Interleave -----------------------------
(***************************************************************************)
(* The RTSP client's reader of interleaved frames (mt_rtsp::rtsp_loop of    *)
(* src/projects/RTSPClient2/MTRtsp.cpp, from line 607): RTP and RTCP        *)
(* packets come over the one TCP connection, each behind a header of four   *)
(* bytes (0x24, channel, length high, length low).  recv hands over any     *)
(* number of bytes at a time, so a frame may be split anywhere; the buffer  *)
(* raw keeps what is pending and is compacted only when it is full.         *)
(* A byte is a number below Radix (256 in the code), and an RTP packet is   *)
(* its payload after the twelve bytes of its own header.  What mt_rtp and   *)
(* mt_rtcp do with a packet, and the reports sent back, are left out.       *)
(***************************************************************************)
EXTENDS Integers, Sequences, SequencesExt

CONSTANTS
  Radix,          \* values of a byte
  MAGIC,          \* 0x24
  OTHER_NAL,      \* a first payload byte whose NAL type rtp_parse has no case for
  max_buf_size,   \* 1000000
  Frames,         \* what the server sends: a channel and a payload
  MaxFrames       \* bound on the frames of one session

Byte == 0..Radix - 1
Frame == [channel : Byte, payload : Seq(Byte)]

ASSUME RadixAssumption == Radix \in Nat /\ {0, MAGIC, OTHER_NAL} \subseteq Byte
ASSUME FramesAssumption ==
  /\ MaxFrames \in Nat
  /\ Frames \subseteq Frame
  /\ \A f \in Frames : Len(f.payload) < Radix * Radix
\* A frame is at most 65539 bytes long and the buffer takes 1000000.
ASSUME BufferAssumption ==
  max_buf_size \in Nat \ {0} /\ \A f \in Frames : Len(f.payload) + 4 <= max_buf_size

VARIABLES
  pc,          \* "recv", "parse", or "exited"
  stream,      \* bytes sent and not yet received
  raw,         \* the bytes received, raw_length of them; zeros follow
  raw_offset,  \* the next byte to parse
  sent,        \* frames sent (history)
  queue,       \* frames sent and not yet handed on (history)
  wrong,       \* something else than the next frame was handed on (history)
  upset        \* one of the branches that lose the synchronisation was taken (history)

vars == <<pc, stream, raw, raw_offset, sent, queue, wrong, upset>>
history == <<sent, queue, wrong, upset>>

raw_length == Len(raw)

\* No recv writes, and no move reads, beyond the buffer.
TypeOK ==
  /\ pc \in {"recv", "parse", "exited"}
  /\ stream \in Seq(Byte)
  /\ raw \in Seq(Byte) /\ raw_length <= max_buf_size
  /\ raw_offset \in Nat
  /\ pc = "recv" => raw_offset < max_buf_size
  /\ sent \in 0..MaxFrames
  /\ queue \in Seq(Frames)
  /\ wrong \in BOOLEAN /\ upset \in BOOLEAN

Init ==
  /\ pc = "recv"
  /\ stream = <<>> /\ raw = <<>> /\ raw_offset = 0
  /\ sent = 0 /\ queue = <<>> /\ wrong = FALSE /\ upset = FALSE

-----------------------------------------------------------------------------
\* The server.
Wire(f) ==
  <<MAGIC, f.channel, Len(f.payload) \div Radix, Len(f.payload) % Radix>> \o f.payload

Send(f) ==
  /\ sent < MaxFrames
  /\ sent' = sent + 1
  /\ stream' = stream \o Wire(f)
  /\ queue' = Append(queue, f)
  /\ UNCHANGED <<pc, raw, raw_offset, wrong, upset>>

-----------------------------------------------------------------------------
(* read_pending: make room, receive.                                        *)

Full == raw_length >= max_buf_size
Moved == Full /\ raw_offset < raw_length - 1
Dropped == Full /\ ~Moved

\* The rest is moved to the front; a rest of one byte is dropped, and then
\* raw_offset stays where it was.
Rest == SubSeq(raw, raw_offset + 1, raw_length)
Kept == IF Moved THEN Rest ELSE IF Dropped THEN <<>> ELSE raw
SameOffset == raw_offset
KeptOffset == IF Moved THEN 0 ELSE raw_offset

Room == max_buf_size - Len(Kept)

Recv ==
  /\ pc = "recv"
  /\ \E r \in 1..Len(stream) :
       /\ r <= Room
       /\ raw' = Kept \o SubSeq(stream, 1, r)
       /\ stream' = SubSeq(stream, r + 1, Len(stream))
  /\ raw_offset' = KeptOffset
  /\ upset' = (upset \/ Dropped)
  /\ pc' = "parse"
  /\ UNCHANGED <<sent, queue, wrong>>

\* recv gives nothing: the server has closed, fifteen seconds have passed, or
\* there was no room to ask for a byte.
Exit ==
  /\ pc = "recv"
  /\ pc' = "exited"
  /\ UNCHANGED <<stream, raw, raw_offset, history>>

-----------------------------------------------------------------------------
(* The parsing loop.                                                        *)

\* The i-th byte of raw: behind those received come zeros, behind the array
\* whatever the stack holds.
BytesAt(i) ==
  IF i < raw_length THEN {raw[i + 1]} ELSE IF i < max_buf_size THEN {0} ELSE Byte

Unparsed == pc = "parse" /\ raw_offset < raw_length
AtHeader == Unparsed /\ raw[raw_offset + 1] = MAGIC

\* A byte that does not begin a header is passed over.
Skip ==
  /\ Unparsed /\ ~AtHeader
  /\ raw_offset' = raw_offset + 1
  /\ UNCHANGED <<pc, stream, raw, history>>

HeaderWhole == raw_offset + 4 <= raw_length

\* The length is compared with the unsigned difference raw_length - raw_offset,
\* which wraps when the header is not all there.
FitsWithMore(length) == raw_offset + 4 + length < raw_length
Fits(length) == HeaderWhole => raw_offset + 4 + length <= raw_length

\* rtp_parse returns one byte more for a NAL type it has no case for.
Consumed(channel, nal, length) ==
  IF channel = 0 /\ nal = OTHER_NAL THEN length + 1 ELSE length

Payload(length) ==
  SubSeq(raw, raw_offset + 5,
         IF raw_offset + 4 + length <= raw_length THEN raw_offset + 4 + length ELSE raw_length)

\* The packet goes to mt_rtp or mt_rtcp.
Hand(channel, nal, length) ==
  LET frame == [channel |-> channel, payload |-> Payload(length)]
      next  == queue # <<>> /\ frame = Head(queue)
  IN  /\ raw_offset' = raw_offset + 4 + Consumed(channel, nal, length)
      /\ queue' = IF next THEN Tail(queue) ELSE queue
      /\ wrong' = (wrong \/ ~next)
      /\ upset' = (upset \/ ~HeaderWhole \/ Consumed(channel, nal, length) # length)
      /\ UNCHANGED <<pc, stream, raw, sent>>

\* A frame without payload waits like one that is not all there.
Wait(length) ==
  /\ pc' = "recv"
  /\ upset' = (upset \/ (HeaderWhole /\ length = 0))
  /\ UNCHANGED <<stream, raw, raw_offset, sent, queue, wrong>>

Header ==
  /\ AtHeader
  /\ \E channel \in BytesAt(raw_offset + 1), high \in BytesAt(raw_offset + 2),
        low \in BytesAt(raw_offset + 3), nal \in BytesAt(raw_offset + 4) :
       LET rtp_length == high * Radix + low
       IN  \/ rtp_length > 0 /\ Fits(rtp_length) /\ Hand(channel, nal, rtp_length)
           \/ (rtp_length = 0 \/ ~Fits(rtp_length)) /\ Wait(rtp_length)

\* All is parsed: the buffer starts afresh.
Restart ==
  /\ pc = "parse" /\ raw_offset >= raw_length
  /\ raw' = <<>> /\ raw_offset' = 0
  /\ pc' = "recv"
  /\ UNCHANGED <<stream, history>>

Parse == Skip \/ Header \/ Restart

Next == (\E f \in Frames : Send(f)) \/ Recv \/ Exit \/ Parse

Spec == Init /\ [][Next]_vars

\* What has come is received, and the loop goes on.
FairSpec == Spec /\ WF_vars(Recv) /\ WF_vars(Parse)

-----------------------------------------------------------------------------
\* Lines 607-774: wherever TCP splits the stream and whenever the buffer is
\* compacted, the frames handed on are the frames sent, whole, in order and each
\* once, and the buffer is never overrun.  The order holds as long as none of
\* these happens: a header that is not all there reads
\* as a length that is not zero (line 702: its third byte was the last received,
\* or it runs over the end of the buffer), a frame without payload (698), a NAL
\* type without a case (761), a full buffer with one byte left over (636).
FramesInOrder == TypeOK /\ (~upset => ~wrong)

\* Lines 643-741: every frame sent is handed on unless the synchronisation is
\* lost or the client gives up; a pending frame is not forgotten.
FramesArrive ==
  \A n \in 1..MaxFrames :
    sent >= n ~> (sent - Len(queue) >= n \/ upset \/ pc = "exited")
=============================================================================
