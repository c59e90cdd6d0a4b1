------------------------- MODULE RtspClient2Proofs -------------------------
(***************************************************************************)
(* What TLAPS proves of two parts of RTSPClient2.                          *)
(*                                                                         *)
(* Interleave, for every alphabet of bytes, every set of frames, every size*)
(* of the buffer and every way TCP splits the stream: the buffer is not    *)
(* overrun, and the frames handed on are those sent.                       *)
(*                                                                         *)
(* RtspSession, for every set of answers the server may give and every     *)
(* number of frames: the client never takes the answer to one request for  *)
(* the answer to another.                                                  *)
(***************************************************************************)
EXTENDS Interleave, RtspSession, SequenceTheorems, TLAPS

-----------------------------------------------------------------------------
(* Interleave.                                                             *)

\* The n elements of a sequence behind the first b.
LEMMA Slice ==
  ASSUME NEW S, NEW r \in Seq(S), NEW b \in Nat, NEW n \in Nat, b + n <= Len(r)
  PROVE  /\ SubSeq(r, b + 1, b + n) \in Seq(S) /\ Len(SubSeq(r, b + 1, b + n)) = n
         /\ \A i \in 1..n : SubSeq(r, b + 1, b + n)[i] = r[b + i]
<1>1. b + 1 \in Int /\ b + n \in Int
  OBVIOUS
<1>2. \A i \in b + 1..b + n : r[i] \in S
  OBVIOUS
<1>p. PICK p : p = SubSeq(r, b + 1, b + n)
  OBVIOUS
<1>3. /\ p \in Seq(S)
      /\ Len(p) = IF b + 1 <= b + n THEN (b + n) - (b + 1) + 1 ELSE 0
      /\ \A i \in 1..(b + n) - (b + 1) + 1 : p[i] = r[(b + 1) + i - 1]
  BY <1>p, <1>1, <1>2, SubSeqProperties
<1>4. /\ (b + n) - (b + 1) + 1 = n
      /\ (IF b + 1 <= b + n THEN (b + n) - (b + 1) + 1 ELSE 0) = n
      /\ \A i \in 1..n : (b + 1) + i - 1 = b + i
  OBVIOUS
<1>5. Len(p) = n /\ \A i \in 1..n : p[i] = r[b + i]
  BY <1>3, <1>4, Zenon
<1> QED BY <1>p, <1>3, <1>5, Zenon

\* Sequences of the same length with the same elements are the same.
LEMMA SameElements ==
  ASSUME NEW S, NEW p \in Seq(S), NEW q \in Seq(S), NEW n \in Nat,
         Len(p) = n, Len(q) = n, \A i \in 1..n : p[i] = q[i]
  PROVE  p = q
  OBVIOUS

\* The high and the low byte of a length are bytes.
LEMMA LengthBytes ==
  ASSUME NEW n \in Nat, NEW d \in Nat, n < d * d
  PROVE  /\ n \div d \in 0..d - 1 /\ n % d \in 0..d - 1
         /\ ((n \div d) * d) + (n % d) = n
<1>1. d > 0
  OBVIOUS
<1>2. n % d \in 0..d - 1 /\ n \div d \in Nat /\ n = (d * (n \div d)) + (n % d)
  BY <1>1, Z3
<1>3. ASSUME NEW q \in Nat, d * q < d * d
      PROVE  q < d
  BY <1>1, <1>3, Z3
<1>4. d * (n \div d) < d * d
  <2> DEFINE q == n \div d
  <2>1. d * q \in Nat
    BY <1>2
  <2> QED BY <1>2, <2>1
<1> QED BY <1>2, <1>3, <1>4

LEMMA FourBytes ==
  ASSUME NEW S, NEW a \in S, NEW b \in S, NEW c \in S, NEW d \in S
  PROVE  <<a, b, c, d>> \in Seq(S)
  OBVIOUS

LEMMA FourBefore ==
  ASSUME NEW S, NEW s \in Seq(S), Len(s) = 4, NEW t \in Seq(S)
  PROVE  /\ s \o t \in Seq(S) /\ Len(s \o t) = Len(t) + 4
         /\ \A k \in 1..Len(t) + 4 : (s \o t)[k] = IF k <= 4 THEN s[k] ELSE t[k - 4]
<1>1. Len(t) \in Nat
  OBVIOUS
<1>2. /\ s \o t \in Seq(S) /\ Len(s \o t) = Len(s) + Len(t)
      /\ \A k \in 1..Len(s) + Len(t) : (s \o t)[k] = IF k <= Len(s) THEN s[k] ELSE t[k - Len(s)]
  BY ConcatProperties
<1> QED BY <1>1, <1>2

\* A frame's bytes are bytes.
LEMMA WireType ==
  ASSUME NEW f \in Frames
  PROVE  Wire(f) \in Seq(Byte)
<1>1. f.channel \in Byte /\ f.payload \in Seq(Byte) /\ MAGIC \in Byte
  BY FramesAssumption, RadixAssumption DEF Frame
<1>2. Len(f.payload) \div Radix \in Byte /\ Len(f.payload) % Radix \in Byte
  <2>1. Len(f.payload) \in Nat /\ Radix \in Nat /\ Len(f.payload) < Radix * Radix
    BY <1>1, FramesAssumption, RadixAssumption
  <2> QED BY <2>1, LengthBytes DEF Byte
<1>3. <<MAGIC, f.channel, Len(f.payload) \div Radix, Len(f.payload) % Radix>> \in Seq(Byte)
  BY <1>1, <1>2, FourBytes
<1> QED BY <1>1, <1>3, ConcatProperties DEF Wire

\* What read_pending keeps is bytes, and no more than the buffer takes.
LEMMA KeptType ==
  ASSUME TypeOK, pc = "recv"
  PROVE  /\ Kept \in Seq(Byte) /\ Len(Kept) <= max_buf_size
         /\ KeptOffset \in Nat
<1> USE BufferAssumption
<1>1. /\ raw \in Seq(Byte) /\ Len(raw) \in Nat /\ Len(raw) <= max_buf_size
      /\ raw_offset \in Nat
  BY DEF TypeOK, raw_length
<1>2. CASE Moved
  <2>1. raw_offset < Len(raw)
    BY <1>1, <1>2 DEF Moved, raw_length
  <2>2. /\ SubSeq(raw, raw_offset + 1, Len(raw)) \in Seq(Byte)
        /\ Len(SubSeq(raw, raw_offset + 1, Len(raw))) <= Len(raw)
    <3>1. \A i \in raw_offset + 1..Len(raw) : raw[i] \in Byte
      BY <1>1
    <3> QED BY <1>1, <2>1, <3>1, SubSeqProperties
  <2> QED BY <1>1, <1>2, <2>2 DEF Kept, KeptOffset, Rest, raw_length
<1>3. CASE ~Moved
  BY <1>1, <1>3 DEF Kept, KeptOffset
<1> QED BY <1>2, <1>3

LEMMA InitType == Init => TypeOK
<1>1. <<>> \in Seq(Byte) /\ <<>> \in Seq(Frames) /\ Len(<<>>) = 0
  OBVIOUS
<1>2. 0 \in 0..MaxFrames /\ 0 < max_buf_size /\ 0 <= max_buf_size
  BY BufferAssumption, FramesAssumption
<1>3. Init => wrong \in BOOLEAN /\ upset \in BOOLEAN
  BY DEF Init
<1>4. Init => raw = <<>> /\ Len(raw) = 0
  BY <1>1 DEF Init
<1> QED BY <1>1, <1>2, <1>3, <1>4 DEF Init, TypeOK, raw_length

\* One step per action.
LEMMA NextType == TypeOK /\ [Next]_vars => TypeOK'
<1> SUFFICES ASSUME TypeOK, [Next]_vars
             PROVE  TypeOK'
  OBVIOUS
<1> USE BufferAssumption
<1>1. ASSUME NEW f \in Frames, Send(f)
      PROVE  TypeOK'
  <2>1. Wire(f) \in Seq(Byte)
    BY WireType
  <2>2. stream' \in Seq(Byte) /\ queue' \in Seq(Frames)
    BY <1>1, <2>1 DEF Send, TypeOK
  <2>3. sent' \in 0..MaxFrames
    BY <1>1, FramesAssumption DEF Send, TypeOK
  <2> QED BY <1>1, <2>2, <2>3 DEF Send, TypeOK, raw_length
<1>2. ASSUME Recv
      PROVE  TypeOK'
  <2>1. Kept \in Seq(Byte) /\ Len(Kept) <= max_buf_size /\ KeptOffset \in Nat
    BY <1>2, KeptType DEF Recv
  <2>2. PICK r \in 1..Len(stream) :
          /\ r <= Room
          /\ raw' = Kept \o SubSeq(stream, 1, r)
          /\ stream' = SubSeq(stream, r + 1, Len(stream))
    BY <1>2 DEF Recv
  <2>3. stream \in Seq(Byte) /\ Len(stream) \in Nat /\ r \in Nat
    BY <2>2 DEF TypeOK
  <2>4. /\ SubSeq(stream, 1, r) \in Seq(Byte) /\ Len(SubSeq(stream, 1, r)) = r
        /\ SubSeq(stream, r + 1, Len(stream)) \in Seq(Byte)
    <3>1. \A i \in 1..Len(stream) : stream[i] \in Byte
      BY <2>3
    <3> QED BY <2>2, <2>3, <3>1, SubSeqProperties
  <2>5. raw' \in Seq(Byte) /\ Len(raw') <= max_buf_size
    BY <2>1, <2>2, <2>3, <2>4, ConcatProperties DEF Room
  <2>6. upset' \in BOOLEAN
    BY <1>2 DEF Recv, TypeOK
  <2> QED BY <1>2, <2>1, <2>2, <2>4, <2>5, <2>6 DEF Recv, TypeOK, raw_length
<1>3. ASSUME Exit
      PROVE  TypeOK'
  BY <1>3 DEF Exit, TypeOK, raw_length, history
<1>4. ASSUME Skip
      PROVE  TypeOK'
  BY <1>4 DEF Skip, Unparsed, TypeOK, raw_length, history
<1>5. ASSUME NEW channel \in Byte, NEW nal \in Byte, NEW length \in Nat,
             pc = "parse", Hand(channel, nal, length)
      PROVE  TypeOK'
  <2>1. raw_offset' \in Nat
    BY <1>5 DEF Hand, Consumed, TypeOK
  <2>2. queue' \in Seq(Frames)
    BY <1>5 DEF Hand, TypeOK
  <2>3. wrong' \in BOOLEAN /\ upset' \in BOOLEAN
    BY <1>5 DEF Hand, TypeOK
  <2> QED BY <1>5, <2>1, <2>2, <2>3 DEF Hand, TypeOK, raw_length
<1>6. ASSUME NEW length \in Nat, AtHeader, Wait(length)
      PROVE  TypeOK'
  <2>1. raw_offset < max_buf_size
    BY <1>6 DEF AtHeader, Unparsed, TypeOK, raw_length
  <2>2. upset' \in BOOLEAN
    BY <1>6 DEF Wait, TypeOK
  <2> QED BY <1>6, <2>1, <2>2 DEF Wait, TypeOK, raw_length
<1>7. ASSUME Header
      PROVE  TypeOK'
  <2>1. \A i \in Nat : BytesAt(i) \subseteq Byte
    <3>1. \A i \in Nat : i < Len(raw) => raw[i + 1] \in Byte
      BY DEF TypeOK
    <3> QED BY <3>1, RadixAssumption DEF BytesAt, raw_length
  <2>2. /\ raw_offset + 1 \in Nat /\ raw_offset + 2 \in Nat
        /\ raw_offset + 3 \in Nat /\ raw_offset + 4 \in Nat
    BY DEF TypeOK
  <2>3. PICK channel \in Byte, high \in Byte, low \in Byte, nal \in Byte :
          \/ Hand(channel, nal, high * Radix + low)
          \/ Wait(high * Radix + low)
    <3>1. PICK channel \in BytesAt(raw_offset + 1), high \in BytesAt(raw_offset + 2),
               low \in BytesAt(raw_offset + 3), nal \in BytesAt(raw_offset + 4) :
            \/ Hand(channel, nal, high * Radix + low)
            \/ Wait(high * Radix + low)
      BY <1>7 DEF Header
    <3> QED BY <2>1, <2>2, <3>1
  <2>4. high * Radix + low \in Nat
    BY RadixAssumption DEF Byte
  <2>5. AtHeader /\ pc = "parse"
    BY <1>7 DEF Header, AtHeader, Unparsed
  <2> QED BY <1>5, <1>6, <2>3, <2>4, <2>5
<1>8. ASSUME Restart
      PROVE  TypeOK'
  BY <1>8 DEF Restart, TypeOK, raw_length, history
<1>9. CASE UNCHANGED vars
  BY <1>9 DEF vars, TypeOK, raw_length
<1> QED BY <1>1, <1>2, <1>3, <1>4, <1>7, <1>8, <1>9 DEF Next, Parse

\* Lines 612-670: the buffer is never overrun, and what is received are bytes.
THEOREM TypeCorrect == Spec => []TypeOK
  BY InitType, NextType, PTL DEF Spec

-----------------------------------------------------------------------------
(* Synchronisation: the bytes still owed, in the buffer and in the stream,  *)
(* divide into the frames still to be handed on.  The bytes are numbered    *)
(* from raw_offset on, so that moving them does not renumber them.          *)

OwedLen == (Len(raw) - raw_offset) + Len(stream)
Owed(k) == IF raw_offset + k <= Len(raw) THEN raw[raw_offset + k]
                                         ELSE stream[(raw_offset + k) - Len(raw)]

\* start[i] bytes come before the i-th frame of the queue.
Divides(start) ==
  /\ start \in [1..Len(queue) + 1 -> Nat]
  /\ start[1] = 0 /\ start[Len(queue) + 1] = OwedLen
  /\ \A i, j \in 1..Len(queue) + 1 : i <= j => start[i] <= start[j]
  /\ \A i \in 1..Len(queue) :
       /\ start[i + 1] = start[i] + Len(queue[i].payload) + 4
       /\ \A k \in 1..Len(queue[i].payload) + 4 : Owed(start[i] + k) = Wire(queue[i])[k]

SyncInv ==
  ~upset => ~wrong /\ raw_offset <= Len(raw) /\ \E start : Divides(start)

IInv == TypeOK /\ SyncInv

\* The bytes of a frame, one by one.
LEMMA WireAt ==
  ASSUME NEW f \in Frames
  PROVE  /\ Len(f.payload) \in Nat /\ f.payload \in Seq(Byte) /\ f.channel \in Byte
         /\ Wire(f)[1] = MAGIC /\ Wire(f)[2] = f.channel
         /\ Wire(f)[3] = Len(f.payload) \div Radix
         /\ Wire(f)[4] = Len(f.payload) % Radix
         /\ \A k \in 1..Len(f.payload) : Wire(f)[k + 4] = f.payload[k]
         /\ Wire(f) \in Seq(Byte) /\ Len(Wire(f)) = Len(f.payload) + 4
<1> DEFINE head == <<MAGIC, f.channel, Len(f.payload) \div Radix, Len(f.payload) % Radix>>
<1>1. f.channel \in Byte /\ f.payload \in Seq(Byte) /\ Len(f.payload) \in Nat
  BY FramesAssumption DEF Frame
<1>2. Len(f.payload) \div Radix \in Byte /\ Len(f.payload) % Radix \in Byte
  <2>1. Radix \in Nat /\ Len(f.payload) < Radix * Radix
    BY FramesAssumption, RadixAssumption
  <2> QED BY <1>1, <2>1, LengthBytes DEF Byte
<1>3. head \in Seq(Byte) /\ Len(head) = 4
  BY <1>1, <1>2, FourBytes, RadixAssumption
<1>4. /\ head[1] = MAGIC /\ head[2] = f.channel
      /\ head[3] = Len(f.payload) \div Radix /\ head[4] = Len(f.payload) % Radix
  OBVIOUS
<1>5. Wire(f) = head \o f.payload
  BY DEF Wire
<1> HIDE DEF head
<1>6. /\ Wire(f) \in Seq(Byte) /\ Len(Wire(f)) = Len(f.payload) + 4
      /\ \A k \in 1..Len(f.payload) + 4 :
           Wire(f)[k] = IF k <= 4 THEN head[k] ELSE f.payload[k - 4]
  BY <1>1, <1>3, <1>5, FourBefore
<1>7. /\ Wire(f)[1] = head[1] /\ Wire(f)[2] = head[2]
      /\ Wire(f)[3] = head[3] /\ Wire(f)[4] = head[4]
  BY <1>1, <1>6
<1>8. \A k \in 1..Len(f.payload) : Wire(f)[k + 4] = f.payload[k]
  <2> TAKE k \in 1..Len(f.payload)
  <2>1. k + 4 \in 1..Len(f.payload) + 4 /\ ~(k + 4 <= 4) /\ (k + 4) - 4 = k
    BY <1>1
  <2> QED BY <1>6, <2>1
<1> QED BY <1>1, <1>4, <1>6, <1>7, <1>8, Zenon

LEMMA Within ==
  ASSUME NEW x \in Nat, NEW l \in Nat, NEW y, NEW N \in Nat, y = x + l + 4, y <= N,
         NEW k \in 1..l + 4
  PROVE  x + k \in 1..N
  OBVIOUS

\* The bytes owed divide as before when neither they nor the queue change.
LEMMA SameDivision ==
  ASSUME NEW start, Divides(start), queue' = queue, OwedLen' = OwedLen,
         OwedLen \in Nat, queue \in Seq(Frames),
         \A k \in 1..OwedLen : Owed(k)' = Owed(k)
  PROVE  Divides(start)'
<1> DEFINE n == Len(queue)
<1>1. n \in Nat
  OBVIOUS
<1>2. \A i \in 1..n : \A k \in 1..Len(queue[i].payload) + 4 : start[i] + k \in 1..OwedLen
  <2> SUFFICES ASSUME NEW i \in 1..n, NEW k \in 1..Len(queue[i].payload) + 4
               PROVE  start[i] + k \in 1..OwedLen
    OBVIOUS
  <2>1. queue[i] \in Frames /\ Len(queue[i].payload) \in Nat
    BY WireAt
  <2>2. start[i] \in Nat
    BY <1>1 DEF Divides
  <2>3. start[i + 1] = start[i] + Len(queue[i].payload) + 4
    BY DEF Divides
  <2>4. start[i + 1] <= start[n + 1] /\ start[n + 1] = OwedLen
    BY <1>1 DEF Divides
  <2>5. start[i + 1] <= OwedLen
    BY <2>4
  <2> QED BY <2>1, <2>2, <2>3, <2>5, Within, Zenon
<1>3. \A i \in 1..n : \A k \in 1..Len(queue[i].payload) + 4 :
        Owed(start[i] + k)' = Wire(queue[i])[k]
  <2> SUFFICES ASSUME NEW i \in 1..n, NEW k \in 1..Len(queue[i].payload) + 4
               PROVE  Owed(start[i] + k)' = Wire(queue[i])[k]
    OBVIOUS
  <2> QED BY <1>2 DEF Divides
<1> QED BY <1>3 DEF Divides, Wire

\* The parser is at the first byte of the first frame of the queue.
LEMMA NextByte ==
  ASSUME TypeOK, NEW start, Divides(start), raw_offset < Len(raw)
  PROVE  /\ queue # <<>> /\ Head(queue) = queue[1] /\ queue[1] \in Frames
         /\ start[1] = 0 /\ start[2] = Len(queue[1].payload) + 4
         /\ start[2] <= OwedLen
         /\ \A k \in 1..Len(queue[1].payload) + 4 :
              raw_offset + k <= Len(raw) => raw[raw_offset + k] = Wire(queue[1])[k]
         /\ raw[raw_offset + 1] = MAGIC
<1> DEFINE n == Len(queue)
<1>1. /\ n \in Nat /\ queue \in Seq(Frames) /\ raw_offset \in Nat
      /\ Len(raw) \in Nat /\ Len(stream) \in Nat
  BY DEF TypeOK
<1>2. OwedLen > 0
  BY <1>1 DEF OwedLen
<1>3. start[1] = 0 /\ start[n + 1] = OwedLen
  BY DEF Divides
<1>4. n > 0
  BY <1>1, <1>2, <1>3
<1>5. queue # <<>> /\ Head(queue) = queue[1] /\ queue[1] \in Frames
  BY <1>1, <1>4
<1>6. start[2] = Len(queue[1].payload) + 4
  <2>1. start[1 + 1] = start[1] + Len(queue[1].payload) + 4
    BY <1>1, <1>4 DEF Divides
  <2> QED BY <1>3, <1>5, <2>1, WireAt
<1>7. start[2] <= OwedLen
  <2>1. start[2] <= start[n + 1]
    BY <1>1, <1>4 DEF Divides
  <2> QED BY <1>3, <2>1
<1>8. ASSUME NEW k \in 1..Len(queue[1].payload) + 4, raw_offset + k <= Len(raw)
      PROVE  raw[raw_offset + k] = Wire(queue[1])[k]
  <2>1. Owed(start[1] + k) = Wire(queue[1])[k]
    <3>1. \A i \in 1..n : \A j \in 1..Len(queue[i].payload) + 4 :
            Owed(start[i] + j) = Wire(queue[i])[j]
      BY Zenon DEF Divides
    <3>2. 1 \in 1..n
      BY <1>1, <1>4
    <3> QED BY <1>8, <3>1, <3>2, Zenon
  <2>2. start[1] + k = k
    BY <1>3, <1>5, WireAt
  <2> QED BY <1>8, <2>1, <2>2 DEF Owed
<1>9. raw[raw_offset + 1] = MAGIC
  <2>1. 1 \in 1..Len(queue[1].payload) + 4 /\ raw_offset + 1 <= Len(raw)
    BY <1>1, <1>5, WireAt
  <2> QED BY <1>5, <1>8, <2>1, WireAt
<1> QED BY <1>3, <1>5, <1>6, <1>7, <1>8, <1>9

\* Send adds a frame behind the bytes owed.
LEMMA SendDivides ==
  ASSUME TypeOK, NEW f \in Frames, Send(f), NEW start, Divides(start), raw_offset <= Len(raw)
  PROVE  \E s : Divides(s)'
<1>1. PICK n : n = Len(queue)
  OBVIOUS
<1>2. PICK N : N = OwedLen
  OBVIOUS
<1>3. PICK m : m = Len(f.payload) + 4
  OBVIOUS
<1>4. /\ n \in Nat /\ queue \in Seq(Frames) /\ raw_offset \in Nat
      /\ raw \in Seq(Byte) /\ stream \in Seq(Byte)
      /\ Len(raw) \in Nat /\ Len(stream) \in Nat
      /\ m \in Nat /\ m >= 4 /\ Wire(f) \in Seq(Byte) /\ Len(Wire(f)) = m
  BY <1>1, <1>3, WireAt DEF TypeOK
<1>5. /\ queue' = Append(queue, f) /\ stream' = stream \o Wire(f)
      /\ raw' = raw /\ raw_offset' = raw_offset
  BY DEF Send
<1>6. /\ Len(queue') = n + 1 /\ queue'[n + 1] = f
      /\ \A i \in 1..n : queue'[i] = queue[i]
  BY <1>1, <1>4, <1>5
<1>7. /\ Len(stream') = Len(stream) + m
      /\ \A i \in 1..Len(stream) : stream'[i] = stream[i]
      /\ \A i \in 1..m : stream'[Len(stream) + i] = Wire(f)[i]
  <2>1. /\ Len(stream') = Len(stream) + Len(Wire(f))
        /\ \A i \in 1..Len(stream) + Len(Wire(f)) :
             stream'[i] = IF i <= Len(stream) THEN stream[i] ELSE Wire(f)[i - Len(stream)]
    BY <1>4, <1>5, ConcatProperties
  <2>2. ASSUME NEW i \in 1..m
        PROVE  stream'[Len(stream) + i] = Wire(f)[i]
    <3>1. /\ Len(stream) + i \in 1..Len(stream) + Len(Wire(f))
          /\ ~(Len(stream) + i <= Len(stream)) /\ (Len(stream) + i) - Len(stream) = i
      BY <1>4
    <3> QED BY <2>1, <3>1
  <2> QED BY <1>4, <2>1, <2>2
<1>8. N \in Nat /\ OwedLen' = N + m
  BY <1>2, <1>4, <1>5, <1>7 DEF OwedLen
<1>9. ASSUME NEW k \in 1..N
      PROVE  Owed(k)' = Owed(k)
  BY <1>2, <1>4, <1>5, <1>7 DEF Owed, OwedLen
<1>10. ASSUME NEW k \in 1..m
       PROVE  Owed(N + k)' = Wire(f)[k]
  <2>1. raw_offset + (N + k) = Len(raw) + Len(stream) + k
    BY <1>2, <1>4 DEF OwedLen
  <2>2. /\ ~(raw_offset + (N + k) <= Len(raw))
        /\ (raw_offset + (N + k)) - Len(raw) = Len(stream) + k
    BY <1>4, <1>8, <2>1
  <2>3. Owed(N + k)' = stream'[Len(stream) + k]
    BY <1>5, <2>2 DEF Owed
  <2> QED BY <1>7, <2>3
<1>11. PICK s : s = [i \in 1..n + 2 |-> IF i <= n + 1 THEN start[i] ELSE N + m]
  OBVIOUS
<1>12. /\ start \in [1..n + 1 -> Nat] /\ start[1] = 0 /\ start[n + 1] = N
       /\ \A i, j \in 1..n + 1 : i <= j => start[i] <= start[j]
  BY <1>1, <1>2 DEF Divides
<1>13. /\ \A i \in 1..n + 1 : s[i] = start[i] /\ start[i] \in Nat /\ start[i] <= N
       /\ s[n + 2] = N + m
  BY <1>4, <1>11, <1>12
<1>14. s \in [1..Len(queue') + 1 -> Nat] /\ s[1] = 0 /\ s[Len(queue') + 1] = OwedLen'
  BY <1>4, <1>6, <1>8, <1>11, <1>12, <1>13
<1>15. \A i, j \in 1..Len(queue') + 1 : i <= j => s[i] <= s[j]
  <2> SUFFICES ASSUME NEW i \in 1..n + 2, NEW j \in 1..n + 2, i <= j
               PROVE  s[i] <= s[j]
    <3>1. Len(queue') + 1 = n + 2
      BY <1>4, <1>6
    <3> QED BY <3>1
  <2>1. CASE j \in 1..n + 1
    BY <1>4, <1>12, <1>13, <2>1
  <2>2. CASE j = n + 2 /\ i \in 1..n + 1
    BY <1>4, <1>8, <1>13, <2>2
  <2>3. CASE i = n + 2
    BY <1>4, <1>8, <1>13, <2>3
  <2> QED BY <1>4, <2>1, <2>2, <2>3
<1>16. ASSUME NEW i \in 1..Len(queue')
       PROVE  /\ s[i + 1] = s[i] + Len(queue'[i].payload) + 4
              /\ \A k \in 1..Len(queue'[i].payload) + 4 : Owed(s[i] + k)' = Wire(queue'[i])[k]
  <2>1. CASE i = n + 1
    <3>1. queue'[i] = f /\ s[i] = N /\ s[i + 1] = N + m
      BY <1>4, <1>6, <1>12, <1>13, <2>1
    <3>2. Len(f.payload) \in Nat
      BY WireAt
    <3>3. s[i + 1] = s[i] + Len(f.payload) + 4
      BY <1>3, <1>8, <3>1, <3>2
    <3>4. \A k \in 1..Len(f.payload) + 4 : Owed(s[i] + k)' = Wire(f)[k]
      BY <1>3, <1>10, <3>1
    <3> QED BY <3>1, <3>3, <3>4
  <2>2. CASE i \in 1..n
    <3>1. queue'[i] = queue[i] /\ s[i] = start[i] /\ s[i + 1] = start[i + 1]
      BY <1>4, <1>6, <1>13, <2>2
    <3>2. start[i + 1] = start[i] + Len(queue[i].payload) + 4
      BY <1>1, <2>2 DEF Divides
    <3>3. \A k \in 1..Len(queue[i].payload) + 4 : Owed(start[i] + k) = Wire(queue[i])[k]
      BY <1>1, <2>2 DEF Divides
    <3>4. queue[i] \in Frames /\ Len(queue[i].payload) \in Nat
      BY <1>1, <1>4, <2>2, WireAt
    <3>5. start[i] \in Nat /\ start[i + 1] <= N
      BY <1>4, <1>13, <2>2
    <3>6. \A k \in 1..Len(queue[i].payload) + 4 : start[i] + k \in 1..N
      <4>1. PICK l \in Nat, p \in Nat : l = Len(queue[i].payload) /\ p = start[i]
        BY <3>4, <3>5
      <4>2. p + l + 4 <= N
        BY <3>2, <3>5, <4>1
      <4>3. \A k \in 1..l + 4 : p + k \in 1..N
        BY <1>8, <4>2
      <4> QED BY <4>1, <4>3
    <3>7. \A k \in 1..Len(queue[i].payload) + 4 : Owed(start[i] + k)' = Wire(queue[i])[k]
      BY <1>9, <3>3, <3>6
    <3> QED BY <3>1, <3>2, <3>7
  <2> QED BY <1>4, <1>6, <2>1, <2>2
<1>17. Divides(s)'
  BY <1>14, <1>15, <1>16 DEF Divides, Wire
<1> QED BY <1>17

\* Recv moves bytes from the stream to the buffer, and the rest of the buffer to
\* its front; unless it drops a byte, those owed are the same.
LEMMA RecvDivides ==
  ASSUME TypeOK, Recv, ~upset', NEW start, Divides(start), raw_offset <= Len(raw)
  PROVE  Divides(start)' /\ raw_offset' <= Len(raw')
<1>1. /\ raw_offset \in Nat /\ raw \in Seq(Byte) /\ stream \in Seq(Byte)
      /\ queue \in Seq(Frames)
  BY DEF TypeOK
<1>2. PICK K, o : K = Kept /\ o = KeptOffset
  OBVIOUS
<1>3. PICK a \in Nat, b \in Nat, c \in Nat :
        a = Len(raw) /\ b = raw_offset /\ c = Len(stream) /\ b <= a
  <2>1. Len(raw) \in Nat /\ Len(stream) \in Nat
    BY <1>1
  <2> QED BY <1>1, <2>1
<1>4. /\ K \in Seq(Byte) /\ o \in Nat /\ Len(K) - o = a - b
      /\ \A k \in 1..a - b : K[o + k] = raw[b + k]
  <2>1. ~Dropped
    BY DEF Recv
  <2>2. CASE Moved
    <3>1. K = SubSeq(raw, b + 1, a) /\ o = 0
      BY <1>2, <1>3, <2>2 DEF Kept, KeptOffset, Rest, raw_length
    <3>2. \A i \in b + 1..a : raw[i] \in Byte
      BY <1>1, <1>3
    <3>3. /\ K \in Seq(Byte)
          /\ Len(K) = IF b + 1 <= a THEN a - (b + 1) + 1 ELSE 0
          /\ \A i \in 1..a - (b + 1) + 1 : K[i] = raw[b + 1 + i - 1]
      BY <1>3, <3>1, <3>2, SubSeqProperties
    <3> QED BY <1>3, <3>1, <3>3
  <2>3. CASE ~Moved
    <3>1. K = raw /\ o = raw_offset
      BY <1>2, <2>1, <2>3 DEF Kept, KeptOffset
    <3> QED BY <1>1, <1>3, <3>1
  <2> QED BY <2>2, <2>3
<1>5. PICK d \in Nat : d = Len(K) /\ d - o = a - b
  BY <1>4
<1>6. PICK r \in 1..c :
        raw' = K \o SubSeq(stream, 1, r) /\ stream' = SubSeq(stream, r + 1, c)
  BY <1>2, <1>3 DEF Recv
<1>7. PICK x : x = SubSeq(stream, 1, r)
  OBVIOUS
<1> DEFINE Sizes == /\ o \in Nat /\ d \in Nat /\ a \in Nat /\ b \in Nat /\ c \in Nat
                    /\ r \in Nat /\ d - o = a - b /\ b <= a /\ 1 <= r /\ r <= c
<1>s. Sizes
  BY <1>3, <1>4, <1>5, <1>6
<1>8. /\ x \in Seq(Byte) /\ Len(x) = r /\ Len(stream') = c - r
      /\ \A i \in 1..r : x[i] = stream[i]
      /\ \A i \in 1..c - r : stream'[i] = stream[r + i]
  <2>1. \A i \in 1..c : stream[i] \in Byte
    BY <1>1, <1>3
  <2>2. /\ x \in Seq(Byte) /\ Len(x) = IF 1 <= r THEN r - 1 + 1 ELSE 0
        /\ \A i \in 1..r - 1 + 1 : x[i] = stream[1 + i - 1]
    <3>1. \A i \in 1..r : stream[i] \in Byte
      BY <1>s, <2>1
    <3> QED BY <1>s, <1>7, <3>1, SubSeqProperties
  <2>3. /\ Len(stream') = IF r + 1 <= c THEN c - (r + 1) + 1 ELSE 0
        /\ \A i \in 1..c - (r + 1) + 1 : stream'[i] = stream[r + 1 + i - 1]
    <3>1. \A i \in r + 1..c : stream[i] \in Byte
      BY <1>s, <2>1
    <3> QED BY <1>s, <1>6, <3>1, SubSeqProperties
  <2> QED BY <1>s, <2>2, <2>3
<1>9. /\ Len(raw') = d + r
      /\ \A i \in 1..d + r : raw'[i] = IF i <= d THEN K[i] ELSE stream[i - d]
  <2>1. /\ Len(raw') = Len(K) + Len(x)
        /\ \A i \in 1..Len(K) + Len(x) : raw'[i] = IF i <= Len(K) THEN K[i] ELSE x[i - Len(K)]
    BY <1>4, <1>6, <1>7, <1>8, ConcatProperties
  <2> QED BY <1>5, <1>6, <1>8, <2>1
<1>10. raw_offset' = o /\ queue' = queue
  BY <1>2 DEF Recv
<1>11. OwedLen = (a - b) + c /\ OwedLen' = ((d + r) - o) + (c - r)
  <2>1. Len(raw) = a /\ raw_offset = b /\ Len(stream) = c
    BY <1>3
  <2>2. Len(raw') = d + r /\ raw_offset' = o /\ Len(stream') = c - r
    BY <1>8, <1>9, <1>10
  <2>3. OwedLen = (a - b) + c
    BY <2>1 DEF OwedLen
  <2>4. OwedLen' = (Len(raw') - raw_offset') + Len(stream')
    BY DEF OwedLen
  <2> QED BY <2>2, <2>3, <2>4
<1>12. (a - b) + c \in Nat /\ ((d + r) - o) + (c - r) = (a - b) + c /\ o <= d + r
  BY <1>s
<1>13. ASSUME NEW k \in 1..(a - b) + c
       PROVE  Owed(k)' = Owed(k)
  <2>1. Owed(k) = IF b + k <= a THEN raw[b + k] ELSE stream[(b + k) - a]
    BY <1>3 DEF Owed
  <2>2. Owed(k)' = IF o + k <= d + r THEN raw'[o + k] ELSE stream'[(o + k) - (d + r)]
    BY <1>9, <1>10 DEF Owed
  <2>3. CASE b + k <= a
    <3>1. o + k <= d + r /\ o + k \in 1..d + r /\ o + k <= d /\ k \in 1..a - b
      BY <1>s, <2>3
    <3>2. raw'[o + k] = K[o + k] /\ K[o + k] = raw[b + k]
      BY <1>4, <1>9, <3>1
    <3> QED BY <2>1, <2>2, <2>3, <3>1, <3>2
  <2>4. CASE b + k > a /\ o + k <= d + r
    <3>1. /\ o + k \in 1..d + r /\ ~(o + k <= d) /\ ~(b + k <= a)
          /\ (o + k) - d = (b + k) - a
      BY <1>s, <2>4
    <3>2. raw'[o + k] = stream[(o + k) - d]
      <4>1. PICK i : i = o + k
        OBVIOUS
      <4>2. i \in 1..d + r /\ ~(i <= d)
        BY <3>1, <4>1
      <4>3. raw'[i] = stream[i - d]
        BY <1>9, <4>2
      <4> QED BY <4>1, <4>3
    <3> QED BY <2>1, <2>2, <2>4, <3>1, <3>2
  <2>5. CASE b + k > a /\ o + k > d + r
    <3>1. /\ ~(o + k <= d + r) /\ ~(b + k <= a)
          /\ (o + k) - (d + r) \in 1..c - r
          /\ r + ((o + k) - (d + r)) = (b + k) - a
      BY <1>s, <2>5
    <3>2. stream'[(o + k) - (d + r)] = stream[r + ((o + k) - (d + r))]
      BY <1>8, <3>1
    <3> QED BY <2>1, <2>2, <3>1, <3>2
  <2>6. b + k \in Int /\ o + k \in Int /\ d + r \in Int
    BY <1>s
  <2> QED BY <2>3, <2>4, <2>5, <2>6
<1>14. Divides(start)'
  <2>1. OwedLen' = OwedLen /\ OwedLen \in Nat /\ \A k \in 1..OwedLen : Owed(k)' = Owed(k)
    BY <1>11, <1>12, <1>13
  <2> QED BY <1>1, <1>10, <2>1, SameDivision
<1>15. raw_offset' <= Len(raw')
  BY <1>9, <1>10, <1>12
<1> QED BY <1>14, <1>15

LEMMA BackAgain ==
  ASSUME NEW p \in Nat, NEW m \in Nat, m <= p, NEW k \in Nat
  PROVE  (p - m) + k \in Nat /\ m + ((p - m) + k) = p + k
  OBVIOUS

LEMMA Difference ==
  ASSUME NEW p \in Nat, NEW m \in Nat, m <= p
  PROVE  /\ p - m \in Nat
         /\ \A l \in Nat : /\ (p - m) + l \in Nat /\ m + ((p - m) + l) = p + l
                           /\ (p - m) + l + 4 = (p + l + 4) - m
  OBVIOUS

\* When the first frame is taken off the queue and its bytes off those owed, the
\* other bytes still divide into the other frames.
LEMMA TailDivides ==
  ASSUME NEW start, Divides(start), queue \in Seq(Frames), queue # <<>>,
         NEW m \in Nat, m = start[2],
         queue' = Tail(queue), OwedLen \in Int, OwedLen' = OwedLen - m,
         \A k \in Nat : Owed(k)' = Owed(m + k)
  PROVE  \E s : Divides(s)'
<1>1. PICK n \in Nat : n = Len(queue) /\ n > 0
  <2>1. Len(queue) \in Nat /\ Len(queue) # 0
    BY EmptySeq
  <2> QED BY <2>1
<1>2. PICK N : N = OwedLen
  OBVIOUS
<1>3. Len(queue') = n - 1 /\ \A i \in 1..n - 1 : queue'[i] = queue[i + 1]
  BY <1>1
<1>4. /\ start \in [1..n + 1 -> Nat] /\ start[n + 1] = N
      /\ \A i, j \in 1..n + 1 : i <= j => start[i] <= start[j]
  BY <1>1, <1>2 DEF Divides
<1>5. PICK s : s = [i \in 1..n |-> start[i + 1] - m]
  OBVIOUS
<1>6. \A i \in 1..n : s[i] = start[i + 1] - m /\ start[i + 1] \in Nat /\ m <= start[i + 1]
  <2> TAKE i \in 1..n
  <2>1. i + 1 \in 1..n + 1 /\ 2 \in 1..n + 1 /\ 2 <= i + 1
    BY <1>1
  <2> QED BY <1>4, <1>5, <2>1
<1>7. s \in [1..n -> Nat]
  <2>1. \A i \in 1..n : start[i + 1] - m \in Nat
    <3> TAKE i \in 1..n
    <3>1. PICK p \in Nat : p = start[i + 1]
      BY <1>6
    <3>2. m <= p
      BY <1>6, <3>1
    <3>3. p - m \in Nat
      BY <3>2, Difference
    <3> QED BY <3>1, <3>3
  <2> QED BY <1>5, <2>1
<1>8. s[1] = 0 /\ s[n] = OwedLen'
  <2>1. s[1] = start[2] - m
    <3>1. 1 \in 1..n /\ 1 + 1 = 2
      BY <1>1
    <3>2. s[1] = start[1 + 1] - m
      BY <1>6, <3>1
    <3> QED BY <3>1, <3>2
  <2>2. s[n] = start[n + 1] - m
    BY <1>1, <1>6
  <2> QED BY <1>2, <1>4, <2>1, <2>2
<1>9. \A i, j \in 1..n : i <= j => s[i] <= s[j]
  <2> SUFFICES ASSUME NEW i \in 1..n, NEW j \in 1..n, i <= j
               PROVE  s[i] <= s[j]
    OBVIOUS
  <2>1. i + 1 \in 1..n + 1 /\ j + 1 \in 1..n + 1 /\ i + 1 <= j + 1
    OBVIOUS
  <2>2. PICK p \in Nat, q \in Nat : p = start[i + 1] /\ q = start[j + 1]
    BY <1>6
  <2>3. p <= q
    BY <1>4, <2>1, <2>2
  <2>4. p - m <= q - m
    BY <2>3
  <2>5. s[i] = p - m /\ s[j] = q - m
    BY <1>6, <2>2
  <2> QED BY <2>4, <2>5
<1>10. ASSUME NEW i \in 1..n - 1
       PROVE  /\ s[i + 1] = s[i] + Len(queue'[i].payload) + 4
              /\ \A k \in 1..Len(queue'[i].payload) + 4 : Owed(s[i] + k)' = Wire(queue'[i])[k]
  <2>1. i \in 1..n /\ i + 1 \in 1..n
    BY <1>1
  <2>2. /\ start[i + 1 + 1] = start[i + 1] + Len(queue[i + 1].payload) + 4
        /\ \A k \in 1..Len(queue[i + 1].payload) + 4 :
             Owed(start[i + 1] + k) = Wire(queue[i + 1])[k]
    BY <1>1, <2>1 DEF Divides
  <2>3. PICK l \in Nat : l = Len(queue[i + 1].payload)
    <3>1. queue[i + 1] \in Frames
      BY <1>1, <2>1
    <3> QED BY <3>1, WireAt
  <2>4. PICK p \in Nat : p = start[i + 1]
    BY <1>6, <2>1
  <2>5. s[i] = p - m /\ s[i + 1] = (p + l + 4) - m
    BY <1>6, <2>1, <2>2, <2>3, <2>4
  <2>s. m <= p
    BY <1>6, <2>1, <2>4
  <2>d. (p - m) + l + 4 = (p + l + 4) - m /\ p - m \in Nat
    BY <2>s, Difference
  <2>6. s[i + 1] = s[i] + l + 4
    BY <2>5, <2>d
  <2>7. ASSUME NEW k \in 1..l + 4
        PROVE  Owed(s[i] + k)' = Wire(queue[i + 1])[k]
    <3>0. k \in Nat
      OBVIOUS
    <3>1. (p - m) + k \in Nat /\ m + ((p - m) + k) = p + k
      BY <2>s, <3>0, BackAgain, Zenon
    <3>2. Owed((p - m) + k)' = Owed(p + k)
      BY <3>1
    <3> QED BY <2>2, <2>3, <2>4, <2>5, <3>2
  <2>8. queue'[i] = queue[i + 1]
    BY <1>3
  <2> QED BY <2>3, <2>6, <2>7, <2>8
<1>11. Len(queue') + 1 = n
  BY <1>1, <1>3
<1>12. Divides(s)'
  BY <1>3, <1>7, <1>8, <1>9, <1>10, <1>11, ZenonT(120) DEF Divides, Wire
<1> QED BY <1>12

\* What Hand hands on is the next frame, unless a branch that loses the
\* synchronisation is taken.
LEMMA HandDivides ==
  ASSUME TypeOK, AtHeader, NEW start, Divides(start),
         NEW channel \in BytesAt(raw_offset + 1), NEW high \in BytesAt(raw_offset + 2),
         NEW low \in BytesAt(raw_offset + 3), NEW nal,
         NEW length, length = high * Radix + low,
         Fits(length), Hand(channel, nal, length), ~upset'
  PROVE  wrong' = wrong /\ raw_offset' <= Len(raw') /\ \E s : Divides(s)'
<1>1. HeaderWhole /\ Consumed(channel, nal, length) = length
  BY DEF Hand
<1>2. PICK a \in Nat, o \in Nat : a = Len(raw) /\ o = raw_offset /\ o < a /\ o + 4 <= a
  <2>1. raw_offset \in Nat /\ Len(raw) \in Nat /\ raw_offset < Len(raw)
    BY DEF TypeOK, AtHeader, Unparsed, raw_length
  <2> QED BY <1>1, <2>1 DEF HeaderWhole, raw_length
<1>3. PICK f : f = queue[1]
  OBVIOUS
<1>4. PICK l \in Nat : l = Len(f.payload)
  BY <1>2, <1>3, NextByte, WireAt
<1>5. /\ queue # <<>> /\ Head(queue) = f /\ f \in Frames
      /\ start[2] = l + 4
      /\ \A k \in 1..l + 4 : o + k <= a => raw[o + k] = Wire(f)[k]
  BY <1>2, <1>3, <1>4, NextByte
<1>6. channel = f.channel /\ high = l \div Radix /\ low = l % Radix
  <2>1. raw[o + 2] = Wire(f)[2] /\ raw[o + 3] = Wire(f)[3] /\ raw[o + 4] = Wire(f)[4]
    <3>1. /\ 2 \in 1..l + 4 /\ 3 \in 1..l + 4 /\ 4 \in 1..l + 4
          /\ o + 2 <= a /\ o + 3 <= a /\ o + 4 <= a
      BY <1>2
    <3> QED BY <1>5, <3>1
  <2>2. /\ BytesAt(raw_offset + 1) = {raw[o + 2]} /\ BytesAt(raw_offset + 2) = {raw[o + 3]}
        /\ BytesAt(raw_offset + 3) = {raw[o + 4]}
    BY <1>2 DEF BytesAt, raw_length
  <2> QED BY <1>4, <1>5, <2>1, <2>2, WireAt
<1>7. length = l
  <2>1. Radix \in Nat /\ l < Radix * Radix
    BY <1>4, <1>5, FramesAssumption, RadixAssumption
  <2> QED BY <1>6, <2>1, LengthBytes
<1>8. o + 4 + l <= a
  BY <1>1, <1>2, <1>7 DEF Fits, raw_length
<1>9. Payload(length) = f.payload
  <2>1. PICK p : p = Payload(length)
    OBVIOUS
  <2>2. p = SubSeq(raw, (o + 4) + 1, (o + 4) + l)
    <3>1. o + 5 = (o + 4) + 1
      OBVIOUS
    <3> QED BY <1>2, <1>7, <1>8, <2>1, <3>1 DEF Payload, raw_length
  <2>3. raw \in Seq(Byte) /\ Len(raw) = a /\ o + 4 \in Nat
    BY <1>2 DEF TypeOK
  <2>4. p \in Seq(Byte) /\ Len(p) = l /\ \A i \in 1..l : p[i] = raw[(o + 4) + i]
    BY <1>8, <2>2, <2>3, Slice
  <2>6. ASSUME NEW i \in 1..l
        PROVE  p[i] = f.payload[i]
    <3>1. (o + 4) + i = o + (i + 4)
      OBVIOUS
    <3>2. p[i] = raw[o + (i + 4)]
      BY <2>4, <3>1
    <3>3. i + 4 \in 1..l + 4 /\ o + (i + 4) <= a
      BY <1>8
    <3>4. raw[o + (i + 4)] = Wire(f)[i + 4]
      BY <1>5, <3>3
    <3>5. Wire(f)[i + 4] = f.payload[i]
      BY <1>4, <1>5, WireAt
    <3> QED BY <3>2, <3>4, <3>5
  <2>7. f.payload \in Seq(Byte)
    BY <1>5, WireAt
  <2>8. PICK q : q = f.payload
    OBVIOUS
  <2>9. q \in Seq(Byte) /\ Len(q) = l /\ \A i \in 1..l : p[i] = q[i]
    BY <1>4, <2>6, <2>7, <2>8, Zenon
  <2>10. p = q
    BY <2>4, <2>9, SameElements, Zenon
  <2> QED BY <2>1, <2>8, <2>10
<1>10. [channel |-> channel, payload |-> Payload(length)] = f
  <2>1. f \in [channel : Byte, payload : Seq(Byte)]
    BY <1>5, FramesAssumption DEF Frame
  <2> QED BY <1>6, <1>9, <2>1
<1>11. wrong' = wrong /\ queue' = Tail(queue)
  <2>1. wrong \in BOOLEAN
    BY DEF TypeOK
  <2> QED BY <1>5, <1>10, <2>1, Zenon DEF Hand
<1>12. raw_offset' = o + 4 + l /\ raw' = raw /\ stream' = stream
  BY <1>1, <1>2, <1>7 DEF Hand
<1>13. raw_offset' <= Len(raw')
  BY <1>2, <1>8, <1>12
<1>14. \E s : Divides(s)'
  <2>1. Len(stream) \in Nat /\ queue \in Seq(Frames)
    BY DEF TypeOK
  <2>2. OwedLen = (a - o) + Len(stream) /\ OwedLen' = (a - (o + 4 + l)) + Len(stream)
    BY <1>2, <1>12 DEF OwedLen
  <2>3. OwedLen \in Int /\ OwedLen' = OwedLen - (l + 4)
    BY <1>2, <1>4, <2>1, <2>2
  <2>4. ASSUME NEW k \in Nat
        PROVE  Owed(k)' = Owed((l + 4) + k)
    <3>1. (o + 4 + l) + k = o + ((l + 4) + k)
      OBVIOUS
    <3> QED BY <1>2, <1>12, <3>1 DEF Owed
  <2>5. l + 4 \in Nat /\ l + 4 = start[2] /\ queue # <<>>
    BY <1>5
  <2> QED BY <1>11, <2>1, <2>3, <2>4, <2>5, TailDivides
<1> QED BY <1>11, <1>13, <1>14

LEMMA InitSync == Init => SyncInv
<1> SUFFICES ASSUME Init
             PROVE  SyncInv
  OBVIOUS
<1>1. queue = <<>> /\ raw = <<>> /\ stream = <<>> /\ raw_offset = 0 /\ ~wrong
  BY DEF Init
<1>2. Len(queue) = 0 /\ Len(raw) = 0 /\ Len(stream) = 0
  BY <1>1, EmptySeq
<1>3. OwedLen = 0
  BY <1>1, <1>2 DEF OwedLen
<1>4. PICK start : start = [i \in 1..1 |-> 0]
  OBVIOUS
<1>5. Divides(start)
  BY <1>2, <1>3, <1>4 DEF Divides
<1> QED BY <1>1, <1>2, <1>5 DEF SyncInv

\* One step per action: a step that does not upset the parser keeps the bytes
\* owed divided into the frames owed, and hands on the next frame or none.
LEMMA NextSync == IInv /\ [Next]_vars => SyncInv'
<1> SUFFICES ASSUME TypeOK, SyncInv, [Next]_vars, ~upset'
             PROVE  ~wrong' /\ raw_offset' <= Len(raw') /\ \E s : Divides(s)'
  BY DEF IInv, SyncInv
<1>1. ~upset
  <2>1. \A f \in Frames : Send(f) => upset' = upset
    BY DEF Send
  <2>2. Recv \/ Exit \/ Skip \/ Restart \/ UNCHANGED vars => ~upset
    BY DEF Recv, Exit, Skip, Restart, history, vars
  <2>3. Header => ~upset
    <3> SUFFICES ASSUME Header
                 PROVE  ~upset
      OBVIOUS
    <3>1. PICK channel, nal, length : Hand(channel, nal, length) \/ Wait(length)
      BY DEF Header
    <3> QED BY <3>1 DEF Hand, Wait
  <2> QED BY <2>1, <2>2, <2>3 DEF Next, Parse
<1>2. ~wrong /\ raw_offset <= Len(raw)
  BY <1>1 DEF SyncInv
<1>3. PICK start : Divides(start)
  BY <1>1 DEF SyncInv
<1>4. /\ raw_offset \in Nat /\ Len(raw) \in Nat /\ Len(stream) \in Nat
      /\ queue \in Seq(Frames)
  BY DEF TypeOK
<1>5. ASSUME UNCHANGED <<stream, raw, raw_offset, queue, wrong>>
      PROVE  ~wrong' /\ raw_offset' <= Len(raw') /\ \E s : Divides(s)'
  <2>1. Divides(start)'
    BY <1>3, <1>5 DEF Divides, OwedLen, Owed, Wire
  <2> QED BY <1>2, <1>5, <2>1
<1>6. ASSUME NEW f \in Frames, Send(f)
      PROVE  ~wrong' /\ raw_offset' <= Len(raw') /\ \E s : Divides(s)'
  <2>1. \E s : Divides(s)'
    BY <1>2, <1>3, <1>6, SendDivides
  <2> QED BY <1>2, <1>6, <2>1 DEF Send
<1>7. ASSUME Recv
      PROVE  ~wrong' /\ raw_offset' <= Len(raw') /\ \E s : Divides(s)'
  <2>1. Divides(start)' /\ raw_offset' <= Len(raw')
    BY <1>2, <1>3, <1>7, RecvDivides
  <2> QED BY <1>2, <1>7, <2>1 DEF Recv
<1>8. CASE Exit
  BY <1>5, <1>8 DEF Exit, history
<1>9. ~Skip
  <2>1. raw_offset < Len(raw) => raw[raw_offset + 1] = MAGIC
    BY <1>3, NextByte
  <2> QED BY <2>1 DEF Skip, AtHeader, Unparsed, raw_length
<1>10. ASSUME Header
       PROVE  ~wrong' /\ raw_offset' <= Len(raw') /\ \E s : Divides(s)'
  <2>1. PICK channel \in BytesAt(raw_offset + 1), high \in BytesAt(raw_offset + 2),
             low \in BytesAt(raw_offset + 3), nal \in BytesAt(raw_offset + 4) :
          \/ /\ Fits(high * Radix + low)
             /\ Hand(channel, nal, high * Radix + low)
          \/ Wait(high * Radix + low)
    BY <1>10 DEF Header
  <2>2. AtHeader
    BY <1>10 DEF Header
  <2>3. PICK length : length = high * Radix + low
    OBVIOUS
  <2>4. CASE Fits(length) /\ Hand(channel, nal, length)
    <3>1. wrong' = wrong /\ raw_offset' <= Len(raw') /\ \E s : Divides(s)'
      BY <1>3, <2>2, <2>3, <2>4, HandDivides
    <3> QED BY <1>2, <3>1
  <2>5. CASE Wait(length)
    BY <1>5, <2>5 DEF Wait
  <2> QED BY <2>1, <2>3, <2>4, <2>5
<1>11. ASSUME Restart
       PROVE  ~wrong' /\ raw_offset' <= Len(raw') /\ \E s : Divides(s)'
  <2>1. raw_offset = Len(raw)
    BY <1>2, <1>4, <1>11 DEF Restart, raw_length
  <2>2. /\ raw' = <<>> /\ Len(raw') = 0 /\ raw_offset' = 0
        /\ stream' = stream /\ queue' = queue /\ wrong' = wrong
    BY <1>11, EmptySeq DEF Restart, history
  <2>3. OwedLen' = OwedLen /\ OwedLen = Len(stream)
    BY <1>4, <2>1, <2>2 DEF OwedLen
  <2>4. ASSUME NEW k \in 1..Len(stream)
        PROVE  Owed(k)' = Owed(k)
    <3>1. Owed(k) = stream[k]
      BY <1>4, <2>1 DEF Owed
    <3>2. Owed(k)' = stream[k]
      BY <1>4, <2>2 DEF Owed
    <3> QED BY <3>1, <3>2
  <2>5. Divides(start)'
    BY <1>3, <1>4, <2>2, <2>3, <2>4, SameDivision
  <2> QED BY <1>2, <2>2, <2>5
<1>12. CASE UNCHANGED vars
  BY <1>5, <1>12 DEF vars
<1> QED BY <1>6, <1>7, <1>8, <1>9, <1>10, <1>11, <1>12 DEF Next, Parse

\* Lines 607-774: for every alphabet, buffer and set of frames, and wherever TCP
\* splits the stream, what is handed on are the frames sent, whole, in order and
\* each once, unless one of the branches that lose the synchronisation is taken.
THEOREM HandsOnFrames == Spec => []FramesInOrder
<1>1. Init => IInv
  BY InitType, InitSync DEF IInv
<1>2. IInv /\ [Next]_vars => IInv'
  BY NextType, NextSync DEF IInv
<1>3. IInv => FramesInOrder
  BY DEF IInv, SyncInv, FramesInOrder
<1> QED BY <1>1, <1>2, <1>3, PTL DEF Spec

-----------------------------------------------------------------------------
(* RtspSession.                                                            *)

\* A piece that an answer or a frame begins with.
Starts(piece) == piece.part \in {"line", "head"}

\* The client waits, for the server to read its request or for what has been sent of the answer.
Awaiting ==
  \/ Len(asked) = 1 /\ asked[1].cmd = at /\ net = <<>> /\ ~playing
  \/ /\ asked = <<>>
     /\ \A i \in 1..Len(net) : net[i].of = at
     /\ playing => at = 4
     /\ at # 4 => \A i \in 2..Len(net) : ~Starts(net[i])
     /\ net # <<>> => Starts(net[1])

StepInv ==
  /\ SessionTypeOK
  /\ stage \in {"send", "recv"} => at # 5 /\ cseq < at
  /\ ~cut => /\ stage = "send" => asked = <<>> /\ net = <<>> /\ ~playing
             /\ stage = "recv" => Awaiting
             /\ stage = "stream" => asked = <<>> /\ (net # <<>> => Starts(net[1]))

\* An answer begins with its status line, and nothing else in it looks like one.
LEMMA AnswerIs ==
  ASSUME NEW cmd \in 1..4, NEW kind \in AllKinds, NEW r, r = AnswerTo(cmd, kind)
  PROVE  /\ r \in Seq(Piece) /\ Len(r) \in Nat \ {0}
         /\ \A i \in 1..Len(r) : r[i].of = cmd /\ (Starts(r[i]) <=> i = 1)
<1>1. PICK parts : parts = PartsOf(cmd, kind)
  OBVIOUS
<1>2. r = [i \in 1..Len(parts) |-> [of |-> cmd, part |-> parts[i], kind |-> kind]]
  BY <1>1 DEF AnswerTo
<1>3. /\ Len(parts) \in Nat \ {0} /\ \A i \in 1..Len(parts) : parts[i] \in Pieces
      /\ \A i \in 1..Len(parts) : parts[i] \in {"line", "head"} <=> i = 1
  <2>1. CASE parts = <<"line", "headers">>
    BY <2>1 DEF Pieces
  <2>2. CASE parts = <<"line", "headers", "sets", "rest">>
    BY <2>2 DEF Pieces
  <2>3. CASE parts = <<"line", "headers", "sdp">>
    BY <2>3 DEF Pieces
  <2> QED
    BY <1>1, <2>1, <2>2, <2>3 DEF PartsOf
<1>4. \A i \in 1..Len(parts) : [of |-> cmd, part |-> parts[i], kind |-> kind] \in Piece
  BY <1>3 DEF Piece
<1>5. r \in Seq(Piece) /\ Len(r) = Len(parts)
  BY <1>2, <1>3, <1>4
<1>6. ASSUME NEW i \in 1..Len(r) PROVE r[i].of = cmd /\ (Starts(r[i]) <=> i = 1)
  BY <1>2, <1>3, <1>5 DEF Starts
<1> QED
  BY <1>3, <1>5, <1>6

LEMMA FrameIs ==
  /\ MediaFrame \in Seq(Piece) /\ Len(MediaFrame) = 2
  /\ MediaFrame[1].of = 4 /\ MediaFrame[2].of = 4 /\ Starts(MediaFrame[1])
<1>1. /\ [of |-> 4, part |-> "head", kind |-> "full"] \in Piece
      /\ [of |-> 4, part |-> "data", kind |-> "full"] \in Piece
  BY DEF Piece, Pieces, AllKinds
<1> QED
  BY <1>1 DEF MediaFrame, Starts

\* A request that the server reads.
LEMMA FirstIs ==
  ASSUME NEW S, NEW p \in Seq(S), p # <<>>
  PROVE  /\ Len(p) \in Nat \ {0} /\ Head(p) = p[1] /\ Head(p) \in S /\ Tail(p) \in Seq(S)
         /\ Len(p) = 1 => Tail(p) = <<>>
<1>1. Len(p) \in Nat \ {0} /\ Head(p) = p[1] /\ Head(p) \in S
  OBVIOUS
<1>2. Tail(p) \in Seq(S) /\ Len(Tail(p)) = Len(p) - 1
  OBVIOUS
<1>3. Len(p) = 1 => Tail(p) = <<>>
  <2> SUFFICES ASSUME Len(p) = 1 PROVE Tail(p) = <<>>
    OBVIOUS
  <2>1. Len(Tail(p)) = 0
    BY <1>2
  <2> QED
    BY <1>2, <2>1, EmptySeq
<1> QED
  BY <1>1, <1>2, <1>3

\* What is on the net when more is sent.
LEMMA SentIs ==
  ASSUME NEW p \in Seq(Piece), NEW q \in Seq(Piece), NEW r, r = p \o q
  PROVE  /\ r \in Seq(Piece) /\ Len(r) = Len(p) + Len(q) /\ Len(p) \in Nat /\ Len(q) \in Nat
         /\ \A i \in 1..Len(p) : r[i] = p[i]
         /\ \A i \in Len(p) + 1..Len(p) + Len(q) : r[i] = q[i - Len(p)]
         /\ p = <<>> => r = q
<1>1. r \in Seq(Piece) /\ Len(r) = Len(p) + Len(q) /\ Len(p) \in Nat /\ Len(q) \in Nat
  OBVIOUS
<1>2. \A i \in 1..Len(p) + Len(q) : r[i] = IF i <= Len(p) THEN p[i] ELSE q[i - Len(p)]
  OBVIOUS
<1>3. \A i \in 1..Len(p) : r[i] = p[i]
  BY <1>1, <1>2
<1>4. \A i \in Len(p) + 1..Len(p) + Len(q) : r[i] = q[i - Len(p)]
  BY <1>1, <1>2
<1>5. p = <<>> => r = q
  OBVIOUS
<1> QED
  BY <1>1, <1>3, <1>4, <1>5

LEMMA StepInvInit == SessionInit => StepInv
<1> SUFFICES ASSUME SessionInit PROVE StepInv
  OBVIOUS
<1>1. SessionTypeOK
  <2>1. <<>> \in Seq(Piece) /\ <<>> \in Seq(Request) /\ 0 \in 0..SessionFrames
    BY SessionAssumption
  <2> QED
    <3>1. params \in BOOLEAN /\ closed \in BOOLEAN /\ playing \in BOOLEAN /\ cut \in BOOLEAN
      BY Zenon DEF SessionInit
    <3>2. /\ at \in 1..5 /\ stage \in {"send", "recv", "stream", "stopped", "crashed"}
          /\ cseq \in 0..4 /\ id \in {"none", "given"} /\ frames \in 0..SessionFrames
      BY <2>1 DEF SessionInit
    <3>3. asked \in Seq(Request) /\ net \in Seq(Piece)
      BY <2>1, Zenon DEF SessionInit
    <3> QED
      BY <3>1, <3>2, <3>3 DEF SessionTypeOK
<1> QED
  BY <1>1 DEF SessionInit, StepInv

LEMMA SendRequestStep ==
  ASSUME StepInv, SendRequest
  PROVE  StepInv'
<1>1. /\ SessionTypeOK /\ at # 5 /\ cseq < at /\ (~cut => asked = <<>> /\ net = <<>> /\ ~playing)
      /\ stage = "send" /\ stage' = "recv"
      /\ at' = at /\ cseq' = cseq /\ params' = params /\ id' = id /\ net' = net /\ closed' = closed
      /\ playing' = playing /\ frames' = frames /\ cut' = cut
      /\ asked' = Append(asked, [cmd |-> at, id |-> id])
  BY DEF StepInv, SendRequest, server
<1>2. [cmd |-> at, id |-> id] \in Request
  BY <1>1 DEF SessionTypeOK, Request
<1>3. SessionTypeOK'
  BY <1>1, <1>2 DEF SessionTypeOK
<1>4. asked = <<>> => Len(asked') = 1 /\ asked'[1].cmd = at
  BY <1>1, <1>2
<1>5. ~cut' => Awaiting'
  BY <1>1, <1>4 DEF Awaiting
<1> QED
  BY <1>1, <1>3, <1>5 DEF StepInv

LEMMA AnswerStep ==
  ASSUME StepInv, Answer
  PROVE  StepInv'
<1>1. /\ SessionTypeOK /\ asked # <<>> /\ asked' = Tail(asked)
      /\ at' = at /\ stage' = stage /\ cseq' = cseq /\ params' = params /\ id' = id /\ closed' = closed
      /\ frames' = frames /\ cut' = cut
  BY DEF StepInv, Answer
<1>2. /\ asked \in Seq(Request) /\ Len(asked) \in Nat \ {0}
      /\ Head(asked) = asked[1] /\ Head(asked) \in Request
      /\ asked' \in Seq(Request) /\ (Len(asked) = 1 => asked' = <<>>)
      /\ net \in Seq(Piece)
  <2>1. asked \in Seq(Request) /\ net \in Seq(Piece)
    BY <1>1 DEF SessionTypeOK
  <2>2. /\ Len(asked) \in Nat \ {0} /\ Head(asked) = asked[1] /\ Head(asked) \in Request /\ Tail(asked) \in Seq(Request)
        /\ Len(asked) = 1 => Tail(asked) = <<>>
    BY <1>1, <2>1, FirstIs
  <2> QED
    BY <1>1, <2>1, <2>2
<1>3. PICK kind \in KindsOf(Head(asked).cmd) :
        net' = net \o AnswerTo(Head(asked).cmd, kind) /\ playing' = (Head(asked).cmd = 4 /\ kind = "full")
  BY DEF Answer
<1>4. kind \in AllKinds /\ Head(asked).cmd \in 1..4
  BY <1>2, SessionAssumption DEF KindsOf, Request
<1>5. PICK r, cmd : cmd \in 1..4 /\ r = AnswerTo(cmd, kind) /\ cmd = Head(asked).cmd
  BY <1>4
<1>6. /\ r \in Seq(Piece) /\ Len(r) \in Nat \ {0}
      /\ \A i \in 1..Len(r) : r[i].of = cmd /\ (Starts(r[i]) <=> i = 1)
  <2>1. kind \in AllKinds /\ cmd \in 1..4 /\ r = AnswerTo(cmd, kind)
    BY <1>4, <1>5
  <2> QED
    BY ONLY <2>1, AnswerIs
<1>7. net' = net \o r
  BY <1>3, <1>5
<1>8. net' \in Seq(Piece) /\ (net = <<>> => net' = r)
  BY <1>2, <1>6, <1>7, SentIs
<1>9. SessionTypeOK'
  BY <1>1, <1>2, <1>3, <1>8 DEF SessionTypeOK
<1>10. ASSUME ~cut' PROVE stage # "send" /\ stage # "stream" /\ (stage = "recv" => Awaiting')
  <2>1. stage # "send" /\ stage # "stream"
    BY <1>1, <1>10 DEF StepInv
  <2>2. ASSUME stage = "recv" PROVE Awaiting'
    <3>1. Len(asked) = 1 /\ asked[1].cmd = at /\ net = <<>>
      BY <1>1, <1>10, <2>2 DEF StepInv, Awaiting
    <3>2. asked' = <<>> /\ net' = r /\ cmd = at
      BY <1>2, <1>5, <1>8, <3>1
    <3>3. \A i \in 2..Len(r) : i \in 1..Len(r) /\ i # 1
      BY <1>6
    <3>4. \A i \in 2..Len(r) : ~Starts(r[i])
      BY <1>6, <3>3
    <3>5. Starts(r[1]) /\ \A i \in 1..Len(r) : r[i].of = at
      BY <1>6, <3>2
    <3>6. playing' => at = 4
      BY <1>3, <1>5, <3>2
    <3> QED
      BY <1>1, <3>2, <3>4, <3>5, <3>6 DEF Awaiting, Starts
  <2> QED
    BY <2>1, <2>2
<1> QED
  BY <1>1, <1>9, <1>10 DEF StepInv

LEMMA SendFrameStep ==
  ASSUME StepInv, SendFrame
  PROVE  StepInv'
<1>1. /\ SessionTypeOK /\ playing /\ frames' = frames + 1 /\ frames < SessionFrames
      /\ at' = at /\ stage' = stage /\ cseq' = cseq /\ params' = params /\ id' = id /\ asked' = asked
      /\ closed' = closed /\ playing' = playing /\ cut' = cut
      /\ net' = net \o MediaFrame
  BY DEF StepInv, SendFrame
<1>2. net \in Seq(Piece) /\ Len(net) \in Nat
  BY <1>1 DEF SessionTypeOK
<1>3. PICK m : m = MediaFrame
  OBVIOUS
<1>4. m \in Seq(Piece) /\ Len(m) = 2 /\ m[1].of = 4 /\ m[2].of = 4 /\ Starts(m[1])
  BY <1>3, FrameIs
<1>5. /\ net' \in Seq(Piece) /\ Len(net') = Len(net) + 2
      /\ \A i \in 1..Len(net) : net'[i] = net[i]
      /\ \A i \in Len(net) + 1..Len(net) + 2 : net'[i] = m[i - Len(net)]
      /\ net = <<>> => net' = m
  <2>1. PICK p, q : p = net /\ q = net'
    OBVIOUS
  <2>2. p \in Seq(Piece) /\ q = p \o m
    BY <1>1, <1>2, <1>3, <2>1
  <2>3. /\ q \in Seq(Piece) /\ Len(q) = Len(p) + Len(m)
        /\ \A i \in 1..Len(p) : q[i] = p[i]
        /\ \A i \in Len(p) + 1..Len(p) + Len(m) : q[i] = m[i - Len(p)]
        /\ p = <<>> => q = m
    <3>1. p \in Seq(Piece) /\ m \in Seq(Piece)
      BY <1>4, <2>2
    <3>2. q \in Seq(Piece) /\ Len(q) = Len(p) + Len(m) /\ \A i \in 1..Len(p) : q[i] = p[i]
      BY <2>2, <3>1, SentIs
    <3>3. \A i \in Len(p) + 1..Len(p) + Len(m) : q[i] = m[i - Len(p)]
      BY <2>2, <3>1, SentIs
    <3>4. p = <<>> => q = m
      BY <2>2, <3>1, SentIs
    <3> QED
      BY <3>2, <3>3, <3>4
  <2> QED
    BY <1>4, <2>1, <2>3
<1>6. SessionTypeOK'
  BY <1>1, <1>5, SessionAssumption DEF SessionTypeOK
<1>7. (net # <<>> => Starts(net[1])) => Starts(net'[1])
  <2>1. CASE net = <<>>
    BY <1>4, <1>5, <2>1
  <2>2. CASE net # <<>>
    <3>1. 1 \in 1..Len(net)
      BY <1>2, <2>2
    <3> QED
      BY <1>5, <2>2, <3>1
  <2> QED
    BY <2>1, <2>2
<1>8. ASSUME ~cut', stage = "recv" PROVE Awaiting'
  <2>1. /\ asked = <<>> /\ (\A i \in 1..Len(net) : net[i].of = at) /\ at = 4
        /\ net # <<>> => Starts(net[1])
    BY <1>1, <1>8 DEF StepInv, Awaiting
  <2>2. ASSUME NEW i \in 1..Len(net') PROVE net'[i].of = at
    <3>1. CASE i \in 1..Len(net)
      BY <1>5, <2>1, <3>1
    <3>2. CASE i \notin 1..Len(net)
      <4>1. i \in Len(net) + 1..Len(net) + 2 /\ (i - Len(net) = 1 \/ i - Len(net) = 2)
        BY <1>2, <1>5, <3>2
      <4> QED
        BY <1>4, <1>5, <2>1, <4>1
    <3> QED
      BY <3>1, <3>2
  <2> QED
    BY <1>1, <1>7, <2>1, <2>2 DEF Awaiting, Starts
<1>9. ~cut' => stage # "send" /\ (stage = "stream" => asked = <<>> /\ Starts(net'[1]))
  BY <1>1, <1>7 DEF StepInv
<1> QED
  BY <1>1, <1>6, <1>8, <1>9 DEF StepInv, Starts

\* What a recv leaves, and what the command makes of what it took.
LEMMA RecvAnswerStep ==
  ASSUME StepInv, RecvAnswer
  PROVE  StepInv'
<1>1. /\ SessionTypeOK /\ stage = "recv" /\ at # 5 /\ cseq < at
      /\ asked' = asked /\ closed' = closed /\ playing' = playing /\ frames' = frames
      /\ (~cut => Awaiting)
  BY DEF StepInv, RecvAnswer, server
<1>2. PICK n \in 1..Len(net) :
        LET got == SubSeq(net, 1, n)
            out == Outcome(got)
        IN  /\ Returns(got)
            /\ net' = Left(n)
            /\ cut' = (cut \/ Cuts(n))
            /\ IF RunsAway(got)
               THEN stage' = "crashed" /\ UNCHANGED <<at, cseq, params, id>>
               ELSE /\ cseq' = cseq + out.counted
                    /\ params' = out.params
                    /\ id' = out.id
                    /\ IF Checked /\ out.ret # 0 THEN stage' = "stopped" /\ UNCHANGED at
                       ELSE /\ at' = at + 1
                            /\ stage' \in IF at = 4 THEN Started ELSE {"send"}
  BY DEF RecvAnswer
<1>3. PICK got, out : got = SubSeq(net, 1, n) /\ out = Outcome(got)
  OBVIOUS
<1>4. /\ net' = Left(n) /\ cut' = (cut \/ Cuts(n))
      /\ \/ stage' = "crashed" /\ UNCHANGED <<at, cseq, params, id>>
         \/ /\ cseq' = cseq + out.counted /\ params' = out.params /\ id' = out.id
            /\ \/ stage' = "stopped" /\ UNCHANGED at
               \/ at' = at + 1 /\ stage' \in IF at = 4 THEN Started ELSE {"send"}
  BY <1>2, <1>3
<1>5. at \in 1..4 /\ cseq \in 0..4 /\ params \in BOOLEAN /\ id \in {"none", "given"} /\ net \in Seq(Piece) /\ cut \in BOOLEAN
      /\ Len(net) \in Nat
  BY <1>1 DEF SessionTypeOK
<1>6. out.counted \in {0, 1} /\ out.params \in BOOLEAN /\ out.id \in {"none", "given"}
  <2>1. /\ Failed.counted = 1 /\ Failed.params = params /\ Failed.id = id
        /\ Done.counted = 1 /\ Done.params = params /\ Done.id = id
    BY DEF Failed, Done
  <2>2. out \in {Failed, Done, Describe(got), SetUp(got)}
    <3>1. Commands[1] = "OPTIONS" /\ Commands[2] = "DESCRIBE" /\ Commands[3] = "SETUP" /\ Commands[4] = "PLAY"
      BY DEF Commands
    <3>2. at = 1 \/ at = 2 \/ at = 3 \/ at = 4
      BY <1>5
    <3>3. out \in {Options(got), Describe(got), SetUp(got), Play(got)}
      BY <1>3, <3>1, <3>2 DEF Outcome
    <3> QED
      BY <3>3 DEF Options, Play
  <2>3. /\ Describe(got).counted \in {0, 1} /\ Describe(got).params \in BOOLEAN /\ Describe(got).id = id
    BY <1>5 DEF Describe, Failed, Done
  <2>4. SetUp(got).counted \in {0, 1} /\ SetUp(got).params = params /\ SetUp(got).id \in {"none", "given"}
    BY <1>5 DEF SetUp, Failed, Done
  <2> QED
    BY <1>5, <2>1, <2>2, <2>3, <2>4
<1>7. /\ at' \in 1..5 /\ cseq' \in 0..4 /\ params' \in BOOLEAN /\ id' \in {"none", "given"}
      /\ stage' \in {"send", "stream", "stopped", "crashed"}
      /\ stage' = "send" => at \in 1..3 /\ at' = at + 1 /\ cseq' < at'
      /\ stage' = "stream" => at = 4
  BY <1>1, <1>4, <1>5, <1>6 DEF Started
<1>8. net' = SubSeq(net, n + 1, Len(net)) /\ cut' \in BOOLEAN
  BY <1>4, <1>5 DEF Left, Cuts
<1>9. /\ net' \in Seq(Piece) /\ Len(net') = Len(net) - n
      /\ (n = Len(net) => net' = <<>>) /\ (net' # <<>> => n < Len(net) /\ net'[1] = net[n + 1])
  BY <1>5, <1>8
<1>10. SessionTypeOK'
  BY <1>1, <1>7, <1>8, <1>9 DEF SessionTypeOK
<1>11. ASSUME ~cut'
       PROVE  /\ stage' = "send" => asked' = <<>> /\ net' = <<>> /\ ~playing'
              /\ stage' = "stream" => asked' = <<>> /\ (net' # <<>> => Starts(net'[1]))
  <2>1. ~cut /\ ~Cuts(n)
    BY <1>4, <1>11
  <2>2. net # <<>>
    BY <1>5
  <2>3. /\ asked = <<>> /\ (playing => at = 4)
        /\ (at # 4 => \A i \in 2..Len(net) : ~Starts(net[i]))
    BY <1>1, <2>1, <2>2 DEF Awaiting
  <2>4. net' # <<>> => Starts(net'[1])
    BY <1>9, <2>1 DEF Cuts, Starts
  <2>5. ASSUME at # 4 PROVE net' = <<>>
    <3>1. n < Len(net) => n + 1 \in 2..Len(net)
      BY <1>5
    <3> QED
      BY <1>9, <2>3, <2>4, <2>5, <3>1
  <2> QED
    BY <1>1, <1>7, <2>3, <2>4, <2>5
<1> QED
  BY <1>7, <1>10, <1>11 DEF StepInv, Starts

LEMMA StepInvStep == StepInv /\ [SessionNext]_session_vars => StepInv'
<1> SUFFICES ASSUME StepInv, [SessionNext]_session_vars PROVE StepInv'
  OBVIOUS
<1>1. CASE UNCHANGED session_vars
  BY <1>1 DEF session_vars, StepInv, SessionTypeOK, Awaiting, Starts
<1>2. CASE SendRequest
  BY <1>2, SendRequestStep
<1>3. CASE RecvAnswer
  BY <1>3, RecvAnswerStep
<1>4. CASE ServerGone
  BY <1>4 DEF ServerGone, server, StepInv, SessionTypeOK
<1>5. CASE Answer
  BY <1>5, AnswerStep
<1>6. CASE SendFrame
  BY <1>6, SendFrameStep
<1>7. CASE Close
  BY <1>7 DEF Close, StepInv, SessionTypeOK, Awaiting, Starts
<1> QED
  BY <1>1, <1>2, <1>3, <1>4, <1>5, <1>6, <1>7 DEF SessionNext, Client

\* The client never compares a CSeq, and yet, as long as no recv has split an answer or a frame,
\* the status it looks at is that of the request it has just sent and the reader of frames starts
\* where a frame begins: whatever the server refuses, and however many frames it sends.
THEOREM ClientInStep == SessionSpec => []InStep
<1>1. SessionInit => StepInv
  BY StepInvInit
<1>2. StepInv /\ [SessionNext]_session_vars => StepInv'
  BY StepInvStep
<1>3. StepInv => InStep
  <2> SUFFICES ASSUME StepInv PROVE InStep
    OBVIOUS
  <2>1. ASSUME ~cut, stage = "recv"
        PROVE  /\ \A i \in 1..Len(asked) : asked[i].cmd = at
               /\ \A i \in 1..Len(net) : net[i].of = at
               /\ net # <<>> => Starts(net[1])
    <3>1. Awaiting
      BY <2>1 DEF StepInv
    <3>2. CASE Len(asked) = 1 /\ asked[1].cmd = at /\ net = <<>>
      <4>1. \A i \in 1..Len(asked) : i = 1
        BY <3>2
      <4>2. 1..Len(net) = {}
        BY <3>2
      <4> QED
        BY <3>2, <4>1, <4>2
    <3>3. CASE /\ asked = <<>> /\ \A i \in 1..Len(net) : net[i].of = at
               /\ net # <<>> => Starts(net[1])
      <4>1. 1..Len(asked) = {}
        BY <3>3
      <4> QED
        BY <3>3, <4>1
    <3> QED
      BY <3>1, <3>2, <3>3 DEF Awaiting
  <2> QED
    BY <2>1 DEF StepInv, InStep, Starts
<1> QED
  BY <1>1, <1>2, <1>3, PTL DEF SessionSpec
=============================================================================
