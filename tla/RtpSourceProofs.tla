-------------------------- MODULE RtpSourceProofs --------------------------
(***************************************************************************)
(* What is proved of RtpSource, for every range of sequence numbers, every   *)
(* stream and every way the network treats it: the type invariant, that      *)
(* every packet buffer is in one place, whatever is read, dropped, rejected, *)
(* used or stopped, that the extended sequence numbers are right, and that   *)
(* the client gets whole frames in their order, where no loss is overlooked. *)
(***************************************************************************)
EXTENDS RtpSource, FiniteSetTheorems, SequenceTheorems, TLAPS

\* Where the program is, and what it has been told.
Flagged == [begins : BOOLEAN, completes : BOOLEAN, loss : BOOLEAN]
Control ==
  /\ layout \in Layouts /\ tcp \in BOOLEAN /\ sent \in 0..Len(layout)
  /\ flight \subseteq 1..sent /\ copied \subseteq 1..sent
  /\ expected \in 0..SeqNums - 1 \cup {NULL}
  /\ {needDelivery, awaiting, nextTask, reading, odd} \subseteq BOOLEAN
  /\ needDelivery \/ nextTask => awaiting
  /\ ~(needDelivery /\ nextTask)
  /\ flags \in Flagged
  /\ pc \in {"idle", "inject", "deliver", "client"}
  /\ hand # NULL <=> pc = "inject"

\* The list and the packets in it that are young: each packet once, each buffer once.
Item(n) == [pos : 1..n, buf : Nat, used : 0..1, first : BOOLEAN]
Waiting(l) == {l[i].pos : i \in 1..Len(l)}
InList(l) == {l[i].buf : i \in 1..Len(l)}
ListSound(l, y) ==
  /\ \A i, j \in 1..Len(l) : i # j => l[i].buf # l[j].buf /\ l[i].pos # l[j].pos
  /\ \A i \in 1..Len(l) : l[i].used = 1 => layout[l[i].pos] = "pair"
  /\ y \in Seq(Waiting(l))
  /\ \A i, j \in 1..Len(y) : i # j => y[i] # y[j]

Queue == list \in Seq(Item(sent)) /\ ListSound(list, young)

\* The buffers U are in use, and the memory m has no others but a free one.
MemoryType == [heap : SUBSET Nat, saved : Nat \cup {NULL}, free : BOOLEAN]
Spare(m) == IF m.free THEN {m.saved} \ {NULL} ELSE {}
Accounted(U, m) ==
  /\ m \in MemoryType /\ IsFiniteSet(m.heap)
  /\ m.saved # NULL => m.saved \in m.heap
  /\ m.heap = U \cup Spare(m)
  /\ U \cap Spare(m) = {}

\* A buffer that is read into, and one in the hands of a handler, are not elsewhere.
Apart(L, r, h) ==
  /\ r \in Nat \cup {NULL} /\ h \in Nat \cup {NULL}
  /\ r # NULL => r \notin L /\ r # h
  /\ h # NULL => h \notin L
InUse(L, r, h) == L \cup ({r, h} \ {NULL})

MemoryInv ==
  /\ Apart(Listed, inProgress, hand)
  /\ Accounted(InUse(Listed, inProgress, hand), Memory)

IInv == Control /\ Queue /\ MemoryInv

-----------------------------------------------------------------------------
(* Memory.                                                                  *)

LEMMA NullIsNoNumber == NULL \notin Nat
BY NullAssumption

LEMMA SaysMemory ==
  ASSUME NEW m \in MemoryType, Has(m)
  PROVE  Memory' = m
BY DEF Has, Memory, MemoryType

\* A buffer in use that is freed is gone, or is the spare one.
LEMMA FreeAccounts ==
  ASSUME NEW U, NEW m, Accounted(U, m), NEW b \in U
  PROVE  Accounted(U \ {b}, FreePacket(m, b))
<1>0. /\ m \in MemoryType /\ m.heap \in SUBSET Nat /\ IsFiniteSet(m.heap) /\ m.free \in BOOLEAN
      /\ m.saved \in Nat \cup {NULL} /\ (m.saved # NULL => m.saved \in m.heap)
      /\ m.heap = U \cup Spare(m) /\ U \cap Spare(m) = {}
  BY DEF Accounted, MemoryType
<1>1. b \in Nat /\ b # NULL
  BY <1>0, NullIsNoNumber
<1>2. CASE b # m.saved
  <2> DEFINE n == [m EXCEPT !.heap = @ \ {b}]
  <2>1. FreePacket(m, b) = n
    BY <1>2 DEF FreePacket
  <2>2. n.heap = m.heap \ {b} /\ n.saved = m.saved /\ n.free = m.free /\ n \in MemoryType
    BY <1>0 DEF MemoryType
  <2> HIDE DEF n
  <2>3. IsFiniteSet(n.heap)
    <3>1. IsFiniteSet(m.heap \ {b})
      BY <1>0, FS_RemoveElement
    <3>2. QED
      BY <2>2, <3>1
  <2>4. Spare(n) = Spare(m)
    BY <2>2 DEF Spare
  <2>5. b \notin Spare(m)
    BY <1>2 DEF Spare
  <2>6. n.heap = (U \ {b}) \cup Spare(n) /\ (U \ {b}) \cap Spare(n) = {}
    BY <1>0, <2>2, <2>4, <2>5
  <2>7. n.saved # NULL => n.saved \in n.heap
    BY <1>0, <1>2, <2>2
  <2>8. QED
    BY <2>1, <2>2, <2>3, <2>6, <2>7 DEF Accounted
<1>3. CASE b = m.saved
  <2> DEFINE n == [m EXCEPT !.free = TRUE]
  <2>1. FreePacket(m, b) = n
    BY <1>3 DEF FreePacket
  <2>2. n.heap = m.heap /\ n.saved = m.saved /\ n.free = TRUE /\ n \in MemoryType
    BY <1>0 DEF MemoryType
  <2> HIDE DEF n
  <2>3. Spare(n) = {b}
    BY <1>1, <1>3, <2>2 DEF Spare
  <2>4. Spare(m) = {}
    <3>1. m.free => Spare(m) = {b}
      BY <1>1, <1>3 DEF Spare
    <3>2. ~m.free
      BY <1>0, <3>1
    <3>3. QED
      BY <3>2 DEF Spare
  <2>5. n.heap = (U \ {b}) \cup Spare(n) /\ (U \ {b}) \cap Spare(n) = {}
    BY <1>0, <2>2, <2>3, <2>4
  <2>6. QED
    BY <1>0, <2>1, <2>2, <2>5 DEF Accounted
<1>4. QED
  BY <1>2, <1>3

\* There is a number that no buffer has.
LEMMA NewBufferIsNew ==
  ASSUME IsFiniteSet(heap), heap \subseteq Nat
  PROVE  NewBuffer \in Nat /\ NewBuffer \notin heap
<1> DEFINE n == Cardinality(heap)
<1>1. n \in Nat
  BY FS_CardinalityType
<1>2. IsFiniteSet(1..n + 1) /\ Cardinality(1..n + 1) = n + 1
  BY <1>1, FS_Interval
<1>3. \E b \in 1..n + 1 : b \notin heap
  <2> SUFFICES ASSUME 1..n + 1 \subseteq heap
               PROVE  FALSE
    OBVIOUS
  <2>1. Cardinality(1..n + 1) <= n
    BY FS_Subset
  <2>2. QED
    BY <1>1, <1>2, <2>1
<1>4. NewBuffer \in 1..n + 1 /\ NewBuffer \notin heap
  BY <1>3 DEF NewBuffer
<1>5. QED
  BY <1>1, <1>4

\* The buffer that getFreePacket gives was not in use.
LEMMA GetAccounts ==
  ASSUME NEW U, Accounted(U, Memory)
  PROVE  /\ GetFreePacket.b \in Nat /\ GetFreePacket.b \notin U
         /\ Accounted(U \cup {GetFreePacket.b}, GetFreePacket.m)
<1>0. /\ Memory \in MemoryType
      /\ heap \in SUBSET Nat /\ IsFiniteSet(heap) /\ savedFree \in BOOLEAN
      /\ saved \in Nat \cup {NULL} /\ (saved # NULL => saved \in heap)
      /\ heap = U \cup Spare(Memory) /\ U \cap Spare(Memory) = {}
      /\ Memory.heap = heap /\ Memory.saved = saved /\ Memory.free = savedFree
  BY DEF Accounted, MemoryType, Memory
<1>1. NewBuffer \in Nat /\ NewBuffer \notin heap /\ IsFiniteSet(heap \cup {NewBuffer})
  BY <1>0, NewBufferIsNew, FS_AddElement
<1>2. CASE saved = NULL
  <2> DEFINE n == [heap |-> heap \cup {NewBuffer}, saved |-> NewBuffer, free |-> FALSE]
  <2>1. GetFreePacket.m = n /\ GetFreePacket.b = NewBuffer
    BY <1>2 DEF GetFreePacket
  <2>2. n \in MemoryType /\ Spare(n) = {}
    BY <1>0, <1>1 DEF MemoryType, Spare
  <2>3. Spare(Memory) = {}
    BY <1>0, <1>2 DEF Spare
  <2>4. Accounted(U \cup {NewBuffer}, n)
    BY <1>0, <1>1, <2>2, <2>3 DEF Accounted
  <2>5. QED
    BY <1>0, <1>1, <2>1, <2>4
<1>3. CASE saved # NULL /\ savedFree
  <2> DEFINE n == [Memory EXCEPT !.free = FALSE]
  <2>1. GetFreePacket.m = n /\ GetFreePacket.b = saved
    BY <1>3 DEF GetFreePacket
  <2>2. n \in MemoryType /\ n.heap = heap /\ n.saved = saved /\ Spare(n) = {}
    BY <1>0 DEF MemoryType, Memory, Spare
  <2>3. Spare(Memory) = {saved}
    BY <1>0, <1>3 DEF Spare
  <2> HIDE DEF n
  <2>4. Accounted(U \cup {saved}, n)
    BY <1>0, <1>3, <2>2, <2>3 DEF Accounted
  <2>5. QED
    BY <1>0, <1>3, <2>1, <2>3, <2>4
<1>4. CASE saved # NULL /\ ~savedFree
  <2> DEFINE n == [Memory EXCEPT !.heap = @ \cup {NewBuffer}]
  <2>1. GetFreePacket.m = n /\ GetFreePacket.b = NewBuffer
    BY <1>4 DEF GetFreePacket
  <2>2. n \in MemoryType /\ n.heap = heap \cup {NewBuffer} /\ n.saved = saved /\ Spare(n) = {}
    BY <1>0, <1>1, <1>4 DEF MemoryType, Memory, Spare
  <2>3. Spare(Memory) = {}
    BY <1>0, <1>4 DEF Spare
  <2> HIDE DEF n
  <2>4. Accounted(U \cup {NewBuffer}, n)
    BY <1>0, <1>1, <1>4, <2>2, <2>3 DEF Accounted
  <2>5. QED
    BY <1>0, <1>1, <2>1, <2>4
<1>5. QED
  BY <1>0, <1>2, <1>3, <1>4

\* A read goes on into the buffer it has begun with, or takes one that was not in use.
LEMMA ReadBufferAccounts ==
  ASSUME MemoryInv
  PROVE  /\ ReadBuffer.b \in Nat /\ ReadBuffer.b \notin Listed /\ ReadBuffer.b # hand
         /\ Accounted(InUse(Listed, ReadBuffer.b, hand), ReadBuffer.m)
<1> DEFINE U == InUse(Listed, inProgress, hand)
<1>0. Apart(Listed, inProgress, hand) /\ Accounted(U, Memory)
  BY DEF MemoryInv
<1>1. CASE inProgress # NULL
  BY <1>0, <1>1 DEF ReadBuffer, Apart
<1>2. CASE inProgress = NULL
  <2>1. /\ GetFreePacket.b \in Nat /\ GetFreePacket.b \notin U
        /\ Accounted(U \cup {GetFreePacket.b}, GetFreePacket.m)
    BY <1>0, GetAccounts
  <2>2. ReadBuffer = GetFreePacket
    BY <1>2 DEF ReadBuffer
  <2>3. GetFreePacket.b # NULL
    BY <2>1, NullIsNoNumber
  <2>4. GetFreePacket.b # hand
    BY <2>1, <2>3 DEF InUse
  <2>5. U \cup {GetFreePacket.b} = InUse(Listed, GetFreePacket.b, hand)
    BY <1>2, <2>3 DEF InUse
  <2>6. QED
    BY <2>1, <2>2, <2>4, <2>5 DEF InUse
<1>3. QED
  BY <1>1, <1>2

\* Emptying the list leaves what is used elsewhere.
LEMMA EmptiedAccounts ==
  ASSUME NEW U, NEW m, Accounted(U, m), Listed \subseteq U
  PROVE  Accounted(U \ Listed, Emptied(m))
<1>0. /\ m \in MemoryType /\ m.heap \in SUBSET Nat /\ IsFiniteSet(m.heap) /\ m.free \in BOOLEAN
      /\ m.heap = U \cup Spare(m) /\ U \cap Spare(m) = {}
  BY DEF Accounted, MemoryType
<1> DEFINE n == Emptied(m)
<1>1. /\ n.heap = m.heap \ (Listed \cup Unlisted(m)) /\ n.saved = NULL /\ n.free = m.free
      /\ n \in MemoryType
  BY <1>0 DEF Emptied, MemoryType
<1> HIDE DEF n
<1>2. Spare(n) = {}
  BY <1>1 DEF Spare
<1>3. Unlisted(m) \ {NULL} = Spare(m) /\ NULL \notin m.heap
  BY <1>0, NullIsNoNumber DEF Unlisted, Spare
<1>4. n.heap = U \ Listed
  BY <1>0, <1>1, <1>3
<1>5. IsFiniteSet(n.heap)
  BY <1>0, <1>1, FS_Subset
<1>6. Accounted(U \ Listed, n)
  BY <1>1, <1>2, <1>4, <1>5 DEF Accounted
<1>7. QED
  BY <1>6 DEF n

-----------------------------------------------------------------------------
(* The list.                                                                *)

LEMMA SeqNumType ==
  ASSUME NEW n \in Nat
  PROVE  n % SeqNums \in 0..SeqNums - 1
<1>1. SeqNums \in Nat \ {0}
  BY SeqNumsAssumption
<1>2. \A d \in Nat \ {0} : n % d \in 0..d - 1
  OBVIOUS
<1>3. QED
  BY <1>1, <1>2

LEMMA ItemAt ==
  ASSUME Queue, NEW i \in 1..Len(list)
  PROVE  /\ list[i] \in Item(sent) /\ list[i].pos \in 1..sent /\ list[i].buf \in Nat
         /\ list[i].used \in 0..1 /\ list[i].first \in BOOLEAN
<1>1. list[i] \in Item(sent)
  BY DEF Queue
<1>2. QED
  BY <1>1 DEF Item

\* A packet that storePacket wants has a place, and is not in the list.
LEMMA PlaceIs ==
  ASSUME Queue, NEW s, NEW e
  PROVE  /\ Place(s, e) \in 0..Len(list) + 1
         /\ Place(s, e) # 0 => \A i \in 1..Len(list) : Number(i) # s
<1>1. Len(list) \in Nat
  BY DEF Queue
<1>2. IsFiniteSet(1..Len(list)) /\ Cardinality(1..Len(list)) = Len(list)
  BY <1>1, FS_Interval, SMTT(30)
<1>3. Passed(s) \in SUBSET (1..Len(list))
  BY DEF Passed
<1>4. Cardinality(Passed(s)) \in 0..Len(list)
  BY <1>1, <1>2, <1>3, FS_Subset, FS_CardinalityType
<1>5. QED
  BY <1>1, <1>4 DEF Place

\* A packet that is inserted.
LEMMA InsertIs ==
  ASSUME NEW S, NEW q \in Seq(S), NEW i \in 1..Len(q) + 1, NEW x \in S
  PROVE  /\ InsertAt(q, i, x) \in Seq(S) /\ Len(InsertAt(q, i, x)) = Len(q) + 1
         /\ \A k \in 1..Len(q) + 1 :
              InsertAt(q, i, x)[k] = IF k < i THEN q[k] ELSE IF k = i THEN x ELSE q[k - 1]
<1> DEFINE a == SubSeq(q, 1, i - 1)
           c == SubSeq(q, i, Len(q))
<1>1. Len(q) \in Nat /\ \A k \in 1..Len(q) : q[k] \in S
  OBVIOUS
<1>2. /\ a \in Seq(S) /\ Len(a) = i - 1
      /\ \A k \in 1..i - 1 : a[k] = q[k]
  <2>1. \A k \in 1..i - 1 : q[k] \in S
    BY <1>1
  <2>2. QED
    BY <1>1, <2>1, SubSeqProperties
<1>3. /\ c \in Seq(S) /\ Len(c) = Len(q) - i + 1
      /\ \A k \in 1..Len(q) - i + 1 : c[k] = q[i + k - 1]
  <2>1. \A k \in i..Len(q) : q[k] \in S
    BY <1>1
  <2>2. QED
    BY <1>1, <2>1, SubSeqProperties
<1> HIDE DEF a, c
<1>4. <<x>> \in Seq(S) /\ Len(<<x>>) = 1 /\ <<x>>[1] = x
  OBVIOUS
<1>5. /\ a \o <<x>> \in Seq(S) /\ Len(a \o <<x>>) = i
      /\ \A k \in 1..i : (a \o <<x>>)[k] = IF k < i THEN a[k] ELSE x
  BY <1>1, <1>2, <1>4, ConcatProperties
<1>6. /\ (a \o <<x>>) \o c \in Seq(S) /\ Len((a \o <<x>>) \o c) = Len(q) + 1
      /\ \A k \in 1..Len(q) + 1 :
           ((a \o <<x>>) \o c)[k] = IF k <= i THEN (a \o <<x>>)[k] ELSE c[k - i]
  <2> DEFINE h == a \o <<x>>
  <2>1. h \in Seq(S) /\ Len(h) = i
    BY <1>5
  <2> HIDE DEF h
  <2>2. /\ h \o c \in Seq(S) /\ Len(h \o c) = Len(h) + Len(c)
        /\ \A k \in 1..Len(h) + Len(c) :
             (h \o c)[k] = IF k <= Len(h) THEN h[k] ELSE c[k - Len(h)]
    BY <1>3, <2>1, ConcatProperties
  <2>3. Len(h) + Len(c) = Len(q) + 1
    BY <1>1, <1>3, <2>1
  <2>4. /\ h \o c \in Seq(S) /\ Len(h \o c) = Len(q) + 1
        /\ \A k \in 1..Len(q) + 1 : (h \o c)[k] = IF k <= i THEN h[k] ELSE c[k - i]
    BY <2>1, <2>2, <2>3
  <2>5. QED
    BY <2>4 DEF h
<1>7. InsertAt(q, i, x) = (a \o <<x>>) \o c
  BY DEF InsertAt, a, c
<1> DEFINE r == (a \o <<x>>) \o c
<1>8. ASSUME NEW k \in 1..Len(q) + 1
      PROVE  r[k] = IF k < i THEN q[k] ELSE IF k = i THEN x ELSE q[k - 1]
  <2>1. CASE k < i
    BY <1>2, <1>5, <1>6, <2>1
  <2>2. CASE k = i
    BY <1>5, <1>6, <2>2
  <2>3. CASE k > i
    BY <1>1, <1>3, <1>6, <2>3
  <2>4. k < i \/ k = i \/ k > i
    BY <1>1
  <2>5. QED
    BY <2>1, <2>2, <2>3, <2>4
<1>9. QED
  BY <1>6, <1>7, <1>8

LEMMA InsertSound ==
  ASSUME Queue, NEW i \in 1..Len(list) + 1, NEW x \in Item(sent),
         x.pos \notin Waiting(list), x.buf \notin InList(list), x.used = 0
  PROVE  /\ InsertAt(list, i, x) \in Seq(Item(sent))
         /\ ListSound(InsertAt(list, i, x), Append(young, x.pos))
         /\ InList(InsertAt(list, i, x)) = InList(list) \cup {x.buf}
<1> DEFINE q == InsertAt(list, i, x)
<1>0. /\ list \in Seq(Item(sent)) /\ Len(list) \in Nat /\ young \in Seq(Waiting(list))
      /\ \A k, j \in 1..Len(list) : k # j => list[k].buf # list[j].buf /\ list[k].pos # list[j].pos
      /\ \A k \in 1..Len(list) : list[k].used = 1 => layout[list[k].pos] = "pair"
      /\ \A k, j \in 1..Len(young) : k # j => young[k] # young[j]
  BY DEF Queue, ListSound
<1>1. /\ q \in Seq(Item(sent)) /\ Len(q) = Len(list) + 1
      /\ \A k \in 1..Len(list) + 1 : q[k] = IF k < i THEN list[k] ELSE IF k = i THEN x ELSE list[k - 1]
  BY <1>0, InsertIs
<1> HIDE DEF q
<1>2. /\ \A k \in 1..Len(q) : k = i \/ \E j \in 1..Len(list) : q[k] = list[j]
      /\ \A j \in 1..Len(list) : \E k \in 1..Len(q) : q[k] = list[j]
      /\ q[i] = x /\ i \in 1..Len(q)
  <2>1. ASSUME NEW k \in 1..Len(q), k # i
        PROVE  \E j \in 1..Len(list) : q[k] = list[j]
    <3>1. CASE k < i
      BY <1>0, <1>1, <3>1
    <3>2. CASE k > i
      <4>1. k - 1 \in 1..Len(list) /\ q[k] = list[k - 1]
        BY <1>0, <1>1, <3>2
      <4>2. QED
        BY <4>1
    <3>3. QED
      BY <1>0, <1>1, <2>1, <3>1, <3>2
  <2>2. ASSUME NEW j \in 1..Len(list)
        PROVE  \E k \in 1..Len(q) : q[k] = list[j]
    <3>1. CASE j < i
      BY <1>0, <1>1, <3>1
    <3>2. CASE j >= i
      <4>1. j + 1 \in 1..Len(q) /\ q[j + 1] = list[j]
        BY <1>0, <1>1, <3>2
      <4>2. QED
        BY <4>1
    <3>3. QED
      BY <1>0, <3>1, <3>2
  <2>3. q[i] = x /\ i \in 1..Len(q)
    BY <1>0, <1>1
  <2>4. QED
    BY <2>1, <2>2, <2>3
<1>3. Waiting(q) = Waiting(list) \cup {x.pos} /\ InList(q) = InList(list) \cup {x.buf}
  <2>1. ASSUME NEW k \in 1..Len(q)
        PROVE  q[k].pos \in Waiting(list) \cup {x.pos} /\ q[k].buf \in InList(list) \cup {x.buf}
    <3>1. CASE k = i
      BY <1>2, <3>1
    <3>2. CASE k # i
      <4>1. PICK j \in 1..Len(list) : q[k] = list[j]
        BY <1>2, <3>2
      <4>2. QED
        BY <4>1 DEF Waiting, InList
    <3>3. QED
      BY <3>1, <3>2
  <2>2. ASSUME NEW j \in 1..Len(list)
        PROVE  list[j].pos \in Waiting(q) /\ list[j].buf \in InList(q)
    <3>1. PICK k \in 1..Len(q) : q[k] = list[j]
      BY <1>2
    <3>2. QED
      BY <3>1 DEF Waiting, InList
  <2>3. x.pos \in Waiting(q) /\ x.buf \in InList(q)
    BY <1>2 DEF Waiting, InList
  <2>4. Waiting(q) \subseteq Waiting(list) \cup {x.pos} /\ InList(q) \subseteq InList(list) \cup {x.buf}
    BY <2>1 DEF Waiting, InList
  <2>5. Waiting(list) \subseteq Waiting(q) /\ InList(list) \subseteq InList(q)
    BY <2>2, SMTT(30) DEF Waiting, InList
  <2>6. QED
    BY <2>3, <2>4, <2>5
<1>4. ASSUME NEW k \in 1..Len(q), NEW j \in 1..Len(q), k < j
      PROVE  q[k].buf # q[j].buf /\ q[k].pos # q[j].pos
  <2>1. CASE k # i /\ j # i
    <3> DEFINE K == IF k < i THEN k ELSE k - 1
               J == IF j < i THEN j ELSE j - 1
    <3>1. K \in 1..Len(list) /\ J \in 1..Len(list) /\ K # J
      BY <1>0, <1>1, <1>4, <2>1
    <3>2. q[k] = list[K] /\ q[j] = list[J]
      BY <1>0, <1>1, <2>1
    <3> HIDE DEF K, J
    <3>3. QED
      BY <1>0, <3>1, <3>2
  <2>2. CASE k = i
    <3>1. \E n \in 1..Len(list) : q[j] = list[n]
      BY <1>2, <1>4, <2>2
    <3>2. QED
      BY <1>2, <2>2, <3>1 DEF Waiting, InList
  <2>3. CASE j = i
    <3>1. \E n \in 1..Len(list) : q[k] = list[n]
      BY <1>2, <1>4, <2>3
    <3>2. QED
      BY <1>2, <2>3, <3>1 DEF Waiting, InList
  <2>4. QED
    BY <2>1, <2>2, <2>3
<1>5. \A k, j \in 1..Len(q) : k # j => q[k].buf # q[j].buf /\ q[k].pos # q[j].pos
  <2> SUFFICES ASSUME NEW k \in 1..Len(q), NEW j \in 1..Len(q), k # j
               PROVE  q[k].buf # q[j].buf /\ q[k].pos # q[j].pos
    OBVIOUS
  <2>1. Len(q) \in Nat /\ (k < j \/ j < k)
    BY <1>0, <1>1
  <2>2. QED
    BY <1>4, <2>1
<1>6. \A k \in 1..Len(q) : q[k].used = 1 => layout[q[k].pos] = "pair"
  <2> SUFFICES ASSUME NEW k \in 1..Len(q), q[k].used = 1
               PROVE  layout[q[k].pos] = "pair"
    OBVIOUS
  <2>1. k # i
    BY <1>2
  <2>2. QED
    BY <1>0, <1>2, <2>1
<1>7. /\ Append(young, x.pos) \in Seq(Waiting(q))
      /\ \A k, j \in 1..Len(Append(young, x.pos)) :
           k # j => Append(young, x.pos)[k] # Append(young, x.pos)[j]
  <2>1. young \in Seq(Waiting(q))
    BY <1>0, <1>3, SeqMonotonic
  <2>2. x.pos \in Waiting(q)
    BY <1>3
  <2>3. \A k \in 1..Len(young) : young[k] # x.pos
    BY <1>0, ElementOfSeq
  <2>4. QED
    BY <1>0, <2>1, <2>2, <2>3
<1>8. ListSound(q, Append(young, x.pos))
  BY <1>5, <1>6, <1>7 DEF ListSound
<1>9. QED
  BY <1>1, <1>3, <1>8 DEF q

\* Packet p is no longer young.
LEMMA StillYoungIs ==
  ASSUME NEW S, young \in Seq(S), NEW p, \A i, j \in 1..Len(young) : i # j => young[i] # young[j]
  PROVE  /\ StillYoung(p) \in Seq(S \ {p})
         /\ \A i, j \in 1..Len(StillYoung(p)) : i # j => StillYoung(p)[i] # StillYoung(p)[j]
<1>0. Len(young) \in Nat /\ \A i \in 1..Len(young) : young[i] \in S
  OBVIOUS
<1>1. CASE ~\E i \in 1..Len(young) : young[i] = p
  <2>1. StillYoung(p) = young
    BY <1>1 DEF StillYoung, Contains
  <2>2. young \in Seq(S \ {p})
    BY <1>0, <1>1
  <2>3. QED
    BY <2>1, <2>2
<1>2. CASE \E i \in 1..Len(young) : young[i] = p
  <2> DEFINE n == CHOOSE i \in 1..Len(young) : young[i] = p
             a == SubSeq(young, 1, n - 1)
             c == SubSeq(young, n + 1, Len(young))
  <2>1. n \in 1..Len(young) /\ young[n] = p
    BY <1>2
  <2>2. StillYoung(p) = a \o c
    BY <1>2 DEF StillYoung, Contains, RemoveAt
  <2> HIDE DEF n
  <2>3. \A k \in 1..Len(young) : k # n => young[k] \in S \ {p}
    BY <1>0, <2>1
  <2>4. a \in Seq(S \ {p}) /\ Len(a) = n - 1 /\ \A k \in 1..n - 1 : a[k] = young[k]
    <3>1. \A k \in 1..n - 1 : young[k] \in S \ {p}
      BY <1>0, <2>1, <2>3
    <3>2. QED
      BY <1>0, <2>1, <3>1, SubSeqProperties
  <2>5. /\ c \in Seq(S \ {p}) /\ Len(c) = Len(young) - n
        /\ \A k \in 1..Len(young) - n : c[k] = young[n + k]
    <3>1. \A k \in n + 1..Len(young) : young[k] \in S \ {p}
      BY <1>0, <2>1, <2>3
    <3>2. QED
      BY <1>0, <2>1, <3>1, SubSeqProperties
  <2> HIDE DEF a, c
  <2>6. /\ a \o c \in Seq(S \ {p}) /\ Len(a \o c) = Len(young) - 1
        /\ \A k \in 1..Len(young) - 1 : (a \o c)[k] = IF k < n THEN young[k] ELSE young[k + 1]
    <3>1. /\ a \o c \in Seq(S \ {p}) /\ Len(a \o c) = Len(a) + Len(c)
          /\ \A k \in 1..Len(a) + Len(c) :
               (a \o c)[k] = IF k <= Len(a) THEN a[k] ELSE c[k - Len(a)]
      BY <2>4, <2>5, ConcatProperties, ZenonT(30)
    <3>2. Len(a) + Len(c) = Len(young) - 1
      BY <1>0, <2>1, <2>4, <2>5
    <3>3. ASSUME NEW k \in 1..Len(young) - 1
          PROVE  (a \o c)[k] = IF k < n THEN young[k] ELSE young[k + 1]
      <4>1. CASE k < n
        BY <1>0, <2>1, <2>4, <3>1, <3>2, <4>1
      <4>2. CASE k >= n
        <5>1. (a \o c)[k] = c[k - (n - 1)]
          BY <1>0, <2>1, <2>4, <3>1, <3>2, <4>2
        <5>2. k - (n - 1) \in 1..Len(young) - n /\ n + (k - (n - 1)) = k + 1 /\ ~(k < n)
          BY <1>0, <2>1, <4>2
        <5>3. c[k - (n - 1)] = young[n + (k - (n - 1))]
          BY <2>5, <5>2
        <5>4. QED
          BY <5>1, <5>2, <5>3
      <4>3. k < n \/ k >= n
        BY <1>0, <2>1
      <4>4. QED
        BY <4>1, <4>2, <4>3
    <3>4. QED
      BY <3>1, <3>2, <3>3
  <2>7. QED
    BY <1>0, <2>1, <2>2, <2>6, SMTT(30)
<1>3. QED
  BY <1>1, <1>2

\* The first packet of the list is used up.
LEMMA TailSound ==
  ASSUME Queue, list # <<>>
  PROVE  /\ Tail(list) \in Seq(Item(sent))
         /\ ListSound(Tail(list), StillYoung(list[1].pos))
         /\ InList(Tail(list)) = InList(list) \ {list[1].buf}
         /\ list[1].buf \in InList(list)
<1> DEFINE q == Tail(list)
<1>0. /\ list \in Seq(Item(sent)) /\ Len(list) \in Nat /\ Len(list) > 0 /\ young \in Seq(Waiting(list))
      /\ \A k, j \in 1..Len(list) : k # j => list[k].buf # list[j].buf /\ list[k].pos # list[j].pos
      /\ \A k \in 1..Len(list) : list[k].used = 1 => layout[list[k].pos] = "pair"
      /\ \A k, j \in 1..Len(young) : k # j => young[k] # young[j]
  BY DEF Queue, ListSound
<1>1. /\ q \in Seq(Item(sent)) /\ Len(q) = Len(list) - 1
      /\ \A k \in 1..Len(list) - 1 : q[k] = list[k + 1]
  BY <1>0
<1> HIDE DEF q
<1>2. /\ \A k \in 1..Len(q) : k + 1 \in 1..Len(list) /\ k + 1 # 1 /\ q[k] = list[k + 1]
      /\ \A j \in 1..Len(list) : j # 1 => j - 1 \in 1..Len(q) /\ q[j - 1] = list[j]
      /\ 1 \in 1..Len(list)
  BY <1>0, <1>1
<1>3. Waiting(q) = Waiting(list) \ {list[1].pos} /\ InList(q) = InList(list) \ {list[1].buf}
  <2>1. ASSUME NEW k \in 1..Len(q)
        PROVE  /\ q[k].pos \in Waiting(list) \ {list[1].pos}
               /\ q[k].buf \in InList(list) \ {list[1].buf}
    <3> DEFINE j == k + 1
    <3>1. j \in 1..Len(list) /\ j # 1 /\ q[k] = list[j]
      BY <1>2
    <3> HIDE DEF j
    <3>2. QED
      BY <1>0, <1>2, <3>1 DEF Waiting, InList
  <2>2. ASSUME NEW j \in 1..Len(list), j # 1
        PROVE  list[j].pos \in Waiting(q) /\ list[j].buf \in InList(q)
    <3> DEFINE k == j - 1
    <3>1. k \in 1..Len(q) /\ q[k] = list[j]
      BY <1>2, <2>2
    <3> HIDE DEF k
    <3>2. QED
      BY <3>1 DEF Waiting, InList
  <2>3. Waiting(q) \subseteq Waiting(list) \ {list[1].pos} /\ InList(q) \subseteq InList(list) \ {list[1].buf}
    BY <2>1 DEF Waiting, InList
  <2>4. Waiting(list) \ {list[1].pos} \subseteq Waiting(q) /\ InList(list) \ {list[1].buf} \subseteq InList(q)
    BY <2>2 DEF Waiting, InList
  <2>5. QED
    BY <2>3, <2>4
<1>4. \A k, j \in 1..Len(q) : k # j => q[k].buf # q[j].buf /\ q[k].pos # q[j].pos
  <2> SUFFICES ASSUME NEW k \in 1..Len(q), NEW j \in 1..Len(q), k # j
               PROVE  q[k].buf # q[j].buf /\ q[k].pos # q[j].pos
    OBVIOUS
  <2> DEFINE K == k + 1
             J == j + 1
  <2>1. K \in 1..Len(list) /\ J \in 1..Len(list) /\ K # J /\ q[k] = list[K] /\ q[j] = list[J]
    BY <1>0, <1>1, <1>2
  <2> HIDE DEF K, J
  <2>2. QED
    BY <1>0, <2>1
<1>5. \A k \in 1..Len(q) : q[k].used = 1 => layout[q[k].pos] = "pair"
  BY <1>0, <1>2
<1>6. /\ StillYoung(list[1].pos) \in Seq(Waiting(list) \ {list[1].pos})
      /\ \A i, j \in 1..Len(StillYoung(list[1].pos)) :
           i # j => StillYoung(list[1].pos)[i] # StillYoung(list[1].pos)[j]
  BY <1>0, StillYoungIs
<1>7. ListSound(q, StillYoung(list[1].pos))
  BY <1>3, <1>4, <1>5, <1>6 DEF ListSound
<1>8. list[1].buf \in InList(list)
  BY <1>2 DEF InList
<1>9. QED
  BY <1>1, <1>3, <1>7, <1>8 DEF q

\* One NAL unit of the first packet is used, another is left.
LEMMA HalfUsedSound ==
  ASSUME Queue, list # <<>>, list[1].used = 0, layout[list[1].pos] = "pair",
         NEW q, q = [list EXCEPT ![1].used = @ + 1]
  PROVE  /\ q \in Seq(Item(sent)) /\ ListSound(q, young) /\ InList(q) = InList(list)
<1>0. /\ list \in Seq(Item(sent)) /\ Len(list) \in Nat /\ 1 \in 1..Len(list) /\ young \in Seq(Waiting(list))
      /\ \A k, j \in 1..Len(list) : k # j => list[k].buf # list[j].buf /\ list[k].pos # list[j].pos
      /\ \A k \in 1..Len(list) : list[k].used = 1 => layout[list[k].pos] = "pair"
      /\ \A k, j \in 1..Len(young) : k # j => young[k] # young[j]
  BY DEF Queue, ListSound
<1> DEFINE x == [list[1] EXCEPT !.used = @ + 1]
<1>1. list[1] \in Item(sent)
  BY <1>0, ElementOfSeq
<1>2. x \in Item(sent) /\ x.pos = list[1].pos /\ x.buf = list[1].buf /\ x.used = 1
  BY <1>1 DEF Item
<1>3. q = [list EXCEPT ![1] = x]
  BY <1>0
<1> HIDE DEF x
<1>4. /\ q \in Seq(Item(sent)) /\ Len(q) = Len(list)
      /\ \A j \in 1..Len(list) : q[j] = IF j = 1 THEN x ELSE list[j]
  BY <1>0, <1>2, <1>3, ExceptSeq
<1>5. \A j \in 1..Len(list) : q[j].pos = list[j].pos /\ q[j].buf = list[j].buf
  BY <1>2, <1>4
<1>6. Waiting(q) = Waiting(list) /\ InList(q) = InList(list)
  BY <1>4, <1>5 DEF Waiting, InList
<1>7. \A j \in 1..Len(q) : q[j].used = 1 => layout[q[j].pos] = "pair"
  BY <1>0, <1>4, <1>5
<1>8. ListSound(q, young)
  BY <1>0, <1>4, <1>5, <1>6, <1>7 DEF ListSound
<1>9. QED
  BY <1>4, <1>6, <1>8

-----------------------------------------------------------------------------
(* Numbers, kinds and flags.                                                *)

LEMMA NumberType ==
  ASSUME NEW p \in Nat \ {0}
  PROVE  SeqNum(p) \in 0..SeqNums - 1
<1>1. BaseSeqNum + p - 1 \in Nat
  BY SeqNumsAssumption
<1>2. QED
  BY <1>1, SeqNumType DEF SeqNum

LEMMA HeadIs ==
  ASSUME Control, Queue, list # <<>>
  PROVE  /\ 1 \in 1..Len(list) /\ list[1] \in Item(sent)
         /\ HeadNumber \in 0..SeqNums - 1 /\ (HeadNumber + 1) % SeqNums \in 0..SeqNums - 1
         /\ Kind \in Kinds
<1>1. 1 \in 1..Len(list)
  BY DEF Queue
<1>2. list[1] \in Item(sent) /\ list[1].pos \in 1..sent
  BY <1>1, ItemAt
<1>3. layout \in Seq(Kinds) /\ sent \in 0..Len(layout)
  BY LayoutsAssumption DEF Control
<1>4. HeadNumber \in 0..SeqNums - 1
  <2>1. list[1].pos \in Nat \ {0}
    BY <1>2
  <2>2. QED
    BY <2>1, NumberType DEF HeadNumber, Number
<1>5. (HeadNumber + 1) % SeqNums \in 0..SeqNums - 1
  <2>1. HeadNumber + 1 \in Nat
    BY <1>4
  <2>2. QED
    BY <2>1, SeqNumType
<1>6. Kind \in Kinds
  <2>1. list[1].pos \in 1..Len(layout)
    BY <1>2, <1>3
  <2>2. QED
    BY <1>3, <2>1, ElementOfSeq DEF Kind
<1>7. QED
  BY <1>1, <1>2, <1>4, <1>5, <1>6

LEMMA FlagsType ==
  ASSUME Control, Queue, list # <<>>, Kind # "bad"
  PROVE  Flags \in Flagged
<1> DEFINE f == IF list[1].used = 0 THEN SpecialHeader(Kind) ELSE flags
<1>1. Kind \in {"single", "pair", "start", "middle", "end"}
  BY HeadIs DEF Kinds
<1>2. flags \in Flagged
  BY DEF Control, Flagged
<1>3. SpecialHeader(Kind) \in Flagged
  BY <1>1, <1>2 DEF SpecialHeader, Flagged
<1>4. f \in Flagged
  BY <1>2, <1>3
<1> HIDE DEF f
<1>5. InLossyFrame(f) \in BOOLEAN
  BY DEF InLossyFrame
<1>6. [f EXCEPT !.loss = InLossyFrame(f)] \in Flagged
  BY <1>4, <1>5 DEF Flagged
<1>7. QED
  BY <1>6 DEF Flags, f

-----------------------------------------------------------------------------
(* What the operations do to the list and to the memory.                    *)

LEMMA Unmoved ==
  ASSUME Queue, MemoryInv, UNCHANGED <<layout, sent, list, young, buffers>>
  PROVE  Queue' /\ MemoryInv'
<1>1. Queue'
  <2>1. list' = list /\ sent' = sent /\ layout' = layout /\ young' = young
    OBVIOUS
  <2>2. Item(sent)' = Item(sent) /\ Waiting(list)' = Waiting(list)
    BY <2>1 DEF Item, Waiting
  <2>3. list' \in Seq(Item(sent)')
    BY <2>1, <2>2 DEF Queue
  <2>4. ListSound(list, young)'
    BY <2>1, <2>2 DEF Queue, ListSound
  <2> QED
    BY <2>3, <2>4 DEF Queue
<1>2. MemoryInv'
  BY DEF MemoryInv, Listed, Memory, Apart, InUse, Accounted, Spare, MemoryType, buffers
<1>3. QED
  BY <1>1, <1>2

\* The list stays, the buffers change as memory m says.
LEMMA MemoryBecomes ==
  ASSUME NEW m, NEW L, Has(m), Listed' = L, Apart(L, inProgress', hand'),
         Accounted(InUse(L, inProgress', hand'), m)
  PROVE  MemoryInv'
<1>1. m \in MemoryType
  BY DEF Accounted
<1>2. Memory' = m
  BY <1>1, SaysMemory
<1>3. Apart(Listed', inProgress', hand') /\ Accounted(InUse(Listed', inProgress', hand'), Memory')
  BY <1>2
<1>4. QED
  BY <1>3 DEF MemoryInv, Apart, Accounted, InUse, Spare, MemoryType

LEMMA ListBecomes ==
  ASSUME UNCHANGED <<layout, sent>>, list' \in Seq(Item(sent)), ListSound(list', young')
  PROVE  Queue'
BY DEF Queue, ListSound, Item, Waiting

\* A packet is stored, or its buffer is freed.
LEMMA StoreKeeps ==
  ASSUME Control, Queue, Apart(Listed, inProgress, hand), NEW p \in 1..sent, NEW b \in Nat, NEW m,
         b \notin Listed, b # hand, Accounted(InUse(Listed, b, hand), m),
         Store(p, b, m), UNCHANGED <<layout, sent, hand>>, inProgress' = NULL
  PROVE  Queue' /\ MemoryInv' /\ expected' \in 0..SeqNums - 1
<1> DEFINE e   == IF expected = NULL THEN SeqNum(p) ELSE expected
           i   == Place(SeqNum(p), e)
           new == [pos |-> p, buf |-> b, used |-> 0, first |-> expected = NULL]
<1>0. sent \in Nat
  <2>1. Len(layout) \in Nat /\ sent \in 0..Len(layout)
    BY LayoutsAssumption DEF Control
  <2>2. QED
    BY <2>1
<1>1. e \in 0..SeqNums - 1 /\ expected' = e
  <2>1. SeqNum(p) \in 0..SeqNums - 1
    BY <1>0, NumberType
  <2>2. QED
    BY <2>1 DEF Store, Control
<1>2. Listed = InList(list) /\ Listed' = InList(list')
  BY DEF Listed, InList
<1>3. b # NULL
  BY NullIsNoNumber
<1>4. CASE i = 0
  <2>1. Has(FreePacket(m, b)) /\ UNCHANGED <<list, young>>
    BY <1>4 DEF Store
  <2>2. Accounted(InUse(Listed, b, hand) \ {b}, FreePacket(m, b))
    <3>1. b \in InUse(Listed, b, hand)
      BY <1>3 DEF InUse
    <3>2. QED
      BY <3>1, FreeAccounts
  <2>3. InUse(Listed, b, hand) \ {b} = InUse(Listed, inProgress', hand')
    BY <1>3 DEF InUse
  <2>4. Apart(Listed, inProgress', hand')
    BY DEF Apart
  <2>5. MemoryInv'
    BY <1>2, <2>1, <2>2, <2>3, <2>4, MemoryBecomes
  <2>6. Queue'
    BY <2>1, ListBecomes DEF Queue
  <2>7. QED
    BY <1>1, <2>5, <2>6
<1>5. CASE i # 0
  <2>1. Has(m) /\ list' = InsertAt(list, i, new) /\ young' = Append(young, p)
    BY <1>5 DEF Store
  <2>2. i \in 1..Len(list) + 1 /\ \A k \in 1..Len(list) : Number(k) # SeqNum(p)
    <3>1. Place(SeqNum(p), e) \in 0..Len(list) + 1 /\ \A k \in 1..Len(list) : Number(k) # SeqNum(p)
      BY <1>5, PlaceIs
    <3>2. Len(list) \in Nat
      BY DEF Queue
    <3>3. QED
      BY <1>5, <3>1, <3>2
  <2>3. p \notin Waiting(list) /\ b \notin InList(list)
    BY <1>2, <2>2 DEF Waiting, Number
  <2>4. new \in Item(sent) /\ new.pos = p /\ new.buf = b /\ new.used = 0
    BY DEF Item
  <2> HIDE DEF new, i, e
  <2>5. /\ list' \in Seq(Item(sent)) /\ ListSound(list', young')
        /\ InList(list') = Listed \cup {b}
    BY <1>2, <2>1, <2>2, <2>3, <2>4, InsertSound
  <2>6. InUse(Listed, b, hand) = InUse(Listed \cup {b}, inProgress', hand')
    BY <1>3 DEF InUse
  <2>7. Apart(Listed \cup {b}, inProgress', hand')
    BY DEF Apart
  <2>8. MemoryInv'
    BY <1>2, <2>1, <2>5, <2>6, <2>7, MemoryBecomes
  <2>9. QED
    BY <1>1, <2>5, <2>8, ListBecomes
<1>6. QED
  BY <1>4, <1>5

\* The head is released.
LEMMA ReleaseKeeps ==
  ASSUME Control, Queue, MemoryInv, list # <<>>, ReleaseUsedPacket,
         UNCHANGED <<layout, sent, inProgress, hand>>
  PROVE  Queue' /\ MemoryInv' /\ expected' \in 0..SeqNums - 1
<1> DEFINE b == list[1].buf
           L == Listed \ {b}
<1>1. /\ list' \in Seq(Item(sent)) /\ ListSound(list', young')
      /\ InList(list') = InList(list) \ {b} /\ b \in InList(list)
  BY TailSound DEF ReleaseUsedPacket
<1>2. Listed = InList(list) /\ Listed' = InList(list')
  BY DEF Listed, InList
<1>3. Apart(Listed, inProgress, hand) /\ Accounted(InUse(Listed, inProgress, hand), Memory)
  BY DEF MemoryInv
<1>4. b \in InUse(Listed, inProgress, hand) /\ b # inProgress /\ b # hand
  <2>1. b \in Nat
    BY HeadIs DEF Item
  <2>2. QED
    BY <1>1, <1>2, <1>3, <2>1, NullIsNoNumber DEF InUse, Apart
<1>5. Accounted(InUse(Listed, inProgress, hand) \ {b}, FreePacket(Memory, b))
  BY <1>3, <1>4, FreeAccounts
<1>6. InUse(Listed, inProgress, hand) \ {b} = InUse(L, inProgress', hand')
  BY <1>4 DEF InUse
<1>7. Apart(L, inProgress', hand')
  BY <1>3 DEF Apart
<1>8. Listed' = L /\ Has(FreePacket(Memory, b))
  BY <1>1, <1>2 DEF ReleaseUsedPacket
<1>9. MemoryInv'
  BY <1>5, <1>6, <1>7, <1>8, MemoryBecomes
<1>10. expected' \in 0..SeqNums - 1
  BY HeadIs DEF ReleaseUsedPacket
<1>11. QED
  BY <1>1, <1>9, <1>10, ListBecomes
-----------------------------------------------------------------------------
(* The invariant.                                                           *)

LEMMA InvInit == Init => IInv
<1> SUFFICES ASSUME Init
             PROVE  IInv
  OBVIOUS
<1>1. layout \in Layouts /\ Len(layout) \in Nat
  BY LayoutsAssumption DEF Init
<1>2. Control
  <2>1. layout \in Layouts /\ tcp \in BOOLEAN /\ sent \in 0..Len(layout)
    BY <1>1 DEF Init
  <2>2. flight = {} /\ copied = {} /\ expected = NULL /\ hand = NULL /\ pc = "idle"
    BY DEF Init
  <2>3. needDelivery = FALSE /\ awaiting = FALSE /\ nextTask = FALSE /\ reading = FALSE /\ odd = FALSE
    BY DEF Init
  <2>4. flags \in Flagged
    BY DEF Init, Flagged
  <2>5. QED
    BY <2>1, <2>2, <2>3, <2>4 DEF Control
<1>3. list = <<>> /\ young = <<>> /\ Len(list) = 0 /\ Len(young) = 0
  BY DEF Init
<1>4. Queue
  BY <1>3 DEF Queue, ListSound
<1>5. Listed = {} /\ InUse(Listed, inProgress, hand) = {}
  BY <1>3 DEF Listed, InUse, Init
<1>6. Apart(Listed, inProgress, hand)
  BY <1>5 DEF Apart, Init
<1>7. Accounted({}, Memory)
  BY FS_EmptySet DEF Accounted, MemoryType, Memory, Spare, Init
<1>8. QED
  BY <1>2, <1>4, <1>5, <1>6, <1>7 DEF IInv, MemoryInv

\* The client and the sender, and the steps that leave the list and the buffers alone.
LEMMA InvOthers ==
  ASSUME IInv
  PROVE  Age \/ Wait \/ AfterGetting \/ GetNextFrame \/ ClientReturns \/ UNCHANGED vars => IInv'
<1>0. Control /\ Queue /\ MemoryInv
  BY DEF IInv
<1>1. CASE Age
  <2>0. UNCHANGED <<network, list, expected, buffers, needDelivery, flags, awaiting, nextTask, reading, pc, odd>>
    BY <1>1 DEF Age
  <2>1. PICK n \in 1..Len(young) : young' = SubSeq(young, n + 1, Len(young))
    BY <1>1 DEF Age
  <2>2. young \in Seq(Waiting(list)) /\ Len(young) \in Nat
    BY <1>0 DEF Queue, ListSound
  <2>3. \A k \in n + 1..Len(young) : young[k] \in Waiting(list)
    BY <2>2
  <2>4. /\ young' \in Seq(Waiting(list)) /\ Len(young') = Len(young) - n
        /\ \A k \in 1..Len(young) - n : young'[k] = young[n + k]
    BY <2>1, <2>2, <2>3, SubSeqProperties
  <2>5. ASSUME NEW i \in 1..Len(young'), NEW j \in 1..Len(young'), i # j
        PROVE  young'[i] # young'[j]
    <3> DEFINE I == n + i
               J == n + j
    <3>1. I \in 1..Len(young) /\ J \in 1..Len(young) /\ I # J /\ young'[i] = young[I] /\ young'[j] = young[J]
      BY <2>2, <2>4, <2>5
    <3> HIDE DEF I, J
    <3>2. QED
      BY <1>0, <3>1 DEF Queue, ListSound
  <2>6. ListSound(list, young')
    BY <1>0, <2>4, <2>5 DEF Queue, ListSound
  <2>7. Queue'
    BY <1>0, <2>0, <2>6, ListBecomes DEF Queue, network
  <2>8. MemoryInv'
    BY <1>0, <2>0 DEF MemoryInv, Listed, Memory, Apart, InUse, Accounted, Spare, MemoryType, buffers
  <2>9. Control'
    BY <1>0, <2>0 DEF Control, network, buffers
  <2>10. QED
    BY <2>7, <2>8, <2>9 DEF IInv
<1>2. CASE Wait \/ AfterGetting \/ GetNextFrame \/ ClientReturns \/ UNCHANGED vars
  <2>1. UNCHANGED <<layout, tcp, sent, flight, copied, list, young, expected, buffers, flags>>
    BY <1>2 DEF Wait, AfterGetting, GetNextFrame, ClientReturns, vars, network
  <2>2. Queue' /\ MemoryInv'
    BY <1>0, <2>1, Unmoved
  <2>3. Control'
    <3> USE <1>0, <2>1 DEF Control, buffers
    <3>1. CASE Wait
      BY <3>1 DEF Wait
    <3>2. CASE AfterGetting
      BY <3>2 DEF AfterGetting
    <3>3. CASE GetNextFrame
      BY <3>3 DEF GetNextFrame
    <3>4. CASE ClientReturns
      BY <3>4 DEF ClientReturns
    <3>5. CASE UNCHANGED vars
      BY <3>5 DEF vars
    <3>6. QED
      BY <1>2, <3>1, <3>2, <3>3, <3>4, <3>5
  <2>4. QED
    BY <2>2, <2>3 DEF IInv
<1>3. QED
  BY <1>1, <1>2

LEMMA InvSend ==
  ASSUME IInv, Send
  PROVE  IInv'
<1>0. Control /\ Queue /\ MemoryInv
  BY DEF IInv
<1>1. /\ Len(layout) \in Nat /\ sent \in Nat /\ sent < Len(layout)
      /\ sent' = sent + 1
      /\ UNCHANGED <<layout, tcp, copied, list, young, expected, buffers, needDelivery, flags,
                     awaiting, nextTask, reading, pc, odd>>
  <2>1. Len(layout) \in Nat /\ sent \in 0..Len(layout)
    BY <1>0, LayoutsAssumption DEF Control
  <2>2. QED
    BY <2>1 DEF Send
<1>2. Item(sent) \subseteq Item(sent')
  BY <1>1 DEF Item
<1>3. list' \in Seq(Item(sent'))
  BY <1>0, <1>1, <1>2, SeqMonotonic DEF Queue
<1>4. ListSound(list, young)'
  BY <1>0, <1>1, SMTT(30) DEF Queue, ListSound, Waiting
<1>5. Queue'
  BY <1>3, <1>4 DEF Queue, Item
<1>6. MemoryInv'
  BY <1>0, <1>1 DEF MemoryInv, Listed, Memory, Apart, InUse, Accounted, Spare, MemoryType, buffers
<1>7. flight' \subseteq 1..sent'
  <2>1. flight \subseteq 1..sent'
    BY <1>0, <1>1 DEF Control
  <2>2. sent + 1 \in 1..sent'
    BY <1>1
  <2>3. QED
    BY <2>1, <2>2 DEF Send
<1>8. copied' \subseteq 1..sent' /\ sent' \in 0..Len(layout)
  BY <1>0, <1>1 DEF Control
<1>9. Control'
  BY <1>0, <1>1, <1>7, <1>8 DEF Control, buffers
<1>10. QED
  BY <1>5, <1>6, <1>9 DEF IInv

\* The reads.
LEMMA InvReads ==
  ASSUME IInv
  PROVE  (\E p \in Packets : Read(p)) \/ ReadPart \/ ReadOther \/ OtherFreed => IInv'
<1>0. Control /\ Queue /\ MemoryInv
  BY DEF IInv
<1>1. /\ Apart(Listed, inProgress, hand) /\ Accounted(InUse(Listed, inProgress, hand), Memory)
      /\ (hand # NULL <=> pc = "inject")
  BY <1>0 DEF MemoryInv, Control
<1>2. ASSUME NEW p \in Packets, Read(p)
      PROVE  IInv'
  <2>1. p \in 1..sent /\ flight' \subseteq 1..sent /\ copied' \subseteq 1..sent /\ UNCHANGED <<layout, tcp, sent>>
    BY <1>0, <1>2 DEF Read, Take, Control
  <2>2. /\ ReadBuffer.b \in Nat /\ ReadBuffer.b \notin Listed /\ ReadBuffer.b # hand
        /\ Accounted(InUse(Listed, ReadBuffer.b, hand), ReadBuffer.m)
    BY <1>0, ReadBufferAccounts
  <2>3. /\ Store(p, ReadBuffer.b, ReadBuffer.m) /\ inProgress' = NULL
        /\ pc = "idle" /\ pc' = "deliver"
        /\ UNCHANGED <<hand, needDelivery, flags, awaiting, nextTask, reading, odd>>
    BY <1>2 DEF Read
  <2>4. Queue' /\ MemoryInv' /\ expected' \in 0..SeqNums - 1
    BY <1>0, <1>1, <2>1, <2>2, <2>3, StoreKeeps
  <2>5. Control'
    BY <1>0, <2>1, <2>3, <2>4 DEF Control
  <2>6. QED
    BY <2>4, <2>5 DEF IInv
<1>3. CASE ReadPart
  <2> DEFINE b == GetFreePacket.b
             U == InUse(Listed, inProgress, hand)
  <2>1. /\ pc = "idle" /\ inProgress = NULL /\ hand = NULL /\ Has(GetFreePacket.m) /\ inProgress' = b
        /\ UNCHANGED <<network, list, young, expected, hand, needDelivery, flags, awaiting, nextTask,
                       reading, pc, odd>>
    BY <1>1, <1>3 DEF ReadPart
  <2>2. b \in Nat /\ b \notin U /\ Accounted(U \cup {b}, GetFreePacket.m)
    BY <1>1, GetAccounts
  <2> HIDE DEF b
  <2>3. U \cup {b} = InUse(Listed, inProgress', hand') /\ b # NULL
    BY <2>1, <2>2, NullIsNoNumber DEF InUse
  <2>4. Apart(Listed, inProgress', hand')
    BY <2>1, <2>2, <2>3 DEF Apart, InUse
  <2>5. Listed' = Listed
    BY <2>1 DEF Listed
  <2>6. MemoryInv'
    BY <2>1, <2>2, <2>3, <2>4, <2>5, MemoryBecomes
  <2>7. Queue'
    BY <1>0, <2>1, ListBecomes DEF Queue, network
  <2>8. Control'
    BY <1>0, <2>1 DEF Control, network
  <2>9. QED
    BY <2>6, <2>7, <2>8 DEF IInv
<1>4. CASE ReadOther
  <2> DEFINE b == ReadBuffer.b
  <2>1. /\ pc = "idle" /\ hand = NULL /\ Has(ReadBuffer.m) /\ hand' = b /\ inProgress' = NULL
        /\ pc' = "inject"
        /\ UNCHANGED <<network, list, young, expected, needDelivery, flags, awaiting, nextTask,
                       reading, odd>>
    BY <1>1, <1>4 DEF ReadOther
  <2>2. b \in Nat /\ b \notin Listed /\ Accounted(InUse(Listed, b, hand), ReadBuffer.m)
    BY <1>0, ReadBufferAccounts
  <2> HIDE DEF b
  <2>3. InUse(Listed, b, hand) = InUse(Listed, inProgress', hand') /\ b # NULL
    BY <2>1, <2>2, NullIsNoNumber DEF InUse
  <2>4. Apart(Listed, inProgress', hand') /\ Listed' = Listed
    BY <2>1, <2>2 DEF Apart, Listed
  <2>5. MemoryInv'
    BY <2>1, <2>2, <2>3, <2>4, MemoryBecomes
  <2>6. Queue'
    BY <1>0, <2>1, ListBecomes DEF Queue, network
  <2>7. Control'
    BY <1>0, <2>1, <2>3 DEF Control, network
  <2>8. QED
    BY <2>5, <2>6, <2>7 DEF IInv
<1>5. CASE OtherFreed
  <2> DEFINE U == InUse(Listed, inProgress, hand)
  <2>1. /\ pc = "inject" /\ hand # NULL /\ Has(FreePacket(Memory, hand)) /\ hand' = NULL /\ pc' = "deliver"
        /\ UNCHANGED <<network, list, young, expected, inProgress, needDelivery, flags, awaiting,
                       nextTask, reading, odd>>
    BY <1>1, <1>5 DEF OtherFreed
  <2>2. hand \in U
    BY <2>1 DEF InUse
  <2>3. Accounted(U \ {hand}, FreePacket(Memory, hand))
    BY <1>1, <2>2, FreeAccounts
  <2>4. U \ {hand} = InUse(Listed, inProgress', hand')
    BY <1>1, <2>1 DEF InUse, Apart
  <2>5. Apart(Listed, inProgress', hand') /\ Listed' = Listed
    BY <1>1, <2>1 DEF Apart, Listed
  <2>6. MemoryInv'
    BY <2>1, <2>3, <2>4, <2>5, MemoryBecomes
  <2>7. Queue'
    BY <1>0, <2>1, ListBecomes DEF Queue, network
  <2>8. Control'
    BY <1>0, <2>1 DEF Control, network
  <2>9. QED
    BY <2>6, <2>7, <2>8 DEF IInv
<1>6. QED
  BY <1>2, <1>3, <1>4, <1>5

\* doGetNextFrame1 looks at the head.
LEMMA InvLooks ==
  ASSUME IInv
  PROVE  Reject \/ Drop \/ Use => IInv'
<1>0. Control /\ Queue /\ MemoryInv
  BY DEF IInv
<1> DEFINE Same == UNCHANGED <<network, inProgress, hand, reading>>
<1>1. CASE Reject
  <2>1. /\ list # <<>> /\ ReleaseUsedPacket /\ Same
        /\ UNCHANGED <<needDelivery, flags, awaiting, nextTask, pc>> /\ odd' \in BOOLEAN
    BY <1>1 DEF Reject, Completed
  <2>2. Queue' /\ MemoryInv' /\ expected' \in 0..SeqNums - 1
    BY <1>0, <2>1, ReleaseKeeps DEF network
  <2>3. Control'
    BY <1>0, <2>1, <2>2 DEF Control, network
  <2>4. QED
    BY <2>2, <2>3 DEF IInv
<1>2. CASE Drop
  <2>1. /\ list # <<>> /\ Kind # "bad" /\ ReleaseUsedPacket /\ Same /\ flags' = Flags
        /\ UNCHANGED <<needDelivery, awaiting, nextTask, pc>> /\ odd' \in BOOLEAN
    BY <1>2 DEF Drop, Completed
  <2>2. Queue' /\ MemoryInv' /\ expected' \in 0..SeqNums - 1
    BY <1>0, <2>1, ReleaseKeeps DEF network
  <2>3. flags' \in Flagged
    BY <1>0, <2>1, FlagsType
  <2>4. Control'
    BY <1>0, <2>1, <2>2, <2>3 DEF Control, Flagged, network
  <2>5. QED
    BY <2>2, <2>4 DEF IInv
<1>3. CASE Use
  <2>1. /\ list # <<>> /\ Kind # "bad" /\ Same /\ flags' = Flags /\ odd' \in BOOLEAN
        /\ pc = "deliver" /\ needDelivery
    BY <1>3 DEF Use, Completed
  <2>2. flags' \in Flagged
    BY <1>0, <2>1, FlagsType
  <2>3. Queue' /\ MemoryInv' /\ expected' \in 0..SeqNums - 1
    <3>1. CASE list[1].used + 1 = NALUnits
      <4>1. ReleaseUsedPacket
        BY <1>3, <3>1 DEF Use
      <4>2. QED
        BY <1>0, <2>1, <4>1, ReleaseKeeps DEF network
    <3>2. CASE list[1].used + 1 # NALUnits
      <4>1. /\ list' = [list EXCEPT ![1].used = @ + 1] /\ expected' = HeadNumber
            /\ UNCHANGED <<young, heap, saved, savedFree>>
        BY <1>3, <3>2 DEF Use
      <4>2. list[1].used \in 0..1 /\ (list[1].used = 1 => Kind = "pair")
        <5>1. 1 \in 1..Len(list)
          BY <1>0, <2>1, HeadIs
        <5>2. list[1].used \in 0..1
          BY <1>0, <5>1, ItemAt
        <5>3. QED
          BY <1>0, <5>1, <5>2 DEF Queue, ListSound, Kind
      <4>3. list[1].used = 0 /\ layout[list[1].pos] = "pair"
        BY <3>2, <4>2 DEF NALUnits, Kind
      <4>4. list' \in Seq(Item(sent)) /\ ListSound(list', young) /\ InList(list') = InList(list)
        BY <1>0, <2>1, <4>1, <4>3, HalfUsedSound
      <4>5. Queue'
        BY <2>1, <4>1, <4>4, ListBecomes DEF network
      <4>6. Listed' = Listed
        BY <4>4 DEF Listed, InList
      <4>7. MemoryInv'
        BY <1>0, <2>1, <4>1, <4>6 DEF MemoryInv, Memory, Apart, InUse, Accounted, Spare, MemoryType
      <4>8. QED
        BY <1>0, <2>1, <4>1, <4>5, <4>7, HeadIs
    <3>3. QED
      BY <3>1, <3>2
  <2>4. awaiting = TRUE /\ nextTask = FALSE
    BY <1>0, <2>1 DEF Control
  <2>5. /\ needDelivery' \in BOOLEAN /\ awaiting' \in BOOLEAN /\ nextTask' \in BOOLEAN
        /\ (needDelivery' \/ nextTask' => awaiting') /\ ~(needDelivery' /\ nextTask')
        /\ pc' \in {"deliver", "client", "idle"}
    <3>0. needDelivery' = ~Flags.completes /\ needDelivery' \in BOOLEAN
      BY <1>3 DEF Use
    <3>1. CASE ~Flags.completes
      <4>1. UNCHANGED <<awaiting, nextTask, pc>>
        BY <1>3, <3>1 DEF Use
      <4>2. QED
        BY <2>1, <2>4, <3>0, <4>1
    <3>2. CASE Flags.completes /\ list' = <<>>
      <4>1. awaiting' = FALSE /\ pc' = "client" /\ nextTask' = nextTask
        BY <1>3, <3>2 DEF Use
      <4>2. QED
        BY <2>4, <3>0, <3>2, <4>1
    <3>3. CASE Flags.completes /\ list' # <<>>
      <4>1. nextTask' = TRUE /\ pc' = "idle" /\ UNCHANGED awaiting
        BY <1>3, <3>3 DEF Use
      <4>2. QED
        BY <2>4, <3>0, <3>3, <4>1
    <3>4. QED
      BY <3>1, <3>2, <3>3
  <2>6. hand = NULL
    BY <1>0, <2>1 DEF Control
  <2>7. Control'
    BY <1>0, <2>1, <2>2, <2>3, <2>5, <2>6 DEF Control, Flagged, network
  <2>8. QED
    BY <2>3, <2>7 DEF IInv
<1>4. QED
  BY <1>1, <1>2, <1>3

LEMMA InvStop ==
  ASSUME IInv, StopGettingFrames
  PROVE  IInv'
<1>0. Control /\ Queue /\ MemoryInv
  BY DEF IInv
<1> DEFINE U == InUse(Listed, inProgress, hand)
           V == InUse(Listed, NULL, hand)
           m == IF inProgress = NULL THEN Memory ELSE FreePacket(Memory, inProgress)
<1>1. Apart(Listed, inProgress, hand) /\ Accounted(U, Memory)
  BY <1>0 DEF MemoryInv
<1>2. Accounted(V, m)
  <2>1. CASE inProgress = NULL
    BY <1>1, <2>1
  <2>2. CASE inProgress # NULL
    <3>1. inProgress \in U /\ U \ {inProgress} = V
      BY <1>1, <2>2 DEF InUse, Apart
    <3>2. Accounted(U \ {inProgress}, FreePacket(Memory, inProgress))
      BY <1>1, <3>1, FreeAccounts
    <3>3. QED
      BY <2>2, <3>1, <3>2
  <2>3. QED
    BY <2>1, <2>2
<1>3. /\ UNCHANGED <<network, hand, pc>> /\ list' = <<>> /\ young' = <<>> /\ expected' = NULL
      /\ awaiting' = FALSE /\ nextTask' = FALSE /\ reading' = FALSE /\ inProgress' = NULL
      /\ needDelivery' = FALSE /\ odd' = FALSE /\ Has(Emptied(m))
      /\ flags' = [begins |-> TRUE, completes |-> TRUE, loss |-> FALSE]
  BY DEF StopGettingFrames
<1> HIDE DEF m
<1>4. Accounted(V \ Listed, Emptied(m))
  <2>1. Listed \subseteq V
    <3>1. NULL \notin Listed
      BY <1>1, NullIsNoNumber DEF Accounted, MemoryType, InUse
    <3>2. QED
      BY <3>1 DEF InUse
  <2>2. QED
    BY <1>2, <2>1, EmptiedAccounts
<1>5. V \ Listed = InUse({}, inProgress', hand')
  BY <1>1, <1>3 DEF InUse, Apart
<1>6. Apart({}, inProgress', hand') /\ Listed' = {}
  BY <1>1, <1>3 DEF Apart, Listed
<1>7. MemoryInv'
  BY <1>3, <1>4, <1>5, <1>6, MemoryBecomes
<1>8. Queue'
  <2>1. Len(list') = 0 /\ Len(young') = 0 /\ list' \in Seq(Item(sent))
    BY <1>3
  <2>2. ListSound(list', young')
    BY <1>3, <2>1 DEF ListSound
  <2>3. QED
    BY <1>3, <2>1, <2>2, ListBecomes DEF network
<1>9. Control'
  BY <1>0, <1>3 DEF Control, Flagged, network
<1>10. QED
  BY <1>7, <1>8, <1>9 DEF IInv

LEMMA InvNext == IInv /\ [Next]_vars => IInv'
BY InvOthers, InvSend, InvReads, InvLooks, InvStop DEF Next, Code

\* The list, the buffers and the control agree at every step of every client and network.
THEOREM Invariant == Spec => []IInv
<1>1. Init => IInv
  BY InvInit
<1>2. IInv /\ [Next]_vars => IInv'
  BY InvNext
<1>3. QED
  BY <1>1, <1>2, PTL DEF Spec

-----------------------------------------------------------------------------
(* What follows from it.                                                    *)

LEMMA InvImpliesType == IInv => TypeOK
<1> SUFFICES ASSUME IInv
             PROVE  TypeOK
  OBVIOUS
<1>0. Control /\ Queue /\ MemoryInv
  BY DEF IInv
<1>1. /\ \A i \in 1..Len(list) : list[i] \in Item(sent) /\ list[i].buf \in Listed
      /\ list \in Seq(Item(sent))
  BY <1>0, ItemAt DEF Listed, Queue
<1>2. Listed \subseteq heap /\ NULL \notin Listed /\ savedFree \in BOOLEAN
  <2>1. Accounted(InUse(Listed, inProgress, hand), Memory) /\ Memory.heap = heap /\ Memory.free = savedFree
    BY <1>0 DEF MemoryInv, Memory
  <2>2. heap \subseteq Nat /\ savedFree \in BOOLEAN
    BY <2>1 DEF Accounted, MemoryType
  <2>3. NULL \notin Listed
    BY <1>1, NullIsNoNumber DEF Item, Listed
  <2>4. QED
    BY <2>1, <2>2, <2>3 DEF Accounted, InUse
<1>3. list \in Seq([pos : 1..sent, buf : heap, used : 0..1, first : BOOLEAN])
  <2> DEFINE S == [pos : 1..sent, buf : heap, used : 0..1, first : BOOLEAN]
  <2>1. \A i \in 1..Len(list) : list[i] \in S
    BY <1>1, <1>2 DEF Item
  <2> HIDE DEF S
  <2>2. list \in Seq(S)
    BY <1>1, <2>1
  <2>3. QED
    BY <2>2 DEF S
<1>4. young \in Seq({list[i].pos : i \in 1..Len(list)})
  BY <1>0 DEF Queue, ListSound, Waiting
<1>5. QED
  BY <1>0, <1>2, <1>3, <1>4 DEF TypeOK, Control

\* What the variables hold, whatever the network does.
THEOREM TypeCorrect == Spec => []TypeOK
BY Invariant, InvImpliesType, PTL

LEMMA InvImpliesBuffersSound == IInv => BuffersSound
<1> SUFFICES ASSUME IInv
             PROVE  BuffersSound
  OBVIOUS
<1>0. Control /\ Queue /\ MemoryInv
  BY DEF IInv
<1> DEFINE L == Listed
           R == {inProgress} \ {NULL}
           H == {hand} \ {NULL}
           F == IF savedFree THEN {saved} \ {NULL} ELSE {}
<1>1. /\ Apart(L, inProgress, hand) /\ heap = InUse(L, inProgress, hand) \cup Spare(Memory)
      /\ InUse(L, inProgress, hand) \cap Spare(Memory) = {}
      /\ (saved # NULL => saved \in heap) /\ Spare(Memory) = F /\ heap \subseteq Nat
  BY <1>0 DEF MemoryInv, Accounted, Memory, Spare, MemoryType
<1>2. Whereabouts = <<L, R, H, F>>
  BY DEF Whereabouts
<1>3. NULL \notin L
  BY <1>0, ItemAt, NullIsNoNumber DEF Listed
<1> HIDE DEF L, F
<1>4. InUse(L, inProgress, hand) = L \cup R \cup H
  BY <1>3 DEF InUse
<1>5. L \cap R = {} /\ L \cap H = {} /\ R \cap H = {}
  BY <1>1 DEF Apart
<1> HIDE DEF R, H
<1>6. L \cap F = {} /\ R \cap F = {} /\ H \cap F = {}
  BY <1>1, <1>4
<1>7. \A p, q \in 1..4 : p # q => Whereabouts[p] \cap Whereabouts[q] = {}
  <2>1. Whereabouts[1] = L /\ Whereabouts[2] = R /\ Whereabouts[3] = H /\ Whereabouts[4] = F
    BY <1>2
  <2>2. 1..4 = {1, 2, 3, 4}
    OBVIOUS
  <2>3. QED
    BY <1>5, <1>6, <2>1, <2>2
<1>8. heap = UNION {Whereabouts[p] : p \in 1..4}
  <2>1. Whereabouts[1] = L /\ Whereabouts[2] = R /\ Whereabouts[3] = H /\ Whereabouts[4] = F
    BY <1>2
  <2>2. 1..4 = {1, 2, 3, 4}
    OBVIOUS
  <2>3. {Whereabouts[p] : p \in 1..4} = {L, R, H, F}
    BY <2>1, <2>2
  <2>4. QED
    BY <1>1, <1>4, <2>3
<1>9. IsInjective([i \in 1..Len(list) |-> list[i].buf])
  BY <1>0 DEF IsInjective, Queue, ListSound
<1>10. TypeOK
  BY InvImpliesType
<1>11. QED
  BY <1>1, <1>7, <1>8, <1>9, <1>10 DEF BuffersSound

\* MultiFramedRTPSource.cpp:581-592, 502-507: no packet buffer is lost, and none is
\* deleted while it is listed, filled or handled.
THEOREM BuffersKept == Spec => []BuffersSound
BY Invariant, InvImpliesBuffersSound, PTL

-----------------------------------------------------------------------------
(* Numbers that wrap.                                                       *)

LEMMA Divide ==
  ASSUME NEW a \in Int, NEW n \in Nat \ {0}
  PROVE  a % n \in 0..n - 1 /\ \E q \in Int : a = q * n + (a % n)
<1>1. a % n \in 0..n - 1
  OBVIOUS
<1>2. a = (a \div n) * n + (a % n) /\ a \div n \in Int
  OBVIOUS
<1>3. QED
  BY <1>1, <1>2

LEMMA OneRemainder ==
  ASSUME NEW n \in Nat \ {0}, NEW x \in 0..n - 1, NEW y \in 0..n - 1, NEW q \in Int, NEW r \in Int,
         q * n + x = r * n + y, q >= r
  PROVE  x = y
<1>1. CASE q >= r + 1
  <2>1. (q - r) * n >= n
    <3>1. q - r - 1 \in Nat /\ n \in Nat
      BY <1>1
    <3>2. \A i, j \in Nat : i * j >= 0
      OBVIOUS
    <3>3. (q - r - 1) * n >= 0
      BY <3>1, <3>2
    <3>4. (q - r - 1) * n = (q - r) * n - n
      OBVIOUS
    <3>5. QED
      BY <3>3, <3>4
  <2>2. (q - r) * n = q * n - r * n
    OBVIOUS
  <2>3. QED
    BY <2>1, <2>2
<1>2. CASE q = r
  BY <1>2
<1>3. QED
  BY <1>1, <1>2

LEMMA RemainderIs ==
  ASSUME NEW n \in Nat \ {0}, NEW x \in 0..n - 1, NEW q \in Int
  PROVE  (q * n + x) % n = x
<1> DEFINE a == q * n + x
<1>1. a \in Int
  OBVIOUS
<1> HIDE DEF a
<1>2. PICK r \in Int : a = r * n + (a % n)
  BY <1>1, Divide
<1>3. a % n \in 0..n - 1
  BY <1>1, Divide
<1>4. q * n + x = r * n + (a % n)
  BY <1>2 DEF a
<1>5. a % n = x
  <2>1. CASE q >= r
    BY <1>3, <1>4, <2>1, OneRemainder
  <2>2. CASE r >= q
    BY <1>3, <1>4, <2>2, OneRemainder
  <2>3. QED
    BY <2>1, <2>2
<1>6. QED
  BY <1>5 DEF a

\* What is added shows in the remainder, once around at most.
LEMMA RemainderMoves ==
  ASSUME NEW n \in Nat \ {0}, NEW a \in Int, NEW d \in Int, -n < d, d < n
  PROVE  /\ (a + d) % n \in 0..n - 1
         /\ (a + d) % n \in {(a % n) + d, (a % n) + d - n, (a % n) + d + n}
<1> DEFINE x == a % n
<1>1. PICK q \in Int : a = q * n + x
  BY Divide
<1>2. x \in 0..n - 1
  BY Divide
<1> HIDE DEF x
<1>3. CASE x + d \in 0..n - 1
  <2>1. a + d = q * n + (x + d)
    BY <1>1, <1>2
  <2>2. (a + d) % n = x + d
    BY <1>3, <2>1, RemainderIs, ZenonT(30)
  <2>3. QED
    BY <1>3, <2>2 DEF x
<1>4. CASE x + d >= n
  <2>1. a + d = (q + 1) * n + (x + d - n)
    BY <1>1, <1>2
  <2>2. x + d - n \in 0..n - 1
    BY <1>2, <1>4
  <2>3. (a + d) % n = x + d - n
    <3> DEFINE k == q + 1
               z == x + d - n
    <3>1. k \in Int /\ z \in 0..n - 1 /\ a + d = k * n + z
      BY <2>1, <2>2
    <3> HIDE DEF k, z
    <3>2. (a + d) % n = z
      BY <3>1, RemainderIs
    <3>3. QED
      BY <3>2 DEF z
  <2>4. QED
    BY <2>2, <2>3 DEF x
<1>5. CASE x + d < 0
  <2>1. a + d = (q - 1) * n + (x + d + n)
    BY <1>1, <1>2
  <2>2. x + d + n \in 0..n - 1
    BY <1>2, <1>5
  <2>3. (a + d) % n = x + d + n
    <3> DEFINE k == q - 1
               z == x + d + n
    <3>1. k \in Int /\ z \in 0..n - 1 /\ a + d = k * n + z
      BY <2>1, <2>2
    <3> HIDE DEF k, z
    <3>2. (a + d) % n = z
      BY <3>1, RemainderIs
    <3>3. QED
      BY <3>2 DEF z
  <2>4. QED
    BY <2>2, <2>3 DEF x
<1>6. QED
  BY <1>2, <1>3, <1>4, <1>5

\* Numbers with one remainder stay so when both are moved.
LEMMA RemaindersMove ==
  ASSUME NEW n \in Nat \ {0}, NEW a \in Int, NEW b \in Int, NEW d \in Int, a % n = b % n
  PROVE  (a + d) % n = (b + d) % n
<1> DEFINE x == a % n
           c == b + d
           y == c % n
<1>1. PICK q \in Int : a = q * n + x
  BY Divide
<1>2. PICK r \in Int : b = r * n + x
  BY Divide
<1>3. c \in Int
  OBVIOUS
<1> HIDE DEF c
<1>4. PICK k \in Int : c = k * n + y
  BY <1>3, Divide
<1>5. x \in 0..n - 1 /\ y \in 0..n - 1
  BY <1>3, Divide
<1> DEFINE l == q - r + k
<1>6. l \in Int
  OBVIOUS
<1> HIDE DEF x, y
<1>7. a + d = l * n + y
  <2>1. l * n = q * n - r * n + k * n
    OBVIOUS
  <2>2. QED
    BY <1>1, <1>2, <1>4, <1>5, <2>1 DEF c
<1> HIDE DEF l
<1>8. (l * n + y) % n = y
  BY <1>5, <1>6, RemainderIs
<1>9. (a + d) % n = y
  BY ONLY <1>7, <1>8
<1>10. QED
  BY <1>9 DEF y, c

\* How far apart the packets are that numbers tell apart, and what the statistics say
\* of the first and the last that came.
Received ==
  /\ IF last = NULL THEN tcp => flight = 1..sent
     ELSE /\ last \in 1..sent /\ first \in 1..last
          /\ highest \in Int /\ base \in Int
          /\ highest % SeqNums = SeqNum(last) /\ highest - base = last - first
          /\ IF tcp THEN flight = last + 1..sent ELSE sent - last < Half
  /\ ~tcp => \A p \in flight : p >= sent - 2

LEMMA HalfType == Half \in Nat /\ Half > 2 /\ SeqNums \in Nat \ {0} /\ SeqNums = 2 * Half
                  /\ BaseSeqNum \in 0..SeqNums - 1
BY SeqNumsAssumption

\* The number of a packet d later, and whether it counts as later.
LEMMA NumberMoves ==
  ASSUME NEW l \in Int, NEW p \in Int, -Half < p - l, p - l < Half
  PROVE  /\ SeqNum(p) \in 0..SeqNums - 1 /\ SeqNum(l) \in 0..SeqNums - 1
         /\ SeqNum(p) \in {SeqNum(l) + (p - l), SeqNum(l) + (p - l) - SeqNums, SeqNum(l) + (p - l) + SeqNums}
         /\ SeqNumLT(SeqNum(l), SeqNum(p)) <=> l < p
<1> DEFINE a == BaseSeqNum + l - 1
           d == p - l
           n == SeqNums
<1>1. a \in Int /\ d \in Int /\ n \in Nat \ {0} /\ n = 2 * Half /\ Half \in Nat /\ -n < d /\ d < n
  BY HalfType
<1>2. a + d = BaseSeqNum + p - 1
  BY HalfType
<1>3. SeqNum(l) = a % n /\ SeqNum(p) = (a + d) % n
  BY <1>2 DEF SeqNum
<1>4. l < p <=> d > 0
  OBVIOUS
<1>5. -Half < d /\ d < Half
  OBVIOUS
<1> HIDE DEF a, d, n
<1>6. a % n \in 0..n - 1 /\ (a + d) % n \in 0..n - 1
      /\ (a + d) % n \in {(a % n) + d, (a % n) + d - n, (a % n) + d + n}
  BY <1>1, Divide, RemainderMoves
<1> DEFINE x == a % n
           y == (a + d) % n
<1>7. x \in 0..n - 1 /\ y \in 0..n - 1 /\ y \in {x + d, x + d - n, x + d + n}
  BY <1>6
<1>8. SeqNum(l) = x /\ SeqNum(p) = y
  BY <1>3
<1> HIDE DEF x, y
<1>9. SeqNumLT(x, y) <=> d > 0
  BY <1>1, <1>5, <1>7 DEF SeqNumLT
<1>10. QED
  BY <1>4, <1>7, <1>8, <1>9 DEF d, n

\* The extended number of a packet near the last one.
LEMMA ExtendedIs ==
  ASSUME NEW l \in Int, NEW p \in Int, -Half < p - l, p - l < Half,
         highest \in Int, highest % SeqNums = SeqNum(l)
  PROVE  Extended(SeqNum(p)) = highest + (p - l)
<1> DEFINE x == SeqNum(l)
           y == SeqNum(p)
           d == p - l
<1>1. /\ x \in 0..SeqNums - 1 /\ y \in 0..SeqNums - 1 /\ (SeqNumLT(x, y) <=> d > 0)
      /\ y \in {x + d, x + d - SeqNums, x + d + SeqNums}
  BY NumberMoves
<1>2. d \in Int /\ -Half < d /\ d < Half /\ highest % SeqNums = x
  OBVIOUS
<1> HIDE DEF x, y, d
<1>3. Extended(y) = highest + d
  <2>1. Extended(y) = IF SeqNumLT(x, y)
                      THEN (IF y < x THEN highest - x + SeqNums ELSE highest - x) + y
                      ELSE (IF y - x >= Half THEN highest - x - SeqNums ELSE highest - x) + y
    BY <1>2 DEF Extended
  <2>2. CASE d > 0
    BY <1>1, <1>2, <2>1, <2>2, HalfType
  <2>3. CASE ~(d > 0)
    BY <1>1, <1>2, <2>1, <2>3, HalfType
  <2>4. QED
    BY <2>2, <2>3
<1>4. QED
  BY <1>3 DEF y, d

\* Moved by as much, a number and the statistics still agree.
LEMMA AgreeMoved ==
  ASSUME NEW h \in Int, NEW l \in Int, NEW p \in Int, h % SeqNums = SeqNum(l)
  PROVE  (h + (p - l)) % SeqNums = SeqNum(p)
<1> DEFINE b == BaseSeqNum + l - 1
           d == p - l
<1>1. b \in Int /\ d \in Int /\ b + d = BaseSeqNum + p - 1 /\ h % SeqNums = b % SeqNums
  BY HalfType DEF SeqNum
<1> HIDE DEF b, d
<1>2. (h + d) % SeqNums = (b + d) % SeqNums
  BY <1>1, HalfType, RemaindersMove, ZenonT(30)
<1>3. QED
  BY <1>1, <1>2 DEF d, SeqNum

\* A packet that comes is near the last one, or the next of the stream.
LEMMA NearLast ==
  ASSUME Control, Received, last # NULL, NEW p \in Packets, Take(p)
  PROVE  p \in Int /\ last \in Int /\ -Half < p - last /\ p - last < Half
<1>1. sent \in Nat /\ p \in 1..sent /\ p \in flight
  <2>1. p \in flight /\ flight \subseteq 1..sent /\ sent \in 0..Len(layout) /\ layout \in Layouts
    BY DEF Control, Take
  <2>2. Len(layout) \in Nat
    BY <2>1, LayoutsAssumption
  <2> QED
    BY <2>1, <2>2
<1>2. last \in 1..sent
  BY DEF Received
<1>3. CASE tcp
  <2>1. flight = last + 1..sent /\ p = Min(flight)
    BY <1>3 DEF Received, Take
  <2>2. last + 1 \in flight /\ \A y \in flight : last + 1 <= y
    BY <1>1, <1>2, <2>1
  <2>3. p <= last + 1
    BY <2>1, <2>2 DEF Min
  <2>4. QED
    BY <1>1, <1>2, <2>1, <2>3, HalfType
<1>4. CASE ~tcp
  <2>1. p >= sent - 2 /\ sent - last < Half
    BY <1>1, <1>4 DEF Received
  <2>2. QED
    BY <1>1, <1>2, <2>1, HalfType
<1>5. QED
  BY <1>1, <1>2, <1>3, <1>4

\* TCP: what is received is the earliest that is on its way.
LEMMA EarliestTaken ==
  ASSUME Control, Received, tcp, NEW p \in flight, p = Min(flight)
  PROVE  \A q \in flight : p <= q
<1>1. sent \in Nat
  BY LayoutsAssumption DEF Control
<1>2. CASE last = NULL
  <2>1. flight = 1..sent
    BY <1>2 DEF Received
  <2>2. 1 \in flight /\ \A q \in flight : 1 <= q
    BY <1>1, <2>1
  <2> QED
    BY <2>2 DEF Min
<1>3. CASE last # NULL
  <2>1. flight = last + 1..sent /\ last \in 1..sent
    BY <1>3 DEF Received
  <2>2. last + 1 \in flight /\ \A q \in flight : last + 1 <= q
    BY <1>1, <2>1
  <2> QED
    BY <2>2 DEF Min
<1> QED
  BY <1>2, <1>3

LEMMA ReceivedRead ==
  ASSUME Control, Received, NEW p \in Packets, Take(p), NoteIncomingPacket(p)
  PROVE  Received'
<1>0. /\ sent \in Nat /\ p \in 1..sent /\ p \in flight /\ UNCHANGED <<layout, tcp, sent>> /\ tcp \in BOOLEAN
      /\ flight \subseteq 1..sent
  BY LayoutsAssumption DEF Control, Take
<1>1. flight' \in SUBSET flight
  BY DEF Take
<1>2. ~tcp' => \A q \in flight' : q >= sent' - 2
  BY <1>0, <1>1 DEF Received
<1>3. tcp => p = Min(flight) /\ flight' = flight \ {p}
  BY DEF Take
<1>4. ASSUME tcp PROVE \A q \in flight : p <= q
  BY <1>0, <1>3, <1>4, EarliestTaken
<1>5. CASE last = NULL
  <2>1. /\ base' = SeqNums + SeqNum(p) /\ highest' = SeqNums + SeqNum(p) /\ first' = p /\ last' = p
    BY <1>5 DEF NoteIncomingPacket
  <2>2. SeqNum(p) \in 0..SeqNums - 1
    BY <1>0, NumberType
  <2>3. highest' % SeqNums = SeqNum(p)
    <3>1. (1 * SeqNums + SeqNum(p)) % SeqNums = SeqNum(p)
      BY <2>2, HalfType, RemainderIs
    <3>2. 1 * SeqNums + SeqNum(p) = SeqNums + SeqNum(p)
      BY <2>2, HalfType
    <3>3. QED
      BY <2>1, <3>1, <3>2
  <2>4. tcp => flight' = p + 1..sent
    <3>1. tcp => flight = 1..sent
      BY <1>5 DEF Received
    <3>2. tcp => p = 1
      BY <1>0, <1>4, <3>1
    <3>3. ASSUME tcp PROVE flight' = p + 1..sent
      <4>1. p = 1 /\ flight' = flight \ {1} /\ flight = 1..sent
        BY <1>3, <3>1, <3>2, <3>3
      <4>2. 1..sent \ {1} = 1 + 1..sent
        BY <1>0
      <4>3. QED
        BY <4>1, <4>2
    <3>4. QED
      BY <1>0, <3>3
  <2>5. ~tcp => sent - p < Half
    BY <1>0, HalfType DEF Received
  <2>6. /\ last' \in 1..sent' /\ first' \in 1..last' /\ highest' \in Int /\ base' \in Int
        /\ highest' - base' = last' - first'
    BY <1>0, <2>1, <2>2, HalfType
  <2>7. last' # NULL
    BY <2>6, NullAssumption
  <2>8. SeqNum(last)' = SeqNum(p)
    BY <2>1 DEF SeqNum
  <2>9. QED
    BY <1>0, <1>2, <2>1, <2>3, <2>4, <2>5, <2>6, <2>7, <2>8 DEF Received
<1>6. CASE last # NULL
  <2>1. /\ last \in 1..sent /\ first \in 1..last /\ highest \in Int /\ base \in Int
        /\ highest % SeqNums = SeqNum(last) /\ highest - base = last - first
        /\ IF tcp THEN flight = last + 1..sent ELSE sent - last < Half
    BY <1>6 DEF Received
  <2>2. p \in Int /\ last \in Int /\ -Half < p - last /\ p - last < Half
    BY <1>6, NearLast
  <2>3. SeqNumLT(highest % SeqNums, SeqNum(p)) <=> last < p
    BY <2>1, <2>2, NumberMoves
  <2>4. Extended(SeqNum(p)) = highest + (p - last)
    BY <2>1, <2>2, ExtendedIs
  <2>5. /\ highest' = IF SeqNumLT(highest % SeqNums, SeqNum(p)) /\ Extended(SeqNum(p)) > highest
                      THEN Extended(SeqNum(p)) ELSE highest
        /\ base' = IF ~SeqNumLT(highest % SeqNums, SeqNum(p)) /\ Extended(SeqNum(p)) < base
                   THEN Extended(SeqNum(p)) ELSE base
        /\ first' = Min({first, p}) /\ last' = Max({last, p})
    BY <1>6 DEF NoteIncomingPacket
  <2>6. /\ highest' = IF last < p THEN highest + (p - last) ELSE highest
        /\ base' = IF p < first THEN highest + (p - last) ELSE base
    BY <2>1, <2>2, <2>3, <2>4, <2>5
  <2>7. first' = (IF p < first THEN p ELSE first) /\ last' = (IF last < p THEN p ELSE last)
    <3>1. first \in Int /\ last \in Int /\ p \in Int
      BY <2>1, <2>2
    <3>2. Min({first, p}) = IF p < first THEN p ELSE first
      BY <3>1 DEF Min
    <3>3. Max({last, p}) = IF last < p THEN p ELSE last
      BY <3>1 DEF Max
    <3>4. QED
      BY <2>5, <3>2, <3>3
  <2>8. /\ last' \in 1..sent' /\ first' \in 1..last' /\ highest' \in Int /\ base' \in Int
        /\ highest' - base' = last' - first'
    BY <1>0, <2>1, <2>6, <2>7
  <2>9. highest' % SeqNums = SeqNum(last')
    <3>1. (highest + (p - last)) % SeqNums = SeqNum(p)
      BY <2>1, <2>2, AgreeMoved
    <3>2. QED
      BY <2>1, <2>6, <2>7, <3>1
  <2>10. tcp => flight' = last' + 1..sent'
    <3>1. tcp => p = last + 1
      <4>1. tcp => last + 1 \in flight /\ p \in last + 1..sent
        BY <1>0, <2>1
      <4>2. QED
        BY <1>0, <1>4, <2>1, <4>1
    <3>2. ASSUME tcp PROVE flight' = last' + 1..sent
      <4>1. p = last + 1 /\ flight' = flight \ {p} /\ flight = last + 1..sent /\ last' = p
        BY <1>3, <2>1, <2>2, <2>7, <3>1, <3>2
      <4>2. (last + 1..sent) \ {last + 1} = last + 1 + 1..sent
        BY <1>0, <2>2
      <4>3. QED
        BY <4>1, <4>2
    <3>3. QED
      BY <1>0, <3>2
  <2>11. ~tcp => sent' - last' < Half
    BY <1>0, <2>1, <2>7, HalfType
  <2>12. last' # NULL /\ SeqNum(last)' = SeqNum(last')
    BY <2>8, NullAssumption DEF SeqNum
  <2>13. QED
    BY <1>0, <1>2, <2>8, <2>9, <2>10, <2>11, <2>12 DEF Received
<1>7. QED
  BY <1>5, <1>6

LEMMA ReceivedSend ==
  ASSUME Control, Received, Send
  PROVE  Received'
<1>1. /\ sent \in Nat /\ sent' = sent + 1 /\ UNCHANGED <<tcp, first, last, base, highest>>
      /\ flight' = (IF tcp THEN flight \cup {sent + 1} ELSE {p \in flight : p >= sent - 1} \cup {sent + 1})
      /\ InReach(SeqNum(sent + 1)) /\ flight \subseteq 1..sent
  BY LayoutsAssumption DEF Send, Control, stats
<1>2. ~tcp' => \A p \in flight' : p >= sent' - 2
  BY <1>1
<1>3. CASE last = NULL
  <2>1. tcp' => flight' = 1..sent'
    BY <1>1, <1>3 DEF Received
  <2>2. QED
    BY <1>1, <1>2, <1>3, <2>1 DEF Received
<1>4. CASE last # NULL
  <2>1. /\ last \in 1..sent /\ first \in 1..last /\ highest \in Int /\ base \in Int
        /\ highest % SeqNums = SeqNum(last) /\ highest - base = last - first
        /\ IF tcp THEN flight = last + 1..sent ELSE sent - last < Half
    BY <1>4 DEF Received
  <2>2. tcp => flight' = last + 1..sent'
    BY <1>1, <2>1
  <2>3. ~tcp => sent' - last < Half
    <3>0. SUFFICES ASSUME ~tcp PROVE sent' - last < Half
      OBVIOUS
    <3> DEFINE s == SeqNum(sent + 1)
               d == sent + 1 - last
    <3>1. (s - highest) % SeqNums < Half
      BY <1>1, <1>4 DEF InReach
    <3>2. d \in Nat /\ 0 < d /\ d <= Half /\ highest % SeqNums = SeqNum(last)
      <4>1. sent - last < Half /\ last \in 1..sent /\ sent \in Nat
        BY <1>1, <2>1, <3>0
      <4>2. QED
        BY <2>1, <4>1, HalfType
    <3>3. s % SeqNums = s /\ s \in Int
      <4>1. s \in 0..SeqNums - 1
        BY <1>1, NumberType
      <4>2. (0 * SeqNums + s) % SeqNums = s /\ 0 * SeqNums + s = s
        BY <4>1, HalfType, RemainderIs
      <4>3. QED
        BY <4>1, <4>2
    <3>4. (highest + d) % SeqNums = s
      <4> DEFINE p == sent + 1
      <4>1. last \in Int /\ p \in Int
        BY <1>1, <2>1
      <4>2. highest \in Int /\ highest % SeqNums = SeqNum(last)
        BY <2>1
      <4> HIDE DEF p
      <4>3. (highest + (p - last)) % SeqNums = SeqNum(p)
        BY <4>1, <4>2, AgreeMoved
      <4>4. p - last = d
        BY <1>1, <2>1 DEF p
      <4>5. SeqNum(p) = s
        BY DEF p
      <4> HIDE DEF s, d
      <4>6. QED
        BY <4>3, <4>4, <4>5
    <3> HIDE DEF s, d
    <3>5. (s - highest) % SeqNums = d
      <4> DEFINE e == highest + d
      <4>1. e \in Int /\ e % SeqNums = s % SeqNums /\ -highest \in Int
        BY <2>1, <3>2, <3>3, <3>4
      <4>2. e + (-highest) = d /\ s + (-highest) = s - highest
        BY <2>1, <3>2, <3>3
      <4> HIDE DEF e
      <4>3. (e + (-highest)) % SeqNums = (s + (-highest)) % SeqNums
        BY <3>3, <4>1, HalfType, RemaindersMove
      <4>4. d % SeqNums = d
        <5>1. d \in 0..SeqNums - 1
          BY <3>2, HalfType
        <5>2. (0 * SeqNums + d) % SeqNums = d /\ 0 * SeqNums + d = d
          BY <5>1, HalfType, RemainderIs
        <5>3. QED
          BY <5>2
      <4>5. QED
        BY <4>2, <4>3, <4>4
    <3>6. d < Half
      BY ONLY <3>1, <3>5
    <3>7. sent' - last = d
      BY <1>1, <2>1 DEF d
    <3>8. QED
      BY <3>6, <3>7
  <2>4. last \in 1..sent'
    BY <1>1, <2>1
  <2>5. QED
    BY <1>1, <1>2, <1>4, <2>1, <2>2, <2>3, <2>4 DEF Received, SeqNum
<1>5. QED
  BY <1>3, <1>4

LEMMA ReceivedNext == IInv /\ Received /\ [Next]_vars => Received'
<1> SUFFICES ASSUME Control, Received, [Next]_vars
             PROVE  Received'
  BY DEF IInv
<1>1. CASE Send
  BY <1>1, ReceivedSend
<1>2. ASSUME NEW p \in Packets, Read(p)
      PROVE  Received'
  BY <1>2, ReceivedRead DEF Read, Store
<1>3. CASE UNCHANGED <<network, stats>>
  BY <1>3 DEF Received, network, stats, SeqNum
<1>4. CASE \/ Age \/ ReadPart \/ ReadOther \/ Code \/ GetNextFrame \/ ClientReturns \/ StopGettingFrames
           \/ UNCHANGED vars
  BY <1>3, <1>4 DEF Age, ReadPart, ReadOther, Code, OtherFreed, Reject, Drop, Use, Wait, AfterGetting,
       GetNextFrame, ClientReturns, StopGettingFrames, vars
<1>5. QED
  BY <1>1, <1>2, <1>4 DEF Next

LEMMA ReceivedRight == Control /\ Received => ExtendedRight
<1> SUFFICES ASSUME Control, Received, last # NULL
             PROVE  /\ highest % SeqNums = SeqNum(last) /\ base % SeqNums = SeqNum(first)
                    /\ highest - base = last - first
  BY DEF ExtendedRight
<1>1. /\ last \in Int /\ first \in Int /\ highest \in Int /\ base \in Int
      /\ highest % SeqNums = SeqNum(last) /\ highest - base = last - first
  BY LayoutsAssumption DEF Received, Control
<1>2. (highest + (first - last)) % SeqNums = SeqNum(first)
  BY <1>1, AgreeMoved
<1>3. highest + (first - last) = base
  BY <1>1
<1>4. QED
  BY <1>1, <1>2, <1>3

\* RTPSource.cpp:248-276: whatever UDP loses, repeats and overtakes, and wherever the
\* numbers wrap, the extended numbers are those of the first and the last packet.
THEOREM NumbersExtended == Spec => []ExtendedRight
<1>1. Init => IInv /\ Received
  <2>1. Init => Received
    BY DEF Init, Received
  <2>2. QED
    BY <2>1, InvInit
<1>2. IInv /\ Received /\ [Next]_vars => (IInv /\ Received)'
  BY InvNext, ReceivedNext
<1>3. IInv /\ Received => ExtendedRight
  BY ReceivedRight DEF IInv
<1>4. QED
  BY <1>1, <1>2, <1>3, PTL DEF Spec

-----------------------------------------------------------------------------
(* Frames: where the packets of the list are in the stream.                 *)

\* The expected number is that of packet e, and what is sent tells it apart.
Window(e) == e \in 1..sent + 1 /\ SeqNum(e) = expected /\ sent - e < Half

\* The list is in the order of the stream; only its head, if it is the expected packet,
\* is used in part or the first one.
Sorted(l, e) ==
  /\ \A i \in 1..Len(l) : l[i].pos >= e
  /\ \A i, j \in 1..Len(l) : i < j => l[i].pos < l[j].pos
  /\ \A i \in 1..Len(l) : (l[i].used = 1 \/ l[i].first = TRUE) => i = 1 /\ l[i].pos = e

\* TCP delivers in order; UDP at most two packets late.
Ahead(l, e) == tcp => \A p \in flight : p >= e /\ \A i \in 1..Len(l) : l[i].pos < p
OnWay == \A p \in flight : sent - p < Half

Position(e) == Window(e) /\ Sorted(list, e) /\ Ahead(list, e)

LEMMA FarEnough == Half > 3
BY SeqNumsAssumption

\* Within half of the numbers, a number tells a packet.
LEMMA SameNumber ==
  ASSUME NEW l \in Int, NEW p \in Int, -Half < p - l, p - l < Half
  PROVE  /\ SeqNumLT(SeqNum(l), SeqNum(p)) <=> l < p
         /\ SeqNumLT(SeqNum(p), SeqNum(l)) <=> p < l
         /\ SeqNum(l) = SeqNum(p) => l = p
<1>1. SeqNumLT(SeqNum(l), SeqNum(p)) <=> l < p
  BY NumberMoves
<1>2. SeqNumLT(SeqNum(p), SeqNum(l)) <=> p < l
  <2>1. -Half < l - p /\ l - p < Half
    BY HalfType
  <2> QED
    BY <2>1, NumberMoves
<1>3. ASSUME SeqNum(l) = SeqNum(p) PROVE l = p
  <2>1. ~(l < p) \/ ~(p < l)
    OBVIOUS
  <2>2. l < p <=> p < l
    BY <1>1, <1>2, <1>3
  <2> QED
    BY <2>1, <2>2
<1> QED
  BY <1>1, <1>2, <1>3

\* How far a number is ahead of another.
LEMMA ReachIs ==
  ASSUME NEW e \in Int, NEW q \in Int, 0 <= q - e, q - e <= Half
  PROVE  (SeqNum(q) - SeqNum(e)) % SeqNums = q - e
<1> DEFINE a == BaseSeqNum + e - 1
           d == q - e
           n == SeqNums
           x == a % n
           y == (a + d) % n
<1>1. a \in Int /\ d \in Int /\ n \in Nat \ {0} /\ n = 2 * Half /\ Half \in Nat /\ Half > 0
      /\ -n < d /\ d < n /\ 0 <= d
  BY HalfType
<1>2. SeqNum(e) = x /\ SeqNum(q) = y
  <2>1. a + d = BaseSeqNum + q - 1
    BY HalfType
  <2> QED
    BY <2>1 DEF SeqNum
<1> HIDE DEF a, d, n
<1>3. x \in 0..n - 1 /\ y \in {x + d, x + d - n, x + d + n}
  BY <1>1, Divide, RemainderMoves
<1> HIDE DEF x, y
<1>4. PICK k \in {0, -1, 1} : y - x = k * n + d
  BY <1>1, <1>3
<1>5. k \in Int /\ d \in 0..n - 1
  BY <1>1, <1>4
<1>6. (k * n + d) % n = d
  BY <1>1, <1>5, RemainderIs
<1>7. (y - x) % n = d
  BY ONLY <1>4, <1>6
<1> QED
  BY <1>2, <1>7 DEF d, n

\* The number after that of a packet.
LEMMA NumberAfter ==
  ASSUME NEW p \in Nat \ {0}
  PROVE  (SeqNum(p) + 1) % SeqNums = SeqNum(p + 1)
<1> DEFINE h == SeqNum(p)
           q == p + 1
<1>1. h \in 0..SeqNums - 1
  BY NumberType
<1>2. h \in Int /\ h % SeqNums = h
  <2>1. (0 * SeqNums + h) % SeqNums = h /\ 0 * SeqNums + h = h
    BY <1>1, HalfType, RemainderIs
  <2> QED
    BY <1>1, <2>1
<1>3. q \in Int /\ p \in Int /\ q - p = 1
  OBVIOUS
<1> HIDE DEF q
<1>4. h % SeqNums = SeqNum(p)
  BY <1>2
<1> HIDE DEF h
<1>5. (h + (q - p)) % SeqNums = SeqNum(q)
  BY <1>2, <1>3, <1>4, AgreeMoved
<1>6. (h + 1) % SeqNums = SeqNum(q)
  BY ONLY <1>3, <1>5
<1> QED
  BY <1>6 DEF h, q

\* What is closed downwards is an initial segment.
LEMMA InitialSegment ==
  ASSUME NEW n \in Nat, NEW S \in SUBSET (1..n), \A i \in S : \A j \in 1..i : j \in S
  PROVE  Cardinality(S) \in Nat /\ S = 1..Cardinality(S)
<1> DEFINE c == Cardinality(S)
<1>1. IsFiniteSet(1..n) /\ IsFiniteSet(S)
  <2>1. 1 \in Int /\ n \in Int
    OBVIOUS
  <2>2. IsFiniteSet(1..n)
    BY <2>1, FS_Interval
  <2> QED
    BY <2>2, FS_Subset
<1>2. c \in Nat
  BY <1>1, FS_CardinalityType
<1> HIDE DEF c
<1>3. S \subseteq 1..c
  <2> SUFFICES ASSUME NEW i \in S PROVE i \in 1..c
    OBVIOUS
  <2>1. i \in Nat /\ i >= 1 /\ 1..i \subseteq S
    OBVIOUS
  <2>2. Cardinality(1..i) <= Cardinality(S)
    BY <1>1, <2>1, FS_Subset
  <2>3. Cardinality(1..i) = i
    BY <2>1, FS_Interval
  <2> QED
    BY <1>2, <2>1, <2>2, <2>3 DEF c
<1>4. IsFiniteSet(1..c) /\ Cardinality(1..c) = c
  BY <1>2, FS_Interval
<1>5. S = 1..c
  BY <1>3, <1>4, FS_Subset DEF c
<1> QED
  BY <1>2, <1>5 DEF c

\* The list as Sorted sees it.
LEMMA SortedAt ==
  ASSUME Queue, sent \in Nat, NEW e, Sorted(list, e)
  PROVE  /\ Len(list) \in Nat
         /\ \A i \in 1..Len(list) : list[i].pos \in 1..sent /\ list[i].pos >= e
                                    /\ list[i].used \in 0..1 /\ list[i].first \in BOOLEAN
         /\ \A i, j \in 1..Len(list) : i < j => list[i].pos < list[j].pos
         /\ \A i \in 1..Len(list) : (list[i].used = 1 \/ list[i].first = TRUE) => i = 1 /\ list[i].pos = e
<1>1. Len(list) \in Nat
  BY DEF Queue
<1>2. \A i \in 1..Len(list) : list[i].pos \in 1..sent /\ list[i].used \in 0..1 /\ list[i].first \in BOOLEAN
  BY ItemAt
<1> QED
  BY <1>1, <1>2 DEF Sorted

\* A packet that is not too far away is stored in its place.
LEMMA PlacedRight ==
  ASSUME Queue, sent \in Nat, NEW e \in 1..sent + 1, sent - e < Half, Sorted(list, e),
         NEW p \in 1..sent, -Half < p - e, NEW i, i = Place(SeqNum(p), SeqNum(e)), i # 0
  PROVE  /\ i \in 1..Len(list) + 1 /\ p >= e
         /\ \A j \in 1..Len(list) : /\ j < i => list[j].pos < p
                                    /\ j >= i => list[j].pos > p
<1> DEFINE s == SeqNum(p)
           P(j) == list[j].pos
<1>1. ~SeqNumLT(s, SeqNum(e)) /\ \A j \in 1..Len(list) : Number(j) # s
  BY DEF Place
<1>2. p >= e
  <2>1. p \in Int /\ e \in Int /\ p - e < Half
    BY HalfType
  <2>2. SeqNumLT(SeqNum(p), SeqNum(e)) <=> p < e
    BY <2>1, SameNumber
  <2> QED
    BY <1>1, <2>1, <2>2
<1>3. /\ Len(list) \in Nat
      /\ \A j \in 1..Len(list) : P(j) \in Int /\ P(j) >= e /\ P(j) <= sent
      /\ \A j, k \in 1..Len(list) : j < k => P(j) < P(k)
  <2>1. /\ Len(list) \in Nat
        /\ \A j \in 1..Len(list) : list[j].pos \in 1..sent /\ list[j].pos >= e
        /\ \A j, k \in 1..Len(list) : j < k => list[j].pos < list[k].pos
    BY SortedAt
  <2> QED
    BY <2>1
<1>4. ASSUME NEW j \in 1..Len(list)
      PROVE  /\ SeqNumLT(s, Number(j)) <=> p < P(j)
             /\ SeqNumLT(Number(j), s) <=> P(j) < p
             /\ P(j) # p
  <2> DEFINE q == list[j].pos
  <2>1. q \in Int /\ p \in Int /\ -Half < p - q /\ p - q < Half
    BY <1>2, <1>3, HalfType
  <2>2. Number(j) = SeqNum(q)
    BY DEF Number
  <2>3. q # p
    BY <1>1, <2>2
  <2> HIDE DEF q
  <2>4. /\ SeqNumLT(SeqNum(q), SeqNum(p)) <=> q < p
        /\ SeqNumLT(SeqNum(p), SeqNum(q)) <=> p < q
    BY <2>1, SameNumber
  <2> QED
    BY <2>2, <2>3, <2>4 DEF q
<1> HIDE DEF s, P
<1>5. CASE list = <<>> \/ SeqNumLT(Number(Len(list)), s)
  <2>1. i = Len(list) + 1
    BY <1>1, <1>5 DEF Place, s
  <2>2. ASSUME NEW j \in 1..Len(list) PROVE P(j) < p
    <3>1. Len(list) \in 1..Len(list) /\ list # <<>>
      BY <1>3
    <3>2. P(Len(list)) < p
      BY <1>4, <1>5, <3>1
    <3>3. j = Len(list) \/ P(j) < P(Len(list))
      BY <1>3, <3>1
    <3> QED
      BY <1>3, <3>1, <3>2, <3>3
  <2> QED
    BY <1>2, <1>3, <2>1, <2>2 DEF P
<1>6. CASE ~(list = <<>> \/ SeqNumLT(Number(Len(list)), s))
  <2> DEFINE S == Passed(s)
             c == Cardinality(S)
  <2>1. i = c + 1
    BY <1>1, <1>6 DEF Place, s
  <2>2. S = {k \in 1..Len(list) : \A j \in 1..k : ~SeqNumLT(s, Number(j))}
    BY DEF Passed
  <2>3. S \in SUBSET (1..Len(list)) /\ \A k \in S : \A j \in 1..k : j \in S
    <3>1. ASSUME NEW k \in S, NEW j \in 1..k PROVE j \in S
      <4>1. k \in 1..Len(list) /\ \A m \in 1..k : ~SeqNumLT(s, Number(m))
        BY <2>2
      <4>2. j \in 1..Len(list) /\ \A m \in 1..j : m \in 1..k
        BY <1>3, <4>1
      <4> QED
        BY <2>2, <4>1, <4>2
    <3> QED
      BY <2>2, <3>1
  <2> HIDE DEF S
  <2>4. c \in Nat /\ S = 1..c
    BY <1>3, <2>3, InitialSegment
  <2> HIDE DEF c
  <2>5. ASSUME NEW j \in 1..Len(list), j < i PROVE P(j) < p
    <3>1. j \in S /\ j \in 1..j
      BY <2>1, <2>4, <2>5
    <3>2. ~SeqNumLT(s, Number(j))
      BY <2>2, <3>1
    <3> QED
      BY <1>3, <1>4, <3>2
  <2>6. ASSUME NEW j \in 1..Len(list), j >= i PROVE P(j) > p
    <3>1. j \notin S
      BY <2>1, <2>4, <2>6
    <3>2. PICK k \in 1..j : SeqNumLT(s, Number(k))
      BY <2>2, <3>1
    <3>3. k \in 1..Len(list) /\ (k = j \/ k < j)
      BY <1>3
    <3>4. p < P(k)
      BY <1>4, <3>2, <3>3
    <3>5. k = j \/ P(k) < P(j)
      BY <1>3, <3>3
    <3> QED
      BY <1>3, <3>3, <3>4, <3>5
  <2>7. c <= Len(list)
    <3>1. c = 0 \/ c \in S
      BY <2>4
    <3>2. CASE c = 0
      BY <1>3, <3>2
    <3>3. CASE c \in S
      <4>1. c \in 1..Len(list)
        BY <2>3, <3>3
      <4> QED
        BY <1>3, <4>1
    <3> QED
      BY <3>1, <3>2, <3>3
  <2> QED
    BY <1>2, <1>3, <2>1, <2>4, <2>5, <2>6, <2>7 DEF P
<1> QED
  BY <1>5, <1>6

\* It is inserted.
Fits(i, x, e) ==
  /\ e \in Int /\ i \in 1..Len(list) + 1 /\ x \in Item(sent)
  /\ x.used = 0 /\ x.pos >= e /\ (x.first = TRUE => (list = <<>> /\ x.pos = e))
  /\ \A j \in 1..Len(list) : (j < i => list[j].pos < x.pos) /\ (j >= i => list[j].pos > x.pos)
Inserted(q, x, e) ==
  /\ Sorted(q, e) /\ Len(q) = Len(list) + 1
  /\ list # <<>> => q[1].used = list[1].used /\ q[1].first = list[1].first
  /\ list = <<>> => q[1] = x
  /\ \A j \in 1..Len(q) : q[j].pos = x.pos \/ \E k \in 1..Len(list) : q[j].pos = list[k].pos

LEMMA InsertSorted ==
  ASSUME Queue, sent \in Nat, NEW e, Sorted(list, e), NEW i, NEW x, Fits(i, x, e),
         NEW q, q = InsertAt(list, i, x)
  PROVE  Inserted(q, x, e)
<1>0. /\ e \in Int /\ i \in 1..Len(list) + 1 /\ x \in Item(sent)
      /\ x.used = 0 /\ x.pos >= e /\ (x.first = TRUE => (list = <<>> /\ x.pos = e))
      /\ \A j \in 1..Len(list) : (j < i => list[j].pos < x.pos) /\ (j >= i => list[j].pos > x.pos)
  BY DEF Fits
<1>1. /\ Len(list) \in Nat
      /\ \A j \in 1..Len(list) : list[j].pos \in 1..sent /\ list[j].pos >= e
                                 /\ list[j].used \in 0..1 /\ list[j].first \in BOOLEAN
      /\ \A j, k \in 1..Len(list) : j < k => list[j].pos < list[k].pos
      /\ \A j \in 1..Len(list) : (list[j].used = 1 \/ list[j].first = TRUE) => j = 1 /\ list[j].pos = e
  BY SortedAt
<1>2. x.pos \in 1..sent /\ x.first \in BOOLEAN
  BY <1>0 DEF Item
<1>3. /\ Len(q) = Len(list) + 1
      /\ \A k \in 1..Len(list) + 1 : q[k] = IF k < i THEN list[k] ELSE IF k = i THEN x ELSE list[k - 1]
  <2>1. list \in Seq(Item(sent))
    BY DEF Queue
  <2> QED
    BY <1>0, <2>1, InsertIs
<1>4. ASSUME NEW k \in 1..Len(q)
      PROVE  \/ k < i /\ k \in 1..Len(list) /\ q[k] = list[k]
             \/ k = i /\ q[k] = x
             \/ k > i /\ k - 1 \in 1..Len(list) /\ k - 1 >= i /\ q[k] = list[k - 1]
  BY <1>0, <1>1, <1>3
<1>5. ASSUME NEW k \in 1..Len(q) PROVE q[k].pos >= e
  BY <1>0, <1>1, <1>4
<1>6. ASSUME NEW k \in 1..Len(q), NEW j \in 1..Len(q), k < j PROVE q[k].pos < q[j].pos
  <2>1. CASE k < i /\ j < i
    <3>1. k \in 1..Len(list) /\ j \in 1..Len(list) /\ q[k] = list[k] /\ q[j] = list[j]
      BY <1>0, <1>3, <1>4, <2>1
    <3> QED
      BY <1>1, <1>6, <3>1
  <2>2. CASE k < i /\ j = i
    BY <1>0, <1>4, <2>2
  <2>3. CASE k < i /\ j > i
    <3> DEFINE m == j - 1
    <3>1. k \in 1..Len(list) /\ m \in 1..Len(list) /\ k < m /\ q[k] = list[k] /\ q[j] = list[m]
      BY <1>0, <1>1, <1>3, <1>4, <2>3
    <3> HIDE DEF m
    <3> QED
      BY <1>1, <3>1
  <2>4. CASE k = i /\ j > i
    <3> DEFINE m == j - 1
    <3>1. m \in 1..Len(list) /\ m >= i /\ q[k] = x /\ q[j] = list[m]
      BY <1>0, <1>4, <2>4
    <3> HIDE DEF m
    <3>2. list[m].pos > x.pos /\ list[m].pos \in Int
      BY <1>0, <1>1, <3>1
    <3> QED
      BY <1>2, <3>1, <3>2
  <2>5. CASE k > i /\ j > i
    <3> DEFINE m == j - 1  n == k - 1
    <3>1. m \in 1..Len(list) /\ n \in 1..Len(list) /\ n < m /\ q[k] = list[n] /\ q[j] = list[m]
      BY <1>0, <1>1, <1>3, <1>4, <1>6, <2>5
    <3> HIDE DEF m, n
    <3> QED
      BY <1>1, <3>1
  <2> QED
    BY <1>0, <1>1, <1>3, <1>6, <2>1, <2>2, <2>3, <2>4, <2>5
<1>7. ASSUME list # <<>> PROVE q[1].used = list[1].used /\ q[1].first = list[1].first
  <2>1. 1 \in 1..Len(list) /\ 1 \in 1..Len(q)
    BY <1>1, <1>3, <1>7
  <2>2. CASE i = 1
    <3>1. q[1] = x /\ list[1].pos > x.pos /\ list[1].pos > e
      BY <1>0, <1>1, <1>2, <1>4, <2>1, <2>2
    <3>2. list[1].used # 1 /\ list[1].first # TRUE
      <4>1. list[1].pos # e
        BY <1>1, <2>1, <3>1
      <4> QED
        BY <1>1, <2>1, <4>1
    <3>3. list[1].used = 0
      BY <1>1, <2>1, <3>2
    <3>4. list[1].first = FALSE
      BY <1>1, <2>1, <3>2, Zenon
    <3>5. x.first = FALSE
      BY <1>0, <1>2, <1>7, Zenon
    <3> QED
      BY <1>0, <3>1, <3>3, <3>4, <3>5
  <2>3. CASE i # 1
    BY <1>0, <1>1, <1>4, <2>1, <2>3
  <2> QED
    BY <2>2, <2>3
<1>8. ASSUME list = <<>> PROVE q[1] = x
  BY <1>0, <1>3, <1>8
<1>9. ASSUME NEW k \in 1..Len(q), q[k].used = 1 \/ q[k].first = TRUE
      PROVE  k = 1 /\ q[k].pos = e
  <2>1. CASE list = <<>>
    <3>1. k = 1 /\ q[k] = x
      BY <1>3, <1>8, <2>1
    <3> QED
      BY <1>0, <1>9, <2>1, <3>1
  <2>2. CASE list # <<>>
    <3>1. CASE k < i
      <4>1. k \in 1..Len(list) /\ q[k] = list[k]
        BY <1>0, <1>4, <3>1
      <4> QED
        BY <1>1, <1>9, <4>1
    <3>2. CASE k = i
      BY <1>0, <1>4, <1>9, <2>2, <3>2
    <3>3. CASE k > i
      <4> DEFINE m == k - 1
      <4>1. m \in 1..Len(list) /\ m >= i /\ q[k] = list[m]
        BY <1>0, <1>4, <3>3
      <4> HIDE DEF m
      <4>2. m = 1 /\ list[m].pos = e /\ list[m].pos > x.pos
        BY <1>0, <1>1, <1>9, <4>1
      <4> QED
        BY <1>0, <1>2, <4>2
    <3> QED
      BY <1>0, <1>3, <3>1, <3>2, <3>3
  <2> QED
    BY <2>1, <2>2
<1>10. ASSUME NEW k \in 1..Len(q)
       PROVE  q[k].pos = x.pos \/ \E j \in 1..Len(list) : q[k].pos = list[j].pos
  BY <1>4
<1>11. Sorted(q, e)
  BY <1>5, <1>6, <1>9 DEF Sorted
<1> QED
  BY <1>3, <1>7, <1>8, <1>10, <1>11 DEF Inserted

\* The head is released, or used in part.
LEMMA TailSorted ==
  ASSUME Queue, sent \in Nat, NEW e \in Int, Sorted(list, e), list # <<>>, NEW q, q = Tail(list)
  PROVE  /\ Sorted(q, list[1].pos + 1)
         /\ q # <<>> => q[1].used # 1 /\ q[1].first # TRUE
<1> DEFINE n == Len(list)
           h == list[1].pos
<1>1. /\ n \in Nat /\ n > 0
      /\ \A j \in 1..n : list[j].pos \in 1..sent
      /\ \A j, k \in 1..n : j < k => list[j].pos < list[k].pos
      /\ \A j \in 1..n : (list[j].used = 1 \/ list[j].first = TRUE) => j = 1
  <2>1. n \in Nat /\ n > 0
    BY DEF Queue
  <2> QED
    BY <2>1, SortedAt
<1>2. Len(q) = n - 1 /\ \A k \in 1..n - 1 : q[k] = list[k + 1]
  BY DEF Queue
<1> HIDE DEF n
<1>3. ASSUME NEW k \in 1..Len(q)
      PROVE  q[k].pos >= h + 1 /\ q[k].used # 1 /\ q[k].first # TRUE
  <2> DEFINE m == k + 1
  <2>1. m \in 1..n /\ 1 \in 1..n /\ 1 < m /\ q[k] = list[m]
    BY <1>1, <1>2
  <2> HIDE DEF m
  <2>2. list[1].pos < list[m].pos /\ list[1].pos \in Int /\ list[m].pos \in Int
    BY <1>1, <2>1
  <2>3. q[k].used # 1 /\ q[k].first # TRUE
    <3>1. m # 1
      BY <2>1
    <3>2. ~(list[m].used = 1 \/ list[m].first = TRUE)
      BY <1>1, <2>1, <3>1, Zenon
    <3> QED
      BY <2>1, <3>2, Zenon
  <2>4. q[k].pos >= h + 1
    BY <2>1, <2>2
  <2> QED
    BY <2>3, <2>4
<1>4. ASSUME NEW k \in 1..Len(q), NEW j \in 1..Len(q), k < j PROVE q[k].pos < q[j].pos
  <2> DEFINE m == k + 1
             o == j + 1
  <2>1. m \in 1..n /\ o \in 1..n /\ m < o /\ q[k] = list[m] /\ q[j] = list[o]
    BY <1>1, <1>2, <1>4
  <2> HIDE DEF m, o
  <2> QED
    BY <1>1, <2>1
<1>5. q # <<>> => 1 \in 1..Len(q)
  BY <1>1, <1>2 DEF Queue
<1> QED
  BY <1>3, <1>4, <1>5 DEF Sorted

LEMMA HalfUsedSorted ==
  ASSUME Queue, sent \in Nat, NEW e \in Int, Sorted(list, e), list # <<>>,
         NEW q, q = [list EXCEPT ![1].used = @ + 1]
  PROVE  /\ Sorted(q, list[1].pos) /\ Len(q) = Len(list) /\ q # <<>>
         /\ \A k \in 1..Len(list) : q[k].pos = list[k].pos
         /\ q[1].first = list[1].first /\ (list[1].used = 0 => q[1].used = 1)
<1> DEFINE n == Len(list)
           h == list[1].pos
<1>1. /\ n \in Nat /\ n > 0 /\ 1 \in 1..n
      /\ \A j \in 1..n : list[j] \in Item(sent) /\ list[j].pos \in 1..sent
      /\ \A j, k \in 1..n : j < k => list[j].pos < list[k].pos
      /\ \A j \in 1..n : (list[j].used = 1 \/ list[j].first = TRUE) => j = 1
  <2>1. n \in Nat /\ n > 0
    BY DEF Queue
  <2>2. /\ \A j \in 1..n : list[j].pos \in 1..sent
        /\ \A j, k \in 1..n : j < k => list[j].pos < list[k].pos
        /\ \A j \in 1..n : (list[j].used = 1 \/ list[j].first = TRUE) => j = 1
    BY SortedAt
  <2>3. \A j \in 1..n : list[j] \in Item(sent)
    BY ItemAt
  <2> QED
    BY <2>1, <2>2, <2>3
<1>2. Len(q) = n /\ DOMAIN q = 1..n /\ \A k \in 1..n : k # 1 => q[k] = list[k]
  BY <1>1 DEF Queue
<1>3. q[1] = [list[1] EXCEPT !.used = @ + 1]
  BY <1>1 DEF Queue
<1>4. q[1].pos = h /\ q[1].first = list[1].first /\ (list[1].used = 0 => q[1].used = 1)
  BY <1>1, <1>3 DEF Item
<1>5. q # <<>>
  BY <1>1, <1>2
<1> HIDE DEF n
<1>6. \A k \in 1..n : q[k].pos = list[k].pos
  BY <1>2, <1>4
<1>7. \A k \in 1..n : q[k].pos >= h
  BY <1>1, <1>6
<1>8. \A k \in 1..n : (q[k].used = 1 \/ q[k].first = TRUE) => k = 1 /\ q[k].pos = h
  BY <1>1, <1>2, <1>4
<1>9. \A k, j \in 1..n : k < j => q[k].pos < q[j].pos
  BY <1>1, <1>6
<1>10. Sorted(q, h)
  BY <1>2, <1>7, <1>8, <1>9 DEF Sorted
<1> QED
  BY <1>2, <1>4, <1>5, <1>6, <1>10 DEF n

\* Packet e is the expected one: what is known of the head.
LEMMA HeadAhead ==
  ASSUME Control, Queue, NEW e, Position(e), list # <<>>
  PROVE  /\ sent \in Nat /\ e \in 1..sent + 1 /\ list[1].pos \in e..sent
         /\ HeadNumber = SeqNum(list[1].pos)
         /\ LossPrecedes <=> (list[1].pos # e \/ list[1].first = TRUE)
         /\ list[1].used = 1 => list[1].pos = e
<1> DEFINE h == list[1].pos
<1>1. sent \in Nat
  BY LayoutsAssumption DEF Control
<1>2. e \in 1..sent + 1 /\ SeqNum(e) = expected /\ sent - e < Half /\ Sorted(list, e)
  BY DEF Position, Window
<1>3. 1 \in 1..Len(list)
  BY HeadIs
<1>4. /\ h \in 1..sent /\ h >= e /\ list[1].first \in BOOLEAN
      /\ (list[1].used = 1 \/ list[1].first = TRUE) => h = e
  BY <1>1, <1>2, <1>3, SortedAt
<1>5. HeadNumber = SeqNum(h)
  BY DEF HeadNumber, Number
<1> HIDE DEF h
<1>6. SeqNum(h) = SeqNum(e) <=> h = e
  <2>1. e \in Int /\ h \in Int /\ -Half < h - e /\ h - e < Half
    BY <1>1, <1>2, <1>4, HalfType
  <2> QED
    BY <2>1, SameNumber
<1>7. LossPrecedes <=> (h # e \/ list[1].first = TRUE)
  BY <1>2, <1>4, <1>5, <1>6 DEF LossPrecedes
<1> QED
  BY <1>1, <1>2, <1>4, <1>5, <1>7 DEF h

\* The head is released: the packet after it is expected.
LEMMA PositionReleased ==
  ASSUME Control, Queue, NEW e, Position(e), list # <<>>, ReleaseUsedPacket, UNCHANGED network,
         NEW n, n = list[1].pos + 1
  PROVE  /\ Position(n)' /\ expected' # NULL
         /\ list' # <<>> => list'[1].used # 1 /\ list'[1].first # TRUE
<1> DEFINE h == list[1].pos
<1>1. sent \in Nat /\ e \in 1..sent + 1 /\ h \in e..sent /\ HeadNumber = SeqNum(h)
  BY HeadAhead
<1>2. sent - e < Half /\ Sorted(list, e) /\ Ahead(list, e)
  BY DEF Position, Window
<1>3. expected' = (HeadNumber + 1) % SeqNums /\ list' = Tail(list) /\ sent' = sent /\ tcp' = tcp /\ flight' = flight
  BY DEF ReleaseUsedPacket, network
<1>4. Sorted(list', n) /\ (list' # <<>> => list'[1].used # 1 /\ list'[1].first # TRUE)
  <2>1. e \in Int
    BY <1>1
  <2>2. PICK q : q = Tail(list)
    OBVIOUS
  <2>3. Sorted(q, list[1].pos + 1) /\ (q # <<>> => q[1].used # 1 /\ q[1].first # TRUE)
    BY <1>1, <1>2, <2>1, <2>2, TailSorted
  <2>4. q = list'
    BY <1>3, <2>2
  <2> QED
    BY <2>3, <2>4
<1>5. n \in 1..sent + 1 /\ sent - n < Half
  BY <1>1, <1>2, HalfType
<1>6. expected' = SeqNum(n) /\ expected' # NULL
  <2>1. h \in Nat \ {0} /\ n \in Nat \ {0}
    BY <1>1
  <2>2. expected' = SeqNum(n)
    BY <1>1, <1>3, <2>1, NumberAfter
  <2>3. SeqNum(n) \in 0..SeqNums - 1
    BY <2>1, NumberType
  <2> QED
    BY <2>2, <2>3, NullAssumption, HalfType
<1>7. Ahead(list, n)'
  <2> SUFFICES ASSUME tcp, NEW p \in flight
               PROVE  p >= n /\ \A i \in 1..Len(list') : list'[i].pos < p
    BY <1>3 DEF Ahead
  <2>1. p \in Int /\ \A i \in 1..Len(list) : list[i].pos < p
    <3>1. flight \subseteq 1..sent
      BY DEF Control
    <3>2. \A i \in 1..Len(list) : list[i].pos < p
      BY <1>2 DEF Ahead
    <3> QED
      BY <1>1, <3>1, <3>2
  <2>2. Len(list) \in Nat /\ Len(list) > 0 /\ Len(list') = Len(list) - 1
        /\ \A k \in 1..Len(list) - 1 : list'[k] = list[k + 1]
    BY <1>3 DEF Queue
  <2>3. h < p
    BY <2>1, <2>2
  <2>4. ASSUME NEW k \in 1..Len(list') PROVE list'[k].pos < p
    <3> DEFINE m == k + 1
    <3>1. m \in 1..Len(list) /\ list'[k] = list[m]
      BY <2>2
    <3> HIDE DEF m
    <3> QED
      BY <2>1, <3>1
  <2> QED
    BY <1>1, <2>1, <2>3, <2>4
<1> HIDE DEF h
<1>8. Position(n)'
  BY <1>3, <1>4, <1>5, <1>6, <1>7 DEF Position, Window, Sorted, SeqNum
<1> QED
  BY <1>4, <1>6, <1>8

\* Half of the head is used: its packet is expected.
LEMMA PositionHalf ==
  ASSUME Control, Queue, NEW e, Position(e), list # <<>>, list' = [list EXCEPT ![1].used = @ + 1],
         expected' = HeadNumber, UNCHANGED network, NEW n, n = list[1].pos
  PROVE  /\ Position(n)' /\ expected' # NULL
         /\ list' # <<>> /\ list'[1].pos = n /\ list'[1].first = list[1].first
         /\ list[1].used = 0 => list'[1].used = 1
<1>1. sent \in Nat /\ e \in 1..sent + 1 /\ n \in e..sent /\ HeadNumber = SeqNum(n)
  BY HeadAhead
<1>2. sent - e < Half /\ Sorted(list, e) /\ Ahead(list, e)
  BY DEF Position, Window
<1>3. sent' = sent /\ tcp' = tcp /\ flight' = flight
  BY DEF network
<1>4. /\ Sorted(list', n) /\ Len(list') = Len(list) /\ list' # <<>>
      /\ \A k \in 1..Len(list) : list'[k].pos = list[k].pos
      /\ list'[1].first = list[1].first /\ (list[1].used = 0 => list'[1].used = 1)
  <2>1. e \in Int
    BY <1>1
  <2>2. PICK q : q = [list EXCEPT ![1].used = @ + 1]
    OBVIOUS
  <2>3. /\ Sorted(q, list[1].pos) /\ Len(q) = Len(list) /\ q # <<>>
        /\ \A k \in 1..Len(list) : q[k].pos = list[k].pos
        /\ q[1].first = list[1].first /\ (list[1].used = 0 => q[1].used = 1)
    BY <1>1, <1>2, <2>1, <2>2, HalfUsedSorted
  <2>4. q = list'
    BY <2>2
  <2> QED
    BY <2>3, <2>4
<1>5. n \in 1..sent + 1 /\ sent - n < Half
  BY <1>1, <1>2, HalfType
<1>6. expected' = SeqNum(n) /\ expected' # NULL
  <2>1. n \in Nat \ {0}
    BY <1>1
  <2>2. SeqNum(n) \in 0..SeqNums - 1
    BY <2>1, NumberType
  <2> QED
    BY <1>1, <2>2, NullAssumption, HalfType
<1>7. 1 \in 1..Len(list) /\ Len(list) \in Nat
  BY HeadIs DEF Queue
<1>8. Ahead(list, n)'
  <2> SUFFICES ASSUME tcp, NEW p \in flight
               PROVE  p >= n /\ \A i \in 1..Len(list') : list'[i].pos < p
    BY <1>3 DEF Ahead
  <2>1. \A i \in 1..Len(list) : list[i].pos < p
    BY <1>2 DEF Ahead
  <2>2. n < p /\ p \in Int
    <3>1. flight \subseteq 1..sent
      BY DEF Control
    <3> QED
      BY <1>1, <1>7, <2>1, <3>1
  <2> QED
    BY <1>1, <1>4, <2>1, <2>2
<1>9. Position(n)'
  BY <1>3, <1>4, <1>5, <1>6, <1>8 DEF Position, Window, Sorted, SeqNum
<1> QED
  BY <1>4, <1>6, <1>7, <1>9

\* A packet is sent.
LEMMA PositionSend ==
  ASSUME Control, Queue, NEW e, Position(e), expected # NULL, Send
  PROVE  Position(e)'
<1> DEFINE p == sent + 1
<1>1. /\ sent \in Nat /\ sent' = p /\ tcp' = tcp /\ list' = list /\ expected' = expected
      /\ flight \subseteq 1..sent /\ flight' \in SUBSET (flight \cup {p})
  BY LayoutsAssumption DEF Control, Send
<1>2. e \in 1..p /\ SeqNum(e) = expected /\ sent - e < Half /\ Sorted(list, e) /\ Ahead(list, e)
  BY DEF Position, Window
<1>3. (SeqNum(p) - SeqNum(e)) % SeqNums < Half
  BY <1>2 DEF Send, InReach
<1> HIDE DEF p
<1>4. p - e < Half
  <2>1. e \in Int /\ p \in Int /\ 0 <= p - e /\ p - e <= Half
    BY <1>1, <1>2, HalfType DEF p
  <2>2. (SeqNum(p) - SeqNum(e)) % SeqNums = p - e
    BY <2>1, ReachIs
  <2> QED
    BY <1>3, <2>2
<1>5. Window(e)'
  <2>1. e \in 1..p + 1
    BY <1>1, <1>2 DEF p
  <2> QED
    BY <1>1, <1>2, <1>4, <2>1 DEF Window, SeqNum
<1>6. Ahead(list, e)'
  <2> SUFFICES ASSUME tcp, NEW q \in flight'
               PROVE  q >= e /\ \A i \in 1..Len(list) : list[i].pos < q
    BY <1>1 DEF Ahead
  <2>1. CASE q \in flight
    BY <1>2, <2>1 DEF Ahead
  <2>2. CASE q = p
    <3>1. \A i \in 1..Len(list) : list[i].pos \in 1..sent
      BY ItemAt
    <3>2. \A i \in 1..Len(list) : list[i].pos < p
      BY <1>1, <3>1 DEF p
    <3>3. p >= e
      BY <1>1, <1>2 DEF p
    <3> QED
      BY <2>2, <3>2, <3>3
  <2> QED
    BY <1>1, <2>1, <2>2
<1> QED
  BY <1>1, <1>2, <1>5, <1>6 DEF Position, Sorted

\* No packet that is on its way is older than what numbers tell apart.
LEMMA OnWaySend ==
  ASSUME Control, OnWay, Send
  PROVE  OnWay'
<1> DEFINE p == sent + 1
<1>1. /\ sent \in Nat /\ sent' = p /\ flight \subseteq 1..sent /\ flight' \in SUBSET (flight \cup {p})
  BY LayoutsAssumption DEF Control, Send
<1> HIDE DEF p
<1>2. ASSUME NEW q \in flight' PROVE p - q < Half
  <2>1. CASE q \in flight
    <3>1. (SeqNum(p) - SeqNum(q)) % SeqNums < Half
      BY <2>1 DEF Send, InReach, p
    <3>2. q \in Int /\ p \in Int /\ 0 <= p - q /\ p - q <= Half
      BY <1>1, <2>1, HalfType DEF p, OnWay
    <3>3. (SeqNum(p) - SeqNum(q)) % SeqNums = p - q
      BY <3>2, ReachIs
    <3> QED
      BY <3>1, <3>3
  <2>2. CASE q = p
    BY <1>1, <2>2, HalfType DEF p
  <2> QED
    BY <1>1, <2>1, <2>2
<1> QED
  BY <1>1, <1>2 DEF OnWay

\* A packet is read: it is stored in its place, or not wanted.
LEMMA ReadPlaced ==
  ASSUME Control, Queue, MemoryInv, Received, NEW p \in Packets, Read(p), NEW e, Position(e), expected # NULL
  PROVE  /\ Position(e)' /\ expected' # NULL
         /\ list # <<>> => list' # <<>> /\ list'[1].used = list[1].used /\ list'[1].first = list[1].first
         /\ list = <<>> /\ list' # <<>> => list'[1].used = 0 /\ list'[1].first = FALSE
<1> DEFINE b == ReadBuffer.b
           i == Place(SeqNum(p), SeqNum(e))
           new == [pos |-> p, buf |-> b, used |-> 0, first |-> expected = NULL]
<1>0. Store(p, b, ReadBuffer.m) /\ Take(p)
  BY DEF Read
<1>1. /\ sent \in Nat /\ tcp \in BOOLEAN /\ p \in 1..sent /\ p \in flight /\ flight \subseteq 1..sent
      /\ flight' \in SUBSET flight /\ UNCHANGED <<layout, tcp, sent>>
  <2>1. UNCHANGED <<layout, tcp, sent>> /\ p \in flight /\ flight' \in SUBSET flight
    BY <1>0 DEF Take
  <2>2. sent \in Nat /\ tcp \in BOOLEAN /\ flight \subseteq 1..sent
    BY LayoutsAssumption DEF Control
  <2> QED
    BY <2>1, <2>2
<1>2. e \in 1..sent + 1 /\ SeqNum(e) = expected /\ sent - e < Half /\ Sorted(list, e) /\ Ahead(list, e)
  BY DEF Position, Window
<1>3. expected' = expected /\ Window(e)'
  <2>1. expected' = expected
    BY <1>0 DEF Store
  <2> QED
    BY <1>1, <1>2, <2>1 DEF Window, SeqNum
<1>4. tcp => \A q \in flight' : p < q
  <2> SUFFICES ASSUME tcp, NEW q \in flight' PROVE p < q
    OBVIOUS
  <2>1. p = Min(flight) /\ flight' = flight \ {p}
    BY <1>0 DEF Take
  <2>2. p <= q /\ p # q /\ q \in Int /\ p \in Int
    BY <1>1, <2>1, EarliestTaken
  <2> QED
    BY <2>2
<1>5. CASE i = 0
  <2>1. list' = list
    BY <1>0, <1>2, <1>5 DEF Store
  <2>2. Ahead(list, e)'
    BY <1>1, <1>2, <2>1 DEF Ahead
  <2>3. Position(e)'
    BY <1>2, <1>3, <2>1, <2>2 DEF Position, Sorted
  <2> QED
    BY <1>3, <2>1, <2>3
<1>6. CASE i # 0
  <2>1. list' = InsertAt(list, i, new)
    BY <1>0, <1>2, <1>6 DEF Store
  <2>2. -Half < p - e
    <3>1. CASE tcp
      <4>1. p >= e
        BY <1>1, <1>2, <3>1 DEF Ahead
      <4> QED
        BY <1>1, <1>2, <4>1, HalfType
    <3>2. CASE ~tcp
      <4>1. p >= sent - 2
        BY <1>1, <3>2 DEF Received
      <4> QED
        BY <1>1, <1>2, <4>1, FarEnough, HalfType
    <3> QED
      BY <3>1, <3>2
  <2>3. PICK k : k = i
    OBVIOUS
  <2>4. /\ k \in 1..Len(list) + 1 /\ p >= e
        /\ \A j \in 1..Len(list) : (j < k => list[j].pos < p) /\ (j >= k => list[j].pos > p)
    BY <1>1, <1>2, <1>6, <2>2, <2>3, PlacedRight
  <2>5. b \in Nat
    BY ReadBufferAccounts
  <2>6. PICK x : x = [pos |-> p, buf |-> b, used |-> 0, first |-> FALSE]
    OBVIOUS
  <2>14. x = new
    <3>1. (expected = NULL) = FALSE
      OBVIOUS
    <3> QED
      BY <2>6, <3>1
  <2>7. x \in Item(sent) /\ x.pos = p /\ x.used = 0 /\ x.first = FALSE
    BY <1>1, <2>5, <2>6 DEF Item
  <2>8. PICK q : q = InsertAt(list, k, x)
    OBVIOUS
  <2>9. q = list' /\ e \in Int
    BY <1>2, <2>1, <2>3, <2>8, <2>14
  <2> HIDE DEF i, new
  <2>15. Fits(k, x, e)
    BY <2>4, <2>7, <2>9 DEF Fits
  <2>10. /\ Sorted(q, e) /\ Len(q) = Len(list) + 1
         /\ list # <<>> => q[1].used = list[1].used /\ q[1].first = list[1].first
         /\ list = <<>> => q[1] = x
         /\ \A j \in 1..Len(q) : q[j].pos = x.pos \/ \E m \in 1..Len(list) : q[j].pos = list[m].pos
    <3>1. Inserted(q, x, e)
      BY <1>1, <1>2, <2>8, <2>15, InsertSorted
    <3> QED
      BY <3>1 DEF Inserted
  <2>11. Len(list) \in Nat /\ q # <<>>
    <3>1. Len(list) \in Nat
      BY DEF Queue
    <3> QED
      BY <2>10, <3>1
  <2>12. Ahead(list, e)'
    <3> SUFFICES ASSUME tcp, NEW r \in flight'
                 PROVE  r >= e /\ \A j \in 1..Len(q) : q[j].pos < r
      BY <1>1, <2>9 DEF Ahead
    <3>1. p < r /\ r >= e /\ \A j \in 1..Len(list) : list[j].pos < r
      BY <1>1, <1>2, <1>4 DEF Ahead
    <3> QED
      BY <2>7, <2>10, <3>1
  <2>13. Position(e)'
    BY <1>3, <2>9, <2>10, <2>12 DEF Position, Sorted
  <2> QED
    BY <1>3, <2>7, <2>9, <2>10, <2>11, <2>13
<1> QED
  BY <1>5, <1>6

\* The first packet is read.
LEMMA ReadFirst ==
  ASSUME Control, Queue, MemoryInv, Received, OnWay, NEW p \in Packets, Read(p), expected = NULL, list = <<>>
  PROVE  /\ Position(p)' /\ p \in 1..sent' + 1 /\ expected' # NULL
         /\ list' # <<>> /\ list'[1].used = 0 /\ list'[1].first = TRUE
<1> DEFINE b == ReadBuffer.b
           new == [pos |-> p, buf |-> b, used |-> 0, first |-> expected = NULL]
<1>0. Store(p, b, ReadBuffer.m) /\ Take(p)
  BY DEF Read
<1>1. /\ sent \in Nat /\ tcp \in BOOLEAN /\ p \in 1..sent /\ p \in flight /\ flight \subseteq 1..sent
      /\ flight' \in SUBSET flight /\ UNCHANGED <<layout, tcp, sent>>
  <2>1. UNCHANGED <<layout, tcp, sent>> /\ p \in flight /\ flight' \in SUBSET flight
    BY <1>0 DEF Take
  <2>2. sent \in Nat /\ tcp \in BOOLEAN /\ flight \subseteq 1..sent
    BY LayoutsAssumption DEF Control
  <2> QED
    BY <2>1, <2>2
<1>2. expected' = SeqNum(p) /\ SeqNum(p) \in 0..SeqNums - 1 /\ expected' # NULL
  <2>1. expected' = SeqNum(p)
    BY <1>0 DEF Store
  <2>2. SeqNum(p) \in 0..SeqNums - 1
    BY <1>1, NumberType
  <2> QED
    BY <2>1, <2>2, NullAssumption, HalfType
<1>3. Place(SeqNum(p), SeqNum(p)) = 1
  <2>1. Len(list) = 0
    BY DEF Queue
  <2>2. ~SeqNumLT(SeqNum(p), SeqNum(p))
    BY <1>2, HalfType DEF SeqNumLT
  <2> QED
    BY <2>1, <2>2 DEF Place
<1>4. list' = InsertAt(list, 1, new)
  <2>1. Place(SeqNum(p), SeqNum(p)) # 0
    BY <1>3
  <2> QED
    BY <1>0, <1>3, <2>1 DEF Store
<1>5. Len(list') = 1 /\ list'[1] = new /\ list' # <<>> /\ new.pos = p /\ new.used = 0 /\ new.first = TRUE
  <2>1. PICK x : x = new
    OBVIOUS
  <2>2. PICK S : S = {x}
    OBVIOUS
  <2>3. list \in Seq(S) /\ Len(list) = 0 /\ x \in S
    BY <2>2
  <2>4. PICK q, i : q = list /\ i = 1
    OBVIOUS
  <2>8. q \in Seq(S) /\ i \in 1..Len(q) + 1 /\ Len(q) = 0
    BY <2>3, <2>4
  <2>9. /\ Len(InsertAt(q, i, x)) = Len(q) + 1
        /\ \A k \in 1..Len(q) + 1 :
             InsertAt(q, i, x)[k] = IF k < i THEN q[k] ELSE IF k = i THEN x ELSE q[k - 1]
    <3>1. x \in S
      BY <2>3
    <3>2. q \in Seq(S) /\ i \in 1..Len(q) + 1
      BY <2>8
    <3> QED
      BY ONLY <3>1, <3>2, InsertIs, SMTT(30)
  <2>5. list' = InsertAt(q, i, x)
    BY <1>4, <2>1, <2>4
  <2>6. Len(list') = 1 /\ list'[1] = x
    BY <2>4, <2>5, <2>8, <2>9
  <2>7. new.pos = p /\ new.used = 0 /\ new.first = TRUE
    OBVIOUS
  <2> QED
    BY <2>1, <2>6, <2>7
<1> HIDE DEF new
<1>6. Len(list') = 1 /\ \A i \in 1..Len(list') : i = 1 /\ list'[i] = new
  BY <1>5
<1>7. Sorted(list', p)
  BY <1>1, <1>5, <1>6 DEF Sorted
<1>8. Window(p)'
  BY <1>1, <1>2 DEF Window, OnWay, SeqNum
<1>9. Ahead(list, p)'
  <2> SUFFICES ASSUME tcp, NEW q \in flight' PROVE p < q
    <3>1. ASSUME NEW q \in flight', p < q PROVE q >= p /\ \A i \in 1..Len(list') : list'[i].pos < q
      <4>1. q \in Int /\ p \in Int /\ q >= p
        BY <1>1, <3>1
      <4>2. \A i \in 1..Len(list') : list'[i].pos = p
        BY <1>5, <1>6
      <4> QED
        BY <3>1, <4>1, <4>2
    <3> QED
      BY <1>1, <3>1 DEF Ahead
  <2>1. p = Min(flight) /\ flight' = flight \ {p}
    BY <1>0 DEF Take
  <2>2. p <= q /\ p # q /\ q \in Int /\ p \in Int
    BY <1>1, <2>1, EarliestTaken
  <2> QED
    BY <2>2
<1>10. Position(p)'
  BY <1>7, <1>8, <1>9 DEF Position, Sorted
<1> QED
  BY <1>1, <1>2, <1>5, <1>6, <1>10

-----------------------------------------------------------------------------
(* Frames: what has been put together.                                       *)

Part == Nat \X (1..2)
\* g holds every fragment of a unit that begins before packet e, up to e.
Covered(g, p) == layout[p] = "bad" \/ \E i \in 1..Len(g) : g[i][1] = p
Partial(g, e) ==
  /\ g # <<>> /\ layout[g[1][1]] = "start"
  /\ \A i \in 2..Len(g) : layout[g[i][1]] = "middle"
  /\ \A p \in g[1][1]..e - 1 : Covered(g, p)
  /\ \A i \in 1..Len(g) : g[i][1] < e

\* The flags are those of the last right packet before e.
FollowsOn(f, e) ==
  \E r \in 1..e - 1 : /\ layout[r] # "bad" /\ \A p \in r + 1..e - 1 : layout[p] = "bad"
                      /\ f.completes <=> layout[r] \notin Fragment

LEMMA LastOfAppend ==
  ASSUME NEW S, NEW q \in Seq(S), NEW x \in S, NEW a, a = Append(q, x)
  PROVE  /\ a \in Seq(S) /\ a # <<>> /\ Len(q) \in Nat /\ Len(a) = Len(q) + 1 /\ a[Len(q) + 1] = x
         /\ \A i \in 1..Len(q) : a[i] = q[i]
         /\ Last(a) = x /\ Head(a) = IF q = <<>> THEN x ELSE Head(q)
<1>1. Len(q) \in Nat
  OBVIOUS
<1>2. a \in Seq(S) /\ Len(a) = Len(q) + 1 /\ a[Len(q) + 1] = x /\ \A i \in 1..Len(q) : a[i] = q[i]
  OBVIOUS
<1>3. a # <<>> /\ Last(a) = x
  BY <1>1, <1>2 DEF Last
<1>4. Head(a) = IF q = <<>> THEN x ELSE Head(q)
  <2>1. Head(a) = a[1]
    BY <1>2, <1>3
  <2>2. CASE q = <<>>
    BY <1>2, <2>1, <2>2
  <2>3. CASE q # <<>>
    <3>1. 1 \in 1..Len(q) /\ Head(q) = q[1]
      BY <1>1, <2>3
    <3> QED
      BY <1>2, <2>1, <2>3, <3>1
  <2> QED
    BY <2>2, <2>3
<1> QED
  BY <1>1, <1>2, <1>3, <1>4

\* A packet without a use, and a fragment, are added to what begins before.
LEMMA PartialGrows ==
  ASSUME NEW g \in Seq(Part), NEW e \in Nat, Partial(g, e), layout[e] = "bad", NEW n, n = e + 1
  PROVE  Partial(g, n)
<1>1. Len(g) \in Nat /\ \A i \in 1..Len(g) : g[i][1] \in Nat
  BY DEF Part
<1>2. g # <<>> /\ 1 \in 1..Len(g)
  BY DEF Partial
<1>3. ASSUME NEW p \in g[1][1]..n - 1 PROVE Covered(g, p)
  <2>1. p \in g[1][1]..e - 1 \/ p = e
    BY <1>1, <1>2
  <2> QED
    BY <2>1 DEF Partial, Covered
<1>4. \A i \in 1..Len(g) : g[i][1] < n
  BY <1>1 DEF Partial
<1> QED
  BY <1>3, <1>4 DEF Partial

LEMMA PartialExtends ==
  ASSUME NEW g \in Seq(Part), NEW e \in Nat, Partial(g, e), NEW a, a = Append(g, <<e, 1>>), NEW n, n = e + 1
  PROVE  /\ layout[e] = "middle" => Partial(a, n)
         /\ layout[e] = "end" => Whole(a)
<1> DEFINE x == <<e, 1>>
           k == Len(g)
<1>0. x \in Part /\ x[1] = e
  BY DEF Part
<1>1. /\ k \in Nat /\ Len(a) = k + 1 /\ a[k + 1] = x /\ a # <<>>
      /\ \A i \in 1..k : a[i] = g[i]
  BY <1>0, LastOfAppend
<1>2. /\ g # <<>> /\ layout[g[1][1]] = "start" /\ \A i \in 2..k : layout[g[i][1]] = "middle"
      /\ \A p \in g[1][1]..e - 1 : Covered(g, p)
      /\ \A i \in 1..k : g[i][1] < e
  BY DEF Partial
<1>3. k >= 1 /\ a[1] = g[1] /\ g[1][1] \in Nat /\ \A i \in 1..k : g[i][1] \in Nat
  <2>1. \A i \in 1..k : g[i] \in Part
    OBVIOUS
  <2>2. k >= 1
    BY <1>2
  <2> QED
    BY <1>1, <2>1, <2>2 DEF Part
<1> HIDE DEF x, k
<1>4. ASSUME NEW p \in a[1][1]..e PROVE Covered(a, p)
  <2>1. CASE p = e
    <3>1. k + 1 \in 1..Len(a) /\ a[k + 1][1] = p
      BY <1>0, <1>1, <2>1
    <3> QED
      BY <3>1 DEF Covered
  <2>2. CASE p # e
    <3>1. p \in g[1][1]..e - 1
      BY <1>3, <2>2
    <3>2. CASE layout[p] = "bad"
      BY <3>2 DEF Covered
    <3>3. ASSUME NEW i \in 1..k, g[i][1] = p PROVE Covered(a, p)
      <4>1. i \in 1..Len(a) /\ a[i][1] = p
        BY <1>1, <3>3
      <4> QED
        BY <4>1 DEF Covered
    <3> QED
      BY <1>2, <3>1, <3>2, <3>3 DEF Covered, k
  <2> QED
    BY <2>1, <2>2
<1>5. ASSUME layout[e] = "middle" PROVE Partial(a, n)
  <2>1. \A i \in 2..Len(a) : layout[a[i][1]] = "middle"
    <3> SUFFICES ASSUME NEW i \in 2..Len(a) PROVE layout[a[i][1]] = "middle"
      OBVIOUS
    <3>1. CASE i = k + 1
      BY <1>0, <1>1, <1>5, <3>1
    <3>2. CASE i # k + 1
      <4>1. i \in 1..k /\ i \in 2..k
        BY <1>1, <3>2
      <4> QED
        BY <1>1, <1>2, <4>1
    <3> QED
      BY <3>1, <3>2
  <2>2. \A i \in 1..Len(a) : a[i][1] < n
    <3> SUFFICES ASSUME NEW i \in 1..Len(a) PROVE a[i][1] < n
      OBVIOUS
    <3>1. CASE i = k + 1
      BY <1>0, <1>1, <3>1
    <3>2. CASE i # k + 1
      <4>1. i \in 1..k
        BY <1>1, <3>2
      <4>2. a[i] = g[i] /\ g[i][1] < e /\ g[i][1] \in Nat
        BY <1>1, <1>2, <1>3, <4>1
      <4> QED
        BY <4>2
    <3> QED
      BY <3>1, <3>2
  <2>3. \A p \in a[1][1]..n - 1 : Covered(a, p)
    <3>1. n - 1 = e
      OBVIOUS
    <3> QED
      BY <1>4, <3>1
  <2>4. layout[a[1][1]] = "start"
    BY <1>2, <1>3
  <2> QED
    BY <1>1, <2>1, <2>2, <2>3, <2>4 DEF Partial
<1>6. ASSUME layout[e] = "end" PROVE Whole(a)
  <2>1. Len(a) > 1 /\ layout[a[1][1]] = "start" /\ layout[a[Len(a)][1]] = "end" /\ a[Len(a)][1] = e
    BY <1>0, <1>1, <1>2, <1>3, <1>6
  <2>2. \A i \in 2..Len(a) - 1 : layout[a[i][1]] = "middle"
    <3> SUFFICES ASSUME NEW i \in 2..Len(a) - 1 PROVE layout[a[i][1]] = "middle"
      OBVIOUS
    <3>1. i \in 1..k /\ i \in 2..k
      BY <1>1
    <3> QED
      BY <1>1, <1>2, <3>1
  <2>3. \A p \in a[1][1]..a[Len(a)][1] : layout[p] = "bad" \/ \E i \in 1..Len(a) : a[i][1] = p
    BY <1>4, <2>1 DEF Covered
  <2> QED
    BY <2>1, <2>2, <2>3 DEF Whole
<1> QED
  BY <1>5, <1>6

\* A packet that is a unit, or more than one.
LEMMA WholeAlone ==
  ASSUME NEW x \in Part, layout[x[1]] \in {"single", "pair"}, NEW g, g = <<x>>
  PROVE  Whole(g)
<1>1. Len(g) = 1 /\ g[1] = x
  OBVIOUS
<1> QED
  BY <1>1 DEF Whole

LEMMA PartialAlone ==
  ASSUME NEW e \in Nat, layout[e] = "start", NEW g, g = <<<<e, 1>>>>, NEW n, n = e + 1
  PROVE  Partial(g, n)
<1>1. Len(g) = 1 /\ g[1] = <<e, 1>> /\ g[1][1] = e /\ g # <<>>
  OBVIOUS
<1>2. \A i \in 1..Len(g) : i = 1
  BY <1>1
<1>3. \A p \in g[1][1]..n - 1 : Covered(g, p)
  <2>1. \A p \in g[1][1]..n - 1 : p = e
    BY <1>1
  <2>2. 1 \in 1..Len(g)
    BY <1>1
  <2> QED
    BY <1>1, <2>1, <2>2 DEF Covered
<1>4. \A i \in 2..Len(g) : layout[g[i][1]] = "middle"
  BY <1>1
<1>5. \A i \in 1..Len(g) : g[i][1] < n
  BY <1>1, <1>2
<1> QED
  BY <1>1, <1>3, <1>4, <1>5 DEF Partial

\* Whether the packet goes on with what comes before it.
LEMMA GoesOn ==
  ASSUME NEW e \in 1..Len(layout), InFragments(layout), layout[e] # "bad", NEW f, FollowsOn(f, e),
         Len(layout) \in Nat
  PROVE  layout[e] \in {"middle", "end"} <=> ~f.completes
<1>1. PICK r \in 1..e - 1 : /\ layout[r] # "bad" /\ \A p \in r + 1..e - 1 : layout[p] = "bad"
                            /\ f.completes <=> layout[r] \notin Fragment
  BY DEF FollowsOn
<1>2. layout[e] \in {"middle", "end"} <=>
        \E q \in 1..e - 1 : layout[q] \in Fragment /\ \A p \in q + 1..e - 1 : layout[p] = "bad"
  BY DEF InFragments
<1>3. ASSUME ~f.completes PROVE layout[e] \in {"middle", "end"}
  BY <1>1, <1>2, <1>3
<1>4. ASSUME layout[e] \in {"middle", "end"} PROVE ~f.completes
  <2>1. PICK q \in 1..e - 1 : layout[q] \in Fragment /\ \A p \in q + 1..e - 1 : layout[p] = "bad"
    BY <1>2, <1>4
  <2>2. layout[q] # "bad"
    BY <2>1 DEF Fragment
  <2>3. ~(r \in q + 1..e - 1) /\ ~(q \in r + 1..e - 1)
    BY <1>1, <2>1, <2>2
  <2>4. q = r
    BY <2>3
  <2> QED
    BY <1>1, <2>1, <2>4
<1> QED
  BY <1>3, <1>4

LEMMA FollowsNow ==
  ASSUME NEW h \in Nat \ {0}, layout[h] # "bad", NEW f, f.completes <=> layout[h] \notin Fragment, NEW n, n = h + 1
  PROVE  FollowsOn(f, n)
<1>1. h \in 1..n - 1 /\ \A p \in h + 1..n - 1 : FALSE
  OBVIOUS
<1> QED
  BY <1>1 DEF FollowsOn

LEMMA FollowsStill ==
  ASSUME NEW e \in Nat, NEW f, FollowsOn(f, e), layout[e] = "bad", NEW n, n = e + 1
  PROVE  FollowsOn(f, n)
<1>1. PICK r \in 1..e - 1 : /\ layout[r] # "bad" /\ \A p \in r + 1..e - 1 : layout[p] = "bad"
                            /\ f.completes <=> layout[r] \notin Fragment
  BY DEF FollowsOn
<1>2. r \in 1..n - 1 /\ \A p \in r + 1..n - 1 : p \in r + 1..e - 1 \/ p = e
  OBVIOUS
<1> QED
  BY <1>1, <1>2 DEF FollowsOn

-----------------------------------------------------------------------------
(* The frames that have been handed over, and the one that is being made.    *)

Fresh == [begins |-> TRUE, completes |-> TRUE, loss |-> FALSE]
Begun(l) == l # <<>> /\ l[1].used = 1
Opening(l) == l # <<>> /\ l[1].first = TRUE

\* Part x has been used when packet e is expected.
Behind(x, l, e) == x[1] < e \/ (Begun(l) /\ x[1] = e /\ x[2] = 1)

\* A frame that is not complete, or that a part was lost of, is still being made.
FlagsSound(f, n, g) ==
  /\ (~f.completes \/ f.loss) => n
  /\ f.loss => ~f.begins
  /\ n /\ f.completes /\ ~f.loss => g = <<>>

\* The flags are what the first packet finds, what the first half of an aggregate
\* leaves, or those of the last right packet.
Started(f, l, e) ==
  /\ Opening(l) => f = Fresh
  /\ Begun(l) => f.completes /\ ~f.loss
  /\ ~Opening(l) /\ ~Begun(l) => FollowsOn(f, e)

\* The parts g of the next frame, after the frames d, up to the packet e.
InOrder(g, d, l, e) ==
  g # <<>> => /\ Behind(Last(g), l, e)
              /\ d # <<>> => Before(Last(Last(d)), Head(g))
Past(d, l, e) == d # <<>> => Behind(Last(Last(d)), l, e)
Told(d) ==
  \A i \in 1..Len(d) : /\ d[i] # <<>> /\ Whole(d[i])
                       /\ i > 1 => Before(Last(d[i - 1]), Head(d[i]))

Assembled(e) ==
  /\ ~flags.completes /\ ~flags.loss => Partial(got, e)
  /\ nextTask => got # <<>> /\ Whole(got)
  /\ Started(flags, list, e)
  /\ nextTask \/ (needDelivery /\ ~flags.loss) => InOrder(got, delivered, list, e)
  /\ Past(delivered, list, e) /\ Told(delivered)

FrameInv ==
  /\ got \in Seq(Part) /\ delivered \in Seq(Seq(Part))
  /\ OnWay /\ FlagsSound(flags, needDelivery, got)
  /\ expected = NULL => list = <<>> /\ delivered = <<>> /\ ~nextTask /\ flags = Fresh
  /\ expected # NULL => \E e \in 1..sent + 1 : Position(e) /\ (~odd => Assembled(e))

LEMMA FramesInit == Init => FrameInv
<1> SUFFICES ASSUME Init PROVE FrameInv
  OBVIOUS
<1>1. got = <<>> /\ delivered = <<>> /\ flight = {} /\ list = <<>> /\ expected = NULL /\ ~nextTask
      /\ ~needDelivery /\ flags = Fresh
  BY DEF Init, Fresh
<1>2. got \in Seq(Part) /\ delivered \in Seq(Seq(Part))
  BY <1>1
<1>3. FlagsSound(flags, needDelivery, got)
  BY <1>1 DEF FlagsSound, Fresh
<1> QED
  BY <1>1, <1>2, <1>3 DEF FrameInv, OnWay

\* What the steps change that are not about packets.
LEMMA FramesUnmoved ==
  ASSUME FrameInv, UNCHANGED <<layout, tcp, sent, flight, list, expected, needDelivery, flags, got,
                               nextTask, delivered, odd>>
  PROVE  FrameInv'
<1>1. /\ got' \in Seq(Part) /\ delivered' \in Seq(Seq(Part))
      /\ FlagsSound(flags, needDelivery, got)' /\ OnWay'
      /\ (expected = NULL => list = <<>> /\ delivered = <<>> /\ ~nextTask /\ flags = Fresh)'
  BY DEF FrameInv, FlagsSound, OnWay, Fresh
<1>2. ASSUME expected' # NULL PROVE \E e \in 1..sent' + 1 : Position(e)' /\ (~odd' => Assembled(e)')
  <2>1. PICK e \in 1..sent + 1 : Position(e) /\ (~odd => Assembled(e))
    BY <1>2 DEF FrameInv
  <2>2. Position(e)'
    BY <2>1 DEF Position, Window, Sorted, Ahead, SeqNum
  <2>3. Assembled(e) => Assembled(e)'
    BY DEF Assembled, Partial, Covered, Started, Opening, Begun, FollowsOn, InOrder, Behind, Past, Told,
           Whole, Before, Fresh
  <2> QED
    BY <2>1, <2>2, <2>3
<1> QED
  BY <1>1, <1>2 DEF FrameInv

\* The packets of the list change, not the beginning of it nor the frames.
LEMMA AssembledStays ==
  ASSUME NEW e, Assembled(e), UNCHANGED <<layout, needDelivery, flags, got, nextTask, delivered>>,
         Begun(list') <=> Begun(list), Opening(list') <=> Opening(list)
  PROVE  Assembled(e)'
<1>1. Started(flags, list, e)'
  BY DEF Assembled, Started, FollowsOn, Fresh
<1>2. InOrder(got, delivered, list, e) => InOrder(got, delivered, list, e)'
  BY DEF InOrder, Behind, Before
<1>3. Past(delivered, list, e)'
  BY DEF Assembled, Past, Behind
<1>4. Told(delivered)'
  BY DEF Assembled, Told, Whole, Before
<1>5. (~flags.completes /\ ~flags.loss => Partial(got, e))' /\ (nextTask => got # <<>> /\ Whole(got))'
  BY DEF Assembled, Partial, Covered, Whole
<1> QED
  BY <1>1, <1>2, <1>3, <1>4, <1>5 DEF Assembled

LEMMA FramesSend ==
  ASSUME Control, Queue, FrameInv, Send
  PROVE  FrameInv'
<1>1. /\ UNCHANGED <<layout, list, expected, needDelivery, flags, got, nextTask, delivered, odd>>
      /\ sent \in Nat /\ sent' = sent + 1
  BY LayoutsAssumption DEF Send, Control
<1>2. /\ got' \in Seq(Part) /\ delivered' \in Seq(Seq(Part))
      /\ FlagsSound(flags, needDelivery, got)'
      /\ (expected = NULL => list = <<>> /\ delivered = <<>> /\ ~nextTask /\ flags = Fresh)'
  BY <1>1 DEF FrameInv, FlagsSound, Fresh
<1>3. OnWay'
  BY OnWaySend DEF FrameInv
<1>4. ASSUME expected' # NULL PROVE \E e \in 1..sent' + 1 : Position(e)' /\ (~odd' => Assembled(e)')
  <2>1. PICK e \in 1..sent + 1 : Position(e) /\ (~odd => Assembled(e))
    BY <1>1, <1>4 DEF FrameInv
  <2>2. Position(e)'
    BY <1>1, <1>4, <2>1, PositionSend
  <2>3. Assembled(e) => Assembled(e)'
    BY <1>1, AssembledStays DEF Begun, Opening
  <2>4. e \in 1..sent' + 1
    BY <1>1
  <2> QED
    BY <1>1, <2>1, <2>2, <2>3, <2>4
<1> QED
  BY <1>2, <1>3, <1>4 DEF FrameInv

LEMMA FramesRead ==
  ASSUME IInv, Received, FrameInv, NEW p \in Packets, Read(p)
  PROVE  FrameInv'
<1>0. Control /\ Queue /\ MemoryInv
  BY DEF IInv
<1>1. /\ UNCHANGED <<layout, tcp, sent, needDelivery, flags, got, nextTask, delivered, odd>>
      /\ flight' \in SUBSET flight
  BY DEF Read, Take
<1>2. /\ got' \in Seq(Part) /\ delivered' \in Seq(Seq(Part))
      /\ FlagsSound(flags, needDelivery, got)' /\ OnWay'
  BY <1>1 DEF FrameInv, FlagsSound, OnWay
<1>3. CASE expected = NULL
  <2>1. list = <<>> /\ delivered = <<>> /\ ~nextTask /\ flags = Fresh
    BY <1>3 DEF FrameInv
  <2>2. /\ Position(p)' /\ p \in 1..sent' + 1 /\ expected' # NULL
        /\ list' # <<>> /\ list'[1].used = 0 /\ list'[1].first = TRUE
    BY <1>0, <1>3, <2>1, ReadFirst DEF FrameInv
  <2>3. flags.completes /\ ~flags.loss
    BY <2>1 DEF Fresh
  <2>4. needDelivery => got = <<>>
    BY <2>3 DEF FrameInv, FlagsSound
  <2>5. Started(flags, list, p)'
    BY <1>1, <2>1, <2>2 DEF Started, Opening, Begun, Fresh
  <2>6. Told(delivered)' /\ Past(delivered, list, p)'
    <3>1. Len(delivered) = 0
      BY <2>1
    <3> QED
      BY <1>1, <2>1, <3>1 DEF Told, Past
  <2>7. (needDelivery => InOrder(got, delivered, list, p))'
    BY <1>1, <2>4 DEF InOrder
  <2>8. Assembled(p)'
    BY <1>1, <2>1, <2>3, <2>5, <2>6, <2>7 DEF Assembled
  <2> QED
    BY <1>2, <2>2, <2>8 DEF FrameInv
<1>4. CASE expected # NULL
  <2>1. PICK e \in 1..sent + 1 : Position(e) /\ (~odd => Assembled(e))
    BY <1>4 DEF FrameInv
  <2>2. /\ Position(e)' /\ expected' # NULL
        /\ list # <<>> => list' # <<>> /\ list'[1].used = list[1].used /\ list'[1].first = list[1].first
        /\ list = <<>> /\ list' # <<>> => list'[1].used = 0 /\ list'[1].first = FALSE
    BY <1>0, <1>4, <2>1, ReadPlaced
  <2>3. (Begun(list') <=> Begun(list)) /\ (Opening(list') <=> Opening(list))
    BY <2>2 DEF Begun, Opening
  <2>4. Assembled(e) => Assembled(e)'
    BY <1>1, <2>3, AssembledStays
  <2> QED
    BY <1>1, <1>2, <2>1, <2>2, <2>4 DEF FrameInv
<1> QED
  BY <1>3, <1>4

\* The client asks for a frame.
LEMMA FramesGet ==
  ASSUME Control, FrameInv, GetNextFrame
  PROVE  FrameInv'
<1>1. /\ UNCHANGED <<layout, tcp, sent, flight, list, expected, flags, nextTask, delivered, odd>>
      /\ needDelivery' = TRUE /\ got' = <<>>
  BY DEF GetNextFrame, network
<1>2. ~needDelivery /\ ~nextTask
  BY DEF GetNextFrame, Control
<1>3. flags.completes /\ ~flags.loss
  BY <1>2 DEF FrameInv, FlagsSound
<1>4. /\ got' \in Seq(Part) /\ delivered' \in Seq(Seq(Part)) /\ OnWay'
      /\ FlagsSound(flags, needDelivery, got)'
      /\ (expected = NULL => list = <<>> /\ delivered = <<>> /\ ~nextTask /\ flags = Fresh)'
  BY <1>1, <1>3 DEF FrameInv, FlagsSound, OnWay, Fresh
<1>5. ASSUME expected' # NULL PROVE \E e \in 1..sent' + 1 : Position(e)' /\ (~odd' => Assembled(e)')
  <2>1. PICK e \in 1..sent + 1 : Position(e) /\ (~odd => Assembled(e))
    BY <1>1, <1>5 DEF FrameInv
  <2>2. Position(e)'
    BY <1>1, <2>1 DEF Position, Window, Sorted, Ahead, SeqNum
  <2>3. ASSUME Assembled(e) PROVE Assembled(e)'
    <3>1. Started(flags, list, e)' /\ Past(delivered, list, e)' /\ Told(delivered)'
      BY <1>1, <2>3 DEF Assembled, Started, Opening, Begun, FollowsOn, Past, Behind, Told, Whole, Before, Fresh
    <3>2. InOrder(got, delivered, list, e)'
      BY <1>1 DEF InOrder
    <3> QED
      BY <1>1, <1>2, <1>3, <3>1, <3>2 DEF Assembled
  <2> QED
    BY <1>1, <2>1, <2>2, <2>3
<1> QED
  BY <1>4, <1>5 DEF FrameInv

\* It stops.
LEMMA FramesStop ==
  ASSUME FrameInv, StopGettingFrames
  PROVE  FrameInv'
<1>1. /\ UNCHANGED <<sent, flight, got>> /\ list' = <<>> /\ expected' = NULL /\ nextTask' = FALSE
      /\ needDelivery' = FALSE /\ flags' = Fresh /\ delivered' = <<>>
  BY DEF StopGettingFrames, network, Fresh
<1>2. got' \in Seq(Part) /\ delivered' \in Seq(Seq(Part)) /\ OnWay'
  BY <1>1 DEF FrameInv, OnWay
<1>3. FlagsSound(flags, needDelivery, got)'
  BY <1>1 DEF FlagsSound, Fresh
<1> QED
  BY <1>1, <1>2, <1>3 DEF FrameInv, Fresh

\* A frame is handed over.
LEMMA ToldMore ==
  ASSUME NEW d \in Seq(Seq(Part)), NEW g \in Seq(Part), Told(d), g # <<>>, Whole(g),
         d # <<>> => Before(Last(Last(d)), Head(g)), NEW a, a = Append(d, g)
  PROVE  Told(a) /\ a # <<>> /\ Last(a) = g /\ a \in Seq(Seq(Part))
<1> DEFINE n == Len(d)
<1>1. /\ n \in Nat /\ Len(a) = n + 1 /\ a[n + 1] = g /\ a # <<>> /\ Last(a) = g /\ a \in Seq(Seq(Part))
      /\ \A i \in 1..n : a[i] = d[i]
  <2>1. PICK S : S = Seq(Part)
    OBVIOUS
  <2>2. d \in Seq(S) /\ g \in S
    BY <2>1
  <2>3. /\ a \in Seq(S) /\ a # <<>> /\ Len(d) \in Nat /\ Len(a) = Len(d) + 1 /\ a[Len(d) + 1] = g
        /\ \A i \in 1..Len(d) : a[i] = d[i]
        /\ Last(a) = g
    <3>1. a = Append(d, g) /\ d \in Seq(S) /\ g \in S
      BY <2>2
    <3>2. Len(d) \in Nat
      BY ONLY <3>1
    <3>3. a \in Seq(S) /\ Len(a) = Len(d) + 1 /\ a[Len(d) + 1] = g /\ \A i \in 1..Len(d) : a[i] = d[i]
      BY ONLY <3>1
    <3>4. a # <<>>
      BY ONLY <3>2, <3>3
    <3> QED
      BY ONLY <3>2, <3>3, <3>4 DEF Last
  <2> QED
    BY <2>1, <2>3
<1>2. ASSUME NEW i \in 1..Len(a)
      PROVE  /\ a[i] # <<>> /\ Whole(a[i])
             /\ i > 1 => Before(Last(a[i - 1]), Head(a[i]))
  <2>1. CASE i \in 1..n
    <3>1. a[i] # <<>> /\ Whole(a[i])
      BY <1>1, <2>1 DEF Told
    <3>2. ASSUME i > 1 PROVE Before(Last(a[i - 1]), Head(a[i]))
      <4>1. i - 1 \in 1..n
        BY <1>1, <2>1, <3>2
      <4>2. Before(Last(d[i - 1]), Head(d[i]))
        BY <2>1, <3>2 DEF Told
      <4> QED
        BY <1>1, <2>1, <4>1, <4>2
    <3> QED
      BY <3>1, <3>2
  <2>2. CASE i = n + 1
    <3>1. ASSUME i > 1 PROVE Before(Last(a[i - 1]), Head(a[i]))
      <4>1. n \in 1..n /\ i - 1 = n /\ d # <<>>
        BY <1>1, <2>2, <3>1
      <4>2. a[i - 1] = Last(d)
        BY <1>1, <4>1 DEF Last
      <4> QED
        BY <1>1, <2>2, <4>1, <4>2
    <3> QED
      BY <1>1, <2>2, <3>1
  <2> QED
    BY <1>1, <2>1, <2>2
<1> QED
  BY <1>1, <1>2 DEF Told

LEMMA FramesAfterGetting ==
  ASSUME Control, FrameInv, AfterGetting
  PROVE  FrameInv'
<1>1. /\ UNCHANGED <<layout, tcp, sent, flight, list, expected, needDelivery, flags, got, odd>>
      /\ nextTask = TRUE /\ nextTask' = FALSE /\ delivered' = Append(delivered, got)
  BY DEF AfterGetting, network, Control
<1>2. ~needDelivery
  BY <1>1 DEF Control
<1>3. got \in Seq(Part) /\ delivered \in Seq(Seq(Part))
  BY DEF FrameInv
<1>4. delivered' \in Seq(Seq(Part)) /\ got' \in Seq(Part)
  <2>1. PICK S : S = Seq(Part)
    OBVIOUS
  <2> QED
    BY <1>1, <1>3, <2>1, LastOfAppend
<1>5. OnWay' /\ FlagsSound(flags, needDelivery, got)'
  BY <1>1 DEF FrameInv, FlagsSound, OnWay
<1>6. expected' # NULL
  BY <1>1 DEF FrameInv
<1>7. PICK e \in 1..sent + 1 : Position(e) /\ (~odd => Assembled(e))
  BY <1>1, <1>6 DEF FrameInv
<1>8. Position(e)'
  BY <1>1, <1>7 DEF Position, Window, Sorted, Ahead, SeqNum
<1>9. ASSUME Assembled(e) PROVE Assembled(e)'
  <2>1. /\ ~flags.completes /\ ~flags.loss => Partial(got, e)
        /\ got # <<>> /\ Whole(got) /\ Started(flags, list, e) /\ InOrder(got, delivered, list, e)
        /\ Told(delivered)
    BY <1>1, <1>9 DEF Assembled
  <2>2. PICK a : a = Append(delivered, got)
    OBVIOUS
  <2>3. Told(a) /\ a # <<>> /\ Last(a) = got
    BY <1>3, <2>1, <2>2, ToldMore DEF InOrder
  <2>4. Past(a, list, e)
    BY <2>1, <2>3 DEF Past, InOrder
  <2>5. Told(delivered)' /\ Past(delivered, list, e)'
    BY <1>1, <2>2, <2>3, <2>4 DEF Told, Whole, Before, Past, Behind, Begun
  <2>6. Started(flags, list, e)'
    BY <1>1, <2>1 DEF Started, Opening, Begun, FollowsOn, Fresh
  <2>7. (~flags.completes /\ ~flags.loss => Partial(got, e))'
    BY <1>1, <2>1 DEF Partial, Covered
  <2> QED
    BY <1>1, <1>2, <2>5, <2>6, <2>7 DEF Assembled
<1> QED
  BY <1>1, <1>4, <1>5, <1>6, <1>7, <1>8, <1>9 DEF FrameInv

\* What the look at the head finds.
LEMMA FlagsAre ==
  ASSUME Control, Queue, list # <<>>, Kind # "bad"
  PROVE  /\ Flags.loss <=> ~Flags.begins /\ (LossPrecedes \/ flags.loss)
         /\ list[1].used # 0 => Flags.begins = flags.begins /\ Flags.completes = flags.completes
         /\ list[1].used = 0 =>
              CASE Kind = "single" -> Flags.begins /\ Flags.completes
                [] Kind = "start"  -> Flags.begins /\ ~Flags.completes
                [] Kind = "middle" -> ~Flags.begins /\ ~Flags.completes
                [] Kind = "end"    -> ~Flags.begins /\ Flags.completes
                [] Kind = "pair"   -> Flags.begins = flags.begins /\ Flags.completes = flags.completes
<1> DEFINE f == IF list[1].used = 0 THEN SpecialHeader(Kind) ELSE flags
<1>1. Kind \in {"single", "pair", "start", "middle", "end"}
  BY HeadIs DEF Kinds
<1>2. flags \in Flagged /\ flags.loss \in BOOLEAN
  BY DEF Control, Flagged
<1>3. f \in Flagged /\ f.loss = flags.loss
  BY <1>1, <1>2 DEF SpecialHeader, Flagged
<1>4. /\ list[1].used # 0 => f = flags
      /\ list[1].used = 0 =>
           CASE Kind = "single" -> f.begins = TRUE /\ f.completes = TRUE
             [] Kind = "start"  -> f.begins = TRUE /\ f.completes = FALSE
             [] Kind = "middle" -> f.begins = FALSE /\ f.completes = FALSE
             [] Kind = "end"    -> f.begins = FALSE /\ f.completes = TRUE
             [] Kind = "pair"   -> f = flags
  BY <1>1, <1>2 DEF SpecialHeader, Flagged
<1> HIDE DEF f
<1>5. Flags = [f EXCEPT !.loss = InLossyFrame(f)]
  BY DEF Flags, f
<1>6. Flags.begins = f.begins /\ Flags.completes = f.completes /\ Flags.loss = InLossyFrame(f)
  BY <1>3, <1>5 DEF Flagged
<1>7. InLossyFrame(f) <=> ~f.begins /\ (LossPrecedes \/ f.loss)
  BY DEF InLossyFrame
<1>8. Flags.loss <=> ~Flags.begins /\ (LossPrecedes \/ flags.loss)
  BY <1>3, <1>6, <1>7
<1> QED
  BY <1>1, <1>4, <1>6, <1>8

\* The head of a sound list is used in part only if it is an aggregate.
LEMMA HeadKind ==
  ASSUME Control, Queue, list # <<>>
  PROVE  /\ list[1].used \in 0..1 /\ list[1].first \in BOOLEAN /\ (list[1].used = 1 => Kind = "pair")
         /\ list[1].used + 1 = NALUnits <=> (Kind = "pair" => list[1].used = 1)
         /\ list[1].pos \in 1..sent /\ Len(layout) \in Nat /\ sent \in 0..Len(layout)
         /\ Kind = layout[list[1].pos] /\ Kind \in Kinds
<1>1. 1 \in 1..Len(list) /\ Kind \in Kinds
  BY HeadIs
<1>2. list[1].used \in 0..1 /\ list[1].first \in BOOLEAN /\ list[1].pos \in 1..sent
  BY <1>1, ItemAt
<1>3. list[1].used = 1 => Kind = "pair"
  BY <1>1 DEF Queue, ListSound, Kind
<1>4. Len(layout) \in Nat /\ sent \in 0..Len(layout)
  BY LayoutsAssumption DEF Control
<1>5. list[1].used + 1 = NALUnits <=> (Kind = "pair" => list[1].used = 1)
  BY <1>2, <1>3 DEF NALUnits
<1> QED
  BY <1>1, <1>2, <1>3, <1>4, <1>5 DEF Kind

\* A packet that is used or dropped, without an overlooked loss: when the flags say that
\* a unit is complete, and what the part is added to.
LEMMA Looked ==
  ASSUME Control, Queue, FlagsSound(flags, needDelivery, got), InFragments(layout), needDelivery,
         list # <<>>, Kind # "bad", ~Stale, NEW e, Position(e), Assembled(e), NEW h, h = list[1].pos
  PROVE  /\ Flags.completes <=> layout[h] \notin Fragment
         /\ Flags.loss => ~Flags.begins
         /\ ~Flags.loss /\ Kind \in {"single", "start", "pair"} => Kept = <<>>
         /\ ~Flags.loss /\ Kind \in {"middle", "end"} =>
              h = e /\ Kept = got /\ Partial(got, e) /\ ~flags.loss
         /\ ~Flags.loss /\ Kind = "pair" /\ list[1].used = 0 /\ Opening(list) => Flags = Fresh
<1>1. /\ list[1].used \in 0..1 /\ list[1].first \in BOOLEAN /\ (list[1].used = 1 => Kind = "pair")
      /\ h \in 1..sent /\ Len(layout) \in Nat /\ sent \in 0..Len(layout)
      /\ Kind = layout[h] /\ Kind \in Kinds
  BY HeadKind
<1>2. /\ h \in e..sent /\ e \in 1..sent + 1
      /\ LossPrecedes <=> (h # e \/ list[1].first = TRUE)
      /\ list[1].used = 1 => h = e
  BY HeadAhead
<1>3. /\ Flags.loss <=> ~Flags.begins /\ (LossPrecedes \/ flags.loss)
      /\ list[1].used # 0 => Flags.begins = flags.begins /\ Flags.completes = flags.completes
      /\ list[1].used = 0 /\ Kind = "single" => Flags.begins /\ Flags.completes
      /\ list[1].used = 0 /\ Kind = "start"  => Flags.begins /\ ~Flags.completes
      /\ list[1].used = 0 /\ Kind = "middle" => ~Flags.begins /\ ~Flags.completes
      /\ list[1].used = 0 /\ Kind = "end"    => ~Flags.begins /\ Flags.completes
      /\ list[1].used = 0 /\ Kind = "pair"   => Flags.begins = flags.begins /\ Flags.completes = flags.completes
  BY FlagsAre
<1>4. /\ flags.loss => ~flags.begins
      /\ flags.completes /\ ~flags.loss => got = <<>>
  BY DEF FlagsSound
<1>5. /\ ~flags.completes /\ ~flags.loss => Partial(got, e)
      /\ Opening(list) => flags = Fresh
      /\ Begun(list) => flags.completes /\ ~flags.loss
      /\ ~Opening(list) /\ ~Begun(list) => FollowsOn(flags, e)
  BY DEF Assembled, Started
<1>6. Kind = "pair" => flags.completes /\ Flags.completes /\ Flags.begins = flags.begins
  <2>1. CASE list[1].used = 0
    BY <1>3, <2>1 DEF Stale
  <2>2. CASE list[1].used = 1
    BY <1>3, <1>5, <2>2 DEF Begun
  <2> QED
    BY <1>1, <2>1, <2>2
<1>7. Flags.completes <=> layout[h] \notin Fragment
  <2>1. CASE Kind = "pair"
    BY <1>1, <1>6, <2>1 DEF Fragment
  <2>2. CASE Kind # "pair"
    <3>1. list[1].used = 0
      BY <1>1, <2>2
    <3>2. Kind \in {"single", "start", "middle", "end"}
      BY <1>1, <2>2 DEF Kinds
    <3> QED
      BY <1>1, <1>3, <3>1, <3>2 DEF Fragment
  <2> QED
    BY <2>1, <2>2
\* No loss precedes a packet that is not the first: it is the expected one, not begun.
<1>8. ASSUME ~LossPrecedes, list[1].used = 0
      PROVE  h = e /\ (layout[h] \in {"middle", "end"} <=> ~flags.completes)
  <2>1. h = e /\ list[1].first # TRUE
    BY <1>2, <1>8, Zenon
  <2>5. list[1].used # 1
    BY <1>8
  <2>2. FollowsOn(flags, e)
    BY <1>5, <2>1, <2>5 DEF Opening, Begun
  <2>3. e \in 1..Len(layout) /\ layout[e] # "bad"
    BY <1>1, <2>1
  <2>4. layout[e] \in {"middle", "end"} <=> ~flags.completes
    BY <1>1, <2>2, <2>3, GoesOn
  <2> QED
    BY <2>1, <2>4
<1>9. ASSUME ~Flags.loss, Kind \in {"single", "start", "pair"} PROVE Kept = <<>>
  <2>1. CASE Kind = "pair"
    <3>1. ~flags.loss
      BY <1>3, <1>4, <1>6, <1>9, <2>1
    <3>2. got = <<>>
      BY <1>4, <1>6, <2>1, <3>1
    <3> QED
      BY <3>2 DEF Kept
  <2>2. CASE Kind # "pair"
    <3>1. list[1].used = 0 /\ Flags.begins
      BY <1>1, <1>3, <1>9, <2>2
    <3>2. CASE LossPrecedes \/ flags.loss
      BY <3>1, <3>2 DEF Kept
    <3>3. CASE ~(LossPrecedes \/ flags.loss)
      <4>1. flags.completes
        BY <1>1, <1>8, <1>9, <3>1, <3>3
      <4>2. got = <<>>
        BY <1>4, <3>3, <4>1
      <4> QED
        BY <4>2 DEF Kept
    <3> QED
      BY <3>2, <3>3
  <2> QED
    BY <2>1, <2>2
<1>10. ASSUME ~Flags.loss, Kind \in {"middle", "end"}
       PROVE  h = e /\ Kept = got /\ Partial(got, e) /\ ~flags.loss
  <2>1. list[1].used = 0 /\ ~Flags.begins
    BY <1>1, <1>3, <1>10
  <2>2. ~LossPrecedes /\ ~flags.loss
    BY <1>3, <1>10, <2>1
  <2>3. h = e /\ ~flags.completes
    BY <1>1, <1>8, <1>10, <2>1, <2>2
  <2> QED
    BY <1>5, <2>1, <2>2, <2>3 DEF Kept
<1>11. ASSUME ~Flags.loss, Kind = "pair", list[1].used = 0, Opening(list) PROVE Flags = Fresh
  <2>1. flags = Fresh
    BY <1>5, <1>11
  <2>2. SpecialHeader(Kind) = Fresh
    BY <1>11, <2>1 DEF SpecialHeader
  <2>3. Flags = [Fresh EXCEPT !.loss = InLossyFrame(Fresh)]
    BY <1>11, <2>2 DEF Flags
  <2>4. InLossyFrame(Fresh) = FALSE
    BY DEF InLossyFrame, Fresh
  <2> QED
    BY <2>3, <2>4 DEF Fresh
<1> QED
  BY <1>3, <1>7, <1>9, <1>10, <1>11

\* The last part that was handed over.
LEMMA LastPart ==
  ASSUME NEW d \in Seq(Seq(Part)), Told(d), d # <<>>
  PROVE  Last(Last(d)) \in Part
<1>1. PICK S : S = Seq(Part)
  OBVIOUS
<1>2. d \in Seq(S)
  BY <1>1
<1>3. Len(d) \in Nat /\ Len(d) \in 1..Len(d) /\ d[Len(d)] \in S
  <2>1. Len(d) \in Nat
    BY <1>2
  <2>2. Len(d) \in 1..Len(d)
    BY <1>2, <2>1
  <2> QED
    BY <1>2, <2>1, <2>2
<1>4. PICK g : g = d[Len(d)]
  OBVIOUS
<1>5. g \in Seq(Part) /\ g # <<>> /\ Last(d) = g
  BY <1>1, <1>3, <1>4 DEF Told, Last
<1>6. Last(g) \in Part
  <2>1. Len(g) \in Nat /\ Len(g) \in 1..Len(g)
    BY <1>5
  <2>2. g[Len(g)] \in Part
    BY <1>5, <2>1
  <2> QED
    BY <2>2 DEF Last
<1> QED
  BY <1>5, <1>6

LEMMA LastIsPart ==
  ASSUME NEW g \in Seq(Part), g # <<>>
  PROVE  Last(g) \in Part
<1>1. Len(g) \in Nat /\ Len(g) \in 1..Len(g)
  OBVIOUS
<1>2. g[Len(g)] \in Part
  BY <1>1
<1> QED
  BY <1>2 DEF Last

\* What has been used is behind the next packet, and what is behind the expected packet
\* comes before the part of the head that is used next.
LEMMA BehindReleased ==
  ASSUME NEW x \in Part, NEW l, NEW e \in Int, NEW h \in Int, e <= h, Behind(x, l, e), NEW n, n = h + 1, NEW m
  PROVE  Behind(x, m, n)
<1>1. x[1] \in Nat
  BY DEF Part
<1>2. x[1] < n
  BY <1>1 DEF Behind
<1> QED
  BY <1>2 DEF Behind

LEMMA BehindHead ==
  ASSUME NEW x \in Part, NEW l, NEW e \in Int, NEW h \in Int, e <= h, Behind(x, l, e),
         NEW u \in 0..1, Begun(l) => u = 1, NEW y, y = <<h, u + 1>>
  PROVE  Before(x, y)
<1>1. x[1] \in Nat /\ y[1] = h /\ y[2] = u + 1
  BY DEF Part
<1>2. CASE x[1] < e
  BY <1>1, <1>2 DEF Before
<1>3. CASE Begun(l) /\ x[1] = e /\ x[2] = 1
  BY <1>1, <1>3 DEF Before
<1> QED
  BY <1>2, <1>3 DEF Behind

LEMMA PastReleased ==
  ASSUME NEW d \in Seq(Seq(Part)), Told(d), NEW l, NEW e \in Int, NEW h \in Int, e <= h, Past(d, l, e),
         NEW n, n = h + 1, NEW m
  PROVE  Past(d, m, n)
<1> SUFFICES ASSUME d # <<>> PROVE Behind(Last(Last(d)), m, n)
  BY DEF Past
<1>1. PICK x : x = Last(Last(d))
  OBVIOUS
<1>2. x \in Part /\ Behind(x, l, e)
  BY <1>1, LastPart DEF Past
<1>3. Behind(x, m, n)
  BY <1>2, BehindReleased
<1> QED
  BY <1>1, <1>3

\* A packet with a wrong header.
LEMMA FramesReject ==
  ASSUME Control, Queue, FrameInv, Reject
  PROVE  FrameInv'
<1>1. /\ UNCHANGED network /\ UNCHANGED <<needDelivery, flags, got, nextTask, delivered>>
      /\ layout' = layout /\ sent' = sent /\ flight' = flight
      /\ list # <<>> /\ Kind = "bad" /\ ReleaseUsedPacket /\ odd' = (odd \/ LossPrecedes)
  BY DEF Reject, Completed, network
<1>2. got \in Seq(Part) /\ delivered \in Seq(Seq(Part)) /\ got' \in Seq(Part) /\ delivered' \in Seq(Seq(Part))
  BY <1>1 DEF FrameInv
<1>3. OnWay' /\ FlagsSound(flags, needDelivery, got)'
  BY <1>1 DEF FrameInv, FlagsSound, OnWay
<1>4. expected # NULL
  BY <1>1 DEF FrameInv
<1>5. PICK e \in 1..sent + 1 : Position(e) /\ (~odd => Assembled(e))
  BY <1>4 DEF FrameInv
<1>6. PICK h : h = list[1].pos
  OBVIOUS
<1>7. PICK n : n = h + 1
  OBVIOUS
<1>8. /\ Position(n)' /\ expected' # NULL
      /\ list' # <<>> => list'[1].used # 1 /\ list'[1].first # TRUE
  BY <1>1, <1>5, <1>6, <1>7, PositionReleased
<1>9. /\ sent \in Nat /\ h \in e..sent /\ e \in 1..sent + 1 /\ e \in Int /\ h \in Int /\ n \in 1..sent + 1
      /\ LossPrecedes <=> (h # e \/ list[1].first = TRUE)
      /\ layout[h] = "bad" /\ list[1].used # 1
  <2>1. /\ sent \in Nat /\ h \in e..sent /\ e \in 1..sent + 1
        /\ LossPrecedes <=> (h # e \/ list[1].first = TRUE)
    BY <1>1, <1>5, <1>6, HeadAhead
  <2>2. layout[h] = "bad" /\ list[1].used # 1
    BY <1>1, <1>6, HeadKind
  <2> QED
    BY <1>7, <2>1, <2>2
<1>10. ASSUME ~odd' PROVE Assembled(n)'
  <2>1. Assembled(e) /\ h = e /\ list[1].first # TRUE
    BY <1>1, <1>5, <1>9, <1>10, Zenon
  <2>2. (~flags.completes /\ ~flags.loss => Partial(got, n)) /\ (nextTask => got # <<>> /\ Whole(got))
    <3>1. e \in Nat /\ n = e + 1 /\ layout[e] = "bad"
      BY <1>7, <1>9, <2>1
    <3> QED
      BY <1>2, <2>1, <3>1, PartialGrows DEF Assembled
  <2>3. FollowsOn(flags, n)
    <3>1. FollowsOn(flags, e)
      BY <1>9, <2>1 DEF Assembled, Started, Opening, Begun
    <3>2. e \in Nat /\ n = e + 1 /\ layout[e] = "bad"
      BY <1>7, <1>9, <2>1
    <3> QED
      BY <3>1, <3>2, FollowsStill
  <2>4. Started(flags, list', n)
    BY <1>8, <2>3 DEF Started, Opening, Begun
  <2>5. Past(delivered, list', n) /\ Told(delivered)
    <3>1. Past(delivered, list, e) /\ Told(delivered)
      BY <2>1 DEF Assembled
    <3>2. PICK m : m = list'
      OBVIOUS
    <3>3. Past(delivered, m, n)
      BY <1>2, <1>7, <1>9, <3>1, PastReleased
    <3> QED
      BY <3>1, <3>2, <3>3
  <2>6. ASSUME nextTask \/ (needDelivery /\ ~flags.loss) PROVE InOrder(got, delivered, list', n)
    <3> SUFFICES ASSUME got # <<>>
                 PROVE  Behind(Last(got), list', n) /\ (delivered # <<>> => Before(Last(Last(delivered)), Head(got)))
      BY DEF InOrder
    <3>1. Behind(Last(got), list, e) /\ (delivered # <<>> => Before(Last(Last(delivered)), Head(got)))
      BY <2>1, <2>6 DEF Assembled, InOrder
    <3>2. PICK x, m : x = Last(got) /\ m = list'
      OBVIOUS
    <3>3. x \in Part
      BY <1>2, <3>2, LastIsPart
    <3>4. Behind(x, m, n)
      BY <1>7, <1>9, <3>1, <3>2, <3>3, BehindReleased
    <3> QED
      BY <3>1, <3>2, <3>4
  <2>7. (~flags.completes /\ ~flags.loss => Partial(got, n))' /\ (nextTask => got # <<>> /\ Whole(got))'
    BY <1>1, <2>2 DEF Partial, Covered, Whole
  <2>8. Started(flags, list, n)' /\ Past(delivered, list, n)' /\ Told(delivered)'
    BY <1>1, <2>4, <2>5 DEF Started, FollowsOn, Past, Told, Whole, Before, Behind, Begun, Opening, Fresh
  <2>9. (nextTask \/ (needDelivery /\ ~flags.loss) => InOrder(got, delivered, list, n))'
    BY <1>1, <2>6 DEF InOrder, Behind, Begun, Before
  <2> QED
    BY <2>7, <2>8, <2>9 DEF Assembled
<1> QED
  BY <1>1, <1>2, <1>3, <1>8, <1>9, <1>10 DEF FrameInv

\* A packet of a frame that a part was lost of.
LEMMA FramesDrop ==
  ASSUME Control, Queue, FrameInv, InFragments(layout), Drop
  PROVE  FrameInv'
<1>1. /\ UNCHANGED network /\ UNCHANGED <<needDelivery, nextTask, delivered>>
      /\ layout' = layout /\ sent' = sent /\ flight' = flight
      /\ list # <<>> /\ Kind # "bad" /\ ReleaseUsedPacket /\ odd' = (odd \/ Stale)
      /\ needDelivery /\ Flags.loss /\ flags' = Flags /\ got' = Kept
  BY DEF Drop, Completed, network
<1>2. got' \in Seq(Part) /\ delivered \in Seq(Seq(Part)) /\ delivered' \in Seq(Seq(Part))
  <2>1. got' = got \/ got' = <<>>
    BY <1>1 DEF Kept
  <2>2. <<>> \in Seq(Part)
    OBVIOUS
  <2> QED
    BY <1>1, <2>1, <2>2 DEF FrameInv
<1>3. ~Flags.begins
  BY <1>1, FlagsAre
<1>4. OnWay' /\ FlagsSound(flags, needDelivery, got)'
  BY <1>1, <1>3 DEF FrameInv, FlagsSound, OnWay
<1>5. expected # NULL
  BY <1>1 DEF FrameInv
<1>6. PICK e \in 1..sent + 1 : Position(e) /\ (~odd => Assembled(e))
  BY <1>5 DEF FrameInv
<1>7. PICK h : h = list[1].pos
  OBVIOUS
<1>8. PICK n : n = h + 1
  OBVIOUS
<1>9. /\ Position(n)' /\ expected' # NULL
      /\ list' # <<>> => list'[1].used # 1 /\ list'[1].first # TRUE
  BY <1>1, <1>6, <1>7, <1>8, PositionReleased
<1>10. /\ sent \in Nat /\ h \in e..sent /\ e \in 1..sent + 1 /\ e \in Int /\ h \in Int /\ n \in 1..sent + 1
       /\ h \in Nat \ {0} /\ layout[h] # "bad"
  <2>1. sent \in Nat /\ h \in e..sent /\ e \in 1..sent + 1
    BY <1>1, <1>6, <1>7, HeadAhead
  <2>2. layout[h] # "bad"
    BY <1>1, <1>7, HeadKind
  <2> QED
    BY <1>8, <2>1, <2>2
<1>11. ~nextTask
  BY <1>1 DEF Control
<1>12. ASSUME ~odd' PROVE Assembled(n)'
  <2>1. Assembled(e) /\ ~Stale
    BY <1>1, <1>6, <1>12, Zenon
  <2>2. Flags.completes <=> layout[h] \notin Fragment
    BY <1>1, <1>6, <1>7, <2>1, Looked DEF FrameInv
  <2>3. FollowsOn(flags', n)
    BY <1>1, <1>8, <1>10, <2>2, FollowsNow
  <2>4. Started(flags', list', n)
    BY <1>9, <2>3 DEF Started, Opening, Begun
  <2>5. Past(delivered, list', n) /\ Told(delivered)
    <3>1. Past(delivered, list, e) /\ Told(delivered)
      BY <2>1 DEF Assembled
    <3>2. PICK m : m = list'
      OBVIOUS
    <3>3. Past(delivered, m, n)
      BY <1>2, <1>8, <1>10, <3>1, PastReleased
    <3> QED
      BY <3>1, <3>2, <3>3
  <2>6. Started(flags, list, n)' /\ Past(delivered, list, n)' /\ Told(delivered)'
    BY <1>1, <2>4, <2>5 DEF Started, FollowsOn, Past, Told, Whole, Before, Behind, Begun, Opening, Fresh
  <2> QED
    BY <1>1, <1>11, <2>6 DEF Assembled
<1> QED
  BY <1>1, <1>2, <1>4, <1>9, <1>10, <1>12 DEF FrameInv

\* A packet is used: what it makes of the frame.
LEMMA Used ==
  ASSUME Control, Queue, FlagsSound(flags, needDelivery, got), InFragments(layout), needDelivery,
         got \in Seq(Part), delivered \in Seq(Seq(Part)),
         list # <<>>, Kind # "bad", ~Flags.loss, ~Stale, NEW e, Position(e), Assembled(e),
         NEW h, h = list[1].pos, NEW y, y = <<h, list[1].used + 1>>, NEW g, g = Append(Kept, y),
         NEW n, n = h + 1
  PROVE  /\ delivered # <<>> => Before(Last(Last(delivered)), Head(g))
         /\ Flags.completes => Whole(g)
         /\ ~Flags.completes => Partial(g, n)
<1>1. /\ list[1].used \in 0..1 /\ (list[1].used = 1 => Kind = "pair")
      /\ h \in 1..sent /\ Len(layout) \in Nat /\ sent \in 0..Len(layout)
      /\ Kind = layout[h] /\ Kind \in {"single", "pair", "start", "middle", "end"}
  BY HeadKind DEF Kinds
<1>2. e \in Int /\ h \in Int /\ e <= h /\ h \in Nat /\ y \in Part /\ y[1] = h
  <2>1. h \in e..sent /\ e \in 1..sent + 1 /\ sent \in Nat
    BY HeadAhead
  <2> QED
    BY <1>1, <2>1 DEF Part
<1>3. /\ Flags.completes <=> layout[h] \notin Fragment
      /\ Kind \in {"single", "start", "pair"} => Kept = <<>>
      /\ Kind \in {"middle", "end"} => h = e /\ Kept = got /\ Partial(got, e) /\ ~flags.loss
  BY Looked
<1>4. CASE Kind \in {"single", "start", "pair"}
  <2>1. g = <<y>>
    <3>1. Kept = <<>>
      BY <1>3, <1>4
    <3>2. g = Append(<<>>, y)
      BY <3>1, Zenon
    <3>3. Append(<<>>, y) = <<y>>
      BY ONLY y = y
    <3> QED
      BY ONLY <3>2, <3>3
  <2>2. Head(g) = y
    <3>1. Head(<<y>>) = y
      BY ONLY y = y
    <3> QED
      BY <2>1, <3>1, Zenon
  <2>3. delivered # <<>> => Before(Last(Last(delivered)), y)
    <3> SUFFICES ASSUME delivered # <<>> PROVE Before(Last(Last(delivered)), y)
      OBVIOUS
    <3>1. PICK x, u : x = Last(Last(delivered)) /\ u = list[1].used
      OBVIOUS
    <3>2. Past(delivered, list, e) /\ Told(delivered)
      BY DEF Assembled
    <3>3. x \in Part /\ Behind(x, list, e)
      BY <3>1, <3>2, LastPart DEF Past
    <3>4. u \in 0..1 /\ y = <<h, u + 1>> /\ (Begun(list) => u = 1)
      BY <1>1, <3>1 DEF Begun
    <3>5. Before(x, y)
      BY <1>2, <3>3, <3>4, BehindHead
    <3> QED
      BY <3>1, <3>5
  <2>4. CASE Kind = "start"
    <3>1. list[1].used = 0
      BY <1>1, <2>4
    <3>2. y = <<h, 1>>
      BY <3>1
    <3>3. Partial(g, n)
      BY <1>1, <1>2, <2>1, <2>4, <3>2, PartialAlone
    <3>4. ~Flags.completes
      BY <1>1, <1>3, <2>4 DEF Fragment
    <3> QED
      BY <2>2, <2>3, <3>3, <3>4
  <2>5. CASE Kind # "start"
    <3>1. layout[y[1]] \in {"single", "pair"}
      BY <1>1, <1>2, <1>4, <2>5
    <3>2. Whole(g)
      BY <1>2, <2>1, <3>1, WholeAlone
    <3>3. Flags.completes
      BY <1>1, <1>3, <1>4, <2>5 DEF Fragment
    <3> QED
      BY <2>2, <2>3, <3>2, <3>3
  <2> QED
    BY <2>4, <2>5
<1>5. CASE Kind \in {"middle", "end"}
  <2>1. h = e /\ Kept = got /\ Partial(got, e) /\ ~flags.loss /\ got # <<>>
    BY <1>3, <1>5 DEF Partial
  <2>2. list[1].used = 0
    BY <1>1, <1>5
  <2>3. y = <<e, 1>> /\ g = Append(got, y) /\ e \in Nat /\ n = e + 1
    BY <1>2, <2>1, <2>2
  <2>4. /\ layout[e] = "middle" => Partial(g, n)
        /\ layout[e] = "end" => Whole(g)
    BY <2>1, <2>3, PartialExtends
  <2>5. Head(g) = Head(got)
    BY <1>2, <2>1, <2>3, LastOfAppend
  <2>6. delivered # <<>> => Before(Last(Last(delivered)), Head(got))
    BY <2>1 DEF Assembled, InOrder
  <2>7. Flags.completes <=> layout[e] = "end"
    BY <1>1, <1>3, <1>5, <2>1 DEF Fragment
  <2>8. ~Flags.completes => layout[e] = "middle"
    BY <1>1, <1>5, <2>1, <2>7
  <2> QED
    BY <2>4, <2>5, <2>6, <2>7, <2>8
<1> QED
  BY <1>1, <1>4, <1>5

\* Where the stream is after the use: the head is released, or half of it is left.
LEMMA UseMoves ==
  ASSUME Control, Queue, Use, FlagsSound(flags, needDelivery, got), InFragments(layout), NEW e, Position(e),
         NEW h, h = list[1].pos, NEW y, y = <<h, list[1].used + 1>>,
         NEW n, n = IF list[1].used + 1 = NALUnits THEN h + 1 ELSE h
  PROVE  /\ Position(n)' /\ n \in 1..sent' + 1 /\ expected' # NULL
         /\ Behind(y, list', n)
         /\ delivered \in Seq(Seq(Part)) /\ Assembled(e) /\ ~Stale =>
              Started(Flags, list', n) /\ Past(delivered, list', n)
<1>1. /\ UNCHANGED network /\ sent' = sent /\ list # <<>> /\ Kind # "bad" /\ needDelivery /\ ~Flags.loss
  BY DEF Use, Completed, network
<1>2. /\ list[1].used \in 0..1 /\ (list[1].used = 1 => Kind = "pair") /\ h \in 1..sent
      /\ list[1].used + 1 = NALUnits <=> (Kind = "pair" => list[1].used = 1)
      /\ Kind = layout[h]
  BY <1>1, HeadKind
<1>3. e \in Int /\ h \in Int /\ e <= h /\ sent \in Nat /\ h \in Nat \ {0} /\ y[1] = h /\ y[2] = list[1].used + 1
  <2>1. h \in e..sent /\ e \in 1..sent + 1 /\ sent \in Nat
    BY <1>1, HeadAhead
  <2> QED
    BY <1>2, <2>1
<1>4. Assembled(e) /\ ~Stale =>
        /\ Flags.completes <=> layout[h] \notin Fragment
        /\ Kind = "pair" /\ list[1].used = 0 /\ Opening(list) => Flags = Fresh
        /\ Past(delivered, list, e) /\ Told(delivered)
  BY <1>1, Looked DEF Assembled
<1>5. CASE list[1].used + 1 = NALUnits
  <2>1. ReleaseUsedPacket /\ n = h + 1
    BY <1>5 DEF Use
  <2>2. /\ Position(n)' /\ expected' # NULL
        /\ list' # <<>> => list'[1].used # 1 /\ list'[1].first # TRUE
    BY <1>1, <2>1, PositionReleased
  <2>3. Behind(y, list', n) /\ n \in 1..sent' + 1
    BY <1>1, <1>2, <1>3, <2>1 DEF Behind
  <2>4. ASSUME delivered \in Seq(Seq(Part)), Assembled(e), ~Stale
        PROVE  Started(Flags, list', n) /\ Past(delivered, list', n)
    <3>1. PICK f, m : f = Flags /\ m = list'
      OBVIOUS
    <3>2. FollowsOn(f, n)
      BY <1>1, <1>2, <1>3, <1>4, <2>1, <2>4, <3>1, FollowsNow
    <3>3. Past(delivered, m, n)
      BY <1>3, <1>4, <2>1, <2>4, PastReleased
    <3>4. Started(f, m, n)
      BY <2>2, <3>1, <3>2 DEF Started, Opening, Begun
    <3> QED
      BY <3>1, <3>3, <3>4
  <2> QED
    BY <2>2, <2>3, <2>4
<1>6. CASE list[1].used + 1 # NALUnits
  <2>1. list' = [list EXCEPT ![1].used = @ + 1] /\ expected' = HeadNumber /\ n = h
    BY <1>6 DEF Use
  <2>2. Kind = "pair" /\ list[1].used = 0
    BY <1>2, <1>6
  <2>3. /\ Position(n)' /\ expected' # NULL
        /\ list' # <<>> /\ list'[1].first = list[1].first /\ list'[1].used = 1
    BY <1>1, <2>1, <2>2, PositionHalf
  <2>4. Begun(list') /\ (Opening(list') <=> Opening(list))
    BY <1>1, <2>3 DEF Begun, Opening
  <2>5. Behind(y, list', n) /\ n \in 1..sent' + 1
    BY <1>1, <1>2, <1>3, <2>1, <2>2, <2>4 DEF Behind
  <2>6. ASSUME delivered \in Seq(Seq(Part)), Assembled(e), ~Stale
        PROVE  Started(Flags, list', n) /\ Past(delivered, list', n)
    <3>1. Flags.completes
      BY <1>2, <1>4, <2>2, <2>6 DEF Fragment
    <3>2. Started(Flags, list', n)
      BY <1>1, <1>4, <2>2, <2>4, <2>6, <3>1 DEF Started
    <3>3. Past(delivered, list', n)
      <4> SUFFICES ASSUME delivered # <<>> PROVE Behind(Last(Last(delivered)), list', n)
        BY DEF Past
      <4>1. PICK x : x = Last(Last(delivered))
        OBVIOUS
      <4>2. x \in Part /\ Behind(x, list, e)
        BY <1>4, <2>6, <4>1, LastPart DEF Past
      <4>3. x[1] \in Nat /\ x[1] < e
        BY <2>2, <4>2 DEF Behind, Begun, Part
      <4>4. Behind(x, list', n)
        BY <1>3, <2>1, <4>3 DEF Behind
      <4> QED
        BY <4>1, <4>4
    <3> QED
      BY <3>2, <3>3
  <2> QED
    BY <2>3, <2>5, <2>6
<1> QED
  BY <1>5, <1>6

LEMMA FramesUse ==
  ASSUME Control, Queue, FrameInv, InFragments(layout), Use
  PROVE  FrameInv'
<1>1. /\ UNCHANGED network /\ layout' = layout /\ sent' = sent /\ flight' = flight
      /\ list # <<>> /\ Kind # "bad" /\ needDelivery /\ ~Flags.loss /\ odd' = (odd \/ Stale)
      /\ flags' = Flags /\ got' = Append(Kept, <<list[1].pos, list[1].used + 1>>)
      /\ needDelivery' = ~Flags.completes
  BY DEF Use, Completed, network
<1>2. ~nextTask /\ nextTask \in BOOLEAN
  BY <1>1 DEF Control
<1>3. got \in Seq(Part) /\ delivered \in Seq(Seq(Part)) /\ FlagsSound(flags, needDelivery, got) /\ expected # NULL
  BY <1>1 DEF FrameInv
<1>4. PICK e \in 1..sent + 1 : Position(e) /\ (~odd => Assembled(e))
  BY <1>3 DEF FrameInv
<1>5. PICK h : h = list[1].pos
  OBVIOUS
<1>6. PICK y : y = <<h, list[1].used + 1>>
  OBVIOUS
<1>7. PICK n : n = IF list[1].used + 1 = NALUnits THEN h + 1 ELSE h
  OBVIOUS
<1>8. PICK k : k = Kept
  OBVIOUS
<1>9. PICK g : g = Append(k, y)
  OBVIOUS
<1>10. got' = g
  BY <1>1, <1>5, <1>6, <1>8, <1>9
<1>11. y \in Part /\ k \in Seq(Part)
  <2>1. h \in 1..sent /\ list[1].used \in 0..1 /\ sent \in Nat
    BY <1>1, <1>5, HeadKind
  <2>2. k = got \/ k = <<>>
    BY <1>8 DEF Kept
  <2>3. <<>> \in Seq(Part)
    OBVIOUS
  <2>4. y \in Part
    <3>1. h \in Nat /\ list[1].used + 1 \in 1..2
      BY <2>1
    <3> QED
      BY <1>6, <3>1 DEF Part
  <2> QED
    BY <1>3, <2>2, <2>3, <2>4
<1>12. g \in Seq(Part) /\ g # <<>> /\ Last(g) = y
  <2>1. g \in Seq(Part)
    BY ONLY <1>9, <1>11
  <2>2. Len(g) \in Nat /\ Len(g) = Len(k) + 1 /\ g[Len(k) + 1] = y
    BY ONLY <1>9, <1>11
  <2>3. Len(k) \in Nat
    BY ONLY <1>11
  <2> QED
    BY ONLY <2>1, <2>2, <2>3 DEF Last
<1>13. FlagsSound(flags, needDelivery, got)'
  BY <1>1 DEF FlagsSound
<1>14. /\ Position(n)' /\ n \in 1..sent' + 1 /\ expected' # NULL
       /\ Behind(y, list', n)
       /\ Assembled(e) /\ ~Stale => Started(Flags, list', n) /\ Past(delivered, list', n)
  BY <1>3, <1>4, <1>5, <1>6, <1>7, UseMoves
<1>15. \/ Flags.completes /\ list' = <<>> /\ delivered' = Append(delivered, g) /\ nextTask' = FALSE
       \/ Flags.completes /\ delivered' = delivered /\ nextTask' = TRUE
       \/ ~Flags.completes /\ delivered' = delivered /\ nextTask' = FALSE
  BY <1>2, <1>10 DEF Use
<1>16. delivered' \in Seq(Seq(Part))
  <2>1. PICK S : S = Seq(Part)
    OBVIOUS
  <2>2. delivered \in Seq(S) /\ g \in S
    BY <1>3, <1>12, <2>1
  <2>3. Append(delivered, g) \in Seq(S)
    BY <2>2
  <2> QED
    BY <1>3, <1>15, <2>1, <2>3
<1>17. OnWay'
  BY <1>1 DEF FrameInv, OnWay
<1>18. ASSUME ~odd' PROVE Assembled(n)'
  <2>1. Assembled(e) /\ ~Stale
    BY <1>1, <1>4, <1>18, Zenon
  <2>2. PICK m : m = h + 1
    OBVIOUS
  <2>3. /\ delivered # <<>> => Before(Last(Last(delivered)), Head(g))
        /\ Flags.completes => Whole(g)
        /\ ~Flags.completes => Partial(g, m)
    BY <1>1, <1>3, <1>4, <1>5, <1>6, <1>8, <1>9, <2>1, <2>2, Used
  <2>4. ~Flags.completes => Partial(g, n)
    <3>1. ASSUME ~Flags.completes PROVE n = m
      <4>1. layout[h] \in Fragment /\ Kind = layout[h]
        BY <1>1, <1>3, <1>4, <1>5, <2>1, <3>1, Looked DEF Kind
      <4>2. Kind # "pair"
        BY <4>1 DEF Fragment
      <4>3. list[1].used + 1 = NALUnits
        BY <1>1, <4>2, HeadKind
      <4> QED
        BY <1>7, <2>2, <4>3
    <3> QED
      BY <2>3, <3>1
  <2>5. PICK d : d = delivered'
    OBVIOUS
  <2>6. Started(Flags, list', n) /\ Past(delivered, list', n) /\ Told(delivered)
    BY <1>14, <2>1 DEF Assembled
  <2>7. Told(d) /\ Past(d, list', n)
    <3>1. CASE d = delivered
      BY <2>6, <3>1
    <3>2. CASE Flags.completes /\ d = Append(delivered, g)
      <4>1. Told(d) /\ d # <<>> /\ Last(d) = g
        BY <1>3, <1>12, <2>3, <2>6, <3>2, ToldMore
      <4>2. Past(d, list', n)
        BY <1>12, <1>14, <4>1 DEF Past
      <4> QED
        BY <4>1, <4>2
    <3> QED
      BY <1>15, <2>5, <3>1, <3>2
  <2>8. nextTask' => Flags.completes /\ d = delivered
    BY <1>15, <2>5
  <2>9. needDelivery' => d = delivered
    BY <1>1, <1>15, <2>5
  <2>10. nextTask' \/ (needDelivery' /\ ~flags'.loss) => InOrder(g, d, list', n)
    BY <1>12, <1>14, <2>3, <2>8, <2>9 DEF InOrder
  <2>11. (~flags.completes /\ ~flags.loss => Partial(got, n))' /\ (nextTask => got # <<>> /\ Whole(got))'
    <3>1. Partial(g, n) => Partial(got, n)'
      BY <1>1, <1>10 DEF Partial, Covered
    <3>2. Whole(g) => Whole(got)'
      BY <1>1, <1>10 DEF Whole
    <3> QED
      BY <1>1, <1>10, <1>12, <2>3, <2>4, <2>8, <3>1, <3>2
  <2>12. Started(flags, list, n)'
    BY <1>1, <2>6 DEF Started, FollowsOn, Fresh, Opening, Begun
  <2>13. Past(delivered, list, n)' /\ Told(delivered)'
    BY <1>1, <2>5, <2>7 DEF Past, Behind, Begun, Told, Whole, Before
  <2>14. (nextTask \/ (needDelivery /\ ~flags.loss) => InOrder(got, delivered, list, n))'
    BY <1>10, <2>5, <2>10 DEF InOrder, Behind, Begun, Before
  <2> QED
    BY <2>11, <2>12, <2>13, <2>14 DEF Assembled
<1> QED
  BY <1>10, <1>12, <1>13, <1>14, <1>16, <1>17, <1>18 DEF FrameInv

LEMMA FramesNext ==
  ASSUME IInv, Received, FrameInv, InFragments(layout), [Next]_vars
  PROVE  FrameInv'
<1>0. Control /\ Queue
  BY DEF IInv
<1>1. CASE Send
  BY <1>0, <1>1, FramesSend
<1>2. ASSUME NEW p \in Packets, Read(p) PROVE FrameInv'
  BY <1>2, FramesRead
<1>3. CASE Age \/ ReadPart \/ ReadOther \/ OtherFreed \/ Wait \/ ClientReturns \/ UNCHANGED vars
  <2>1. UNCHANGED <<layout, tcp, sent, flight, list, expected, needDelivery, flags, got, nextTask,
                    delivered, odd>>
    BY <1>3 DEF Age, ReadPart, ReadOther, OtherFreed, Wait, ClientReturns, vars, network
  <2> QED
    BY <2>1, FramesUnmoved
<1>4. CASE Reject
  BY <1>0, <1>4, FramesReject
<1>5. CASE Drop
  BY <1>0, <1>5, FramesDrop
<1>6. CASE Use
  BY <1>0, <1>6, FramesUse
<1>7. CASE AfterGetting
  BY <1>0, <1>7, FramesAfterGetting
<1>8. CASE GetNextFrame
  BY <1>0, <1>8, FramesGet
<1>9. CASE StopGettingFrames
  BY <1>9, FramesStop
<1> QED
  BY <1>1, <1>2, <1>3, <1>4, <1>5, <1>6, <1>7, <1>8, <1>9 DEF Next, Code

\* MultiFramedRTPSource.cpp:152-206: of a stream in which the fragments of a unit follow
\* each other, the client gets whole frames in the order of the stream, whatever is lost,
\* repeated or overtaken, unless a loss was overlooked.
THEOREM WholeFrames ==
  ASSUME \A l \in Layouts : InFragments(l)
  PROVE  Spec => []FramesWhole
<1>1. Init => IInv /\ Received /\ FrameInv
  <2>1. Init => Received
    BY DEF Init, Received
  <2> QED
    BY <2>1, InvInit, FramesInit
<1>2. IInv /\ Received /\ FrameInv /\ [Next]_vars => (IInv /\ Received /\ FrameInv)'
  <2>1. IInv => InFragments(layout)
    BY DEF IInv, Control
  <2> QED
    BY <2>1, InvNext, ReceivedNext, FramesNext
<1>3. IInv /\ Received /\ FrameInv => FramesWhole
  <2> SUFFICES ASSUME FrameInv, ~odd, NEW i \in 1..Len(delivered)
               PROVE  /\ Whole(delivered[i])
                      /\ i > 1 => Before(Last(delivered[i - 1]), Head(delivered[i]))
    BY DEF FramesWhole
  <2>1. expected # NULL
    <3>1. delivered = <<>> => Len(delivered) = 0
      OBVIOUS
    <3> QED
      BY <3>1 DEF FrameInv
  <2>2. Told(delivered)
    BY <2>1 DEF FrameInv, Assembled
  <2> QED
    BY <2>2 DEF Told
<1>4. QED
  BY <1>1, <1>2, <1>3, PTL DEF Spec
=============================================================================
