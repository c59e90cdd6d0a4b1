-------------------------- MODULE RtspServerProofs --------------------------
(* What is proved of RtspServer, for every number of files, sessions,      *)
(* connections, sockets and tracks and every depth of nested loops:        *)
(* nothing that a session, a waiting DESCRIBE or the table points to is    *)
(* deleted, whatever moves the clients make.  And, of clients that do not  *)
(* switch a track's transport or drop their connection during DESCRIBE:    *)
(* the database of streams over TCP is exact and no descriptor is stale;   *)
(* and no connection goes deaf when each session keeps to its connection.  *)
EXTENDS RtspServer, FiniteSetTheorems, SequenceTheorems, TLAPS

(* The connections whose DESCRIBE waits in a loop exist. *)
LoopsLive == \A i \in 1..Len(loops) : conn[loops[i].conn] # NULL

TableSound(T, S) == \A n \in Names : T[n] # NULL => S[T[n]] # NULL /\ S[T[n]].name = n

(* Every count is right, when held[m] is the number of holders of m. *)
Counted(S, held) ==
    \A m \in Sms : /\ S[m] = NULL => held[m] = 0
                   /\ S[m] # NULL => S[m].refs = held[m]

Held == [m \in Sms |-> Holders(m)]

IInv == TypeOK /\ TableSound(table, sms) /\ Counted(sms, Held) /\ LoopsLive

LEMMA NoNull ==
    /\ NULL \notin SmsObject /\ NULL \notin SessObject
    /\ NULL \notin ConnObject /\ NULL \notin DescObject
BY NoObject

-----------------------------------------------------------------------------
(* Counting. *)

LEMMA Counts ==
    ASSUME TypeOK, NEW m \in Sms
    PROVE  /\ IsFiniteSet(SessionsOf(m)) /\ Cardinality(SessionsOf(m)) \in Nat
           /\ IsFiniteSet(CallsOf(m)) /\ Cardinality(CallsOf(m)) \in Nat
           /\ Holders(m) \in Nat
<1>1. IsFiniteSet(SessionsOf(m))
  BY FS_Subset, ServerAssumption DEF SessionsOf
<1>2. Len(loops) \in Nat
  BY DEF TypeOK
<1>3. IsFiniteSet(1..Len(loops))
  BY <1>2, FS_Interval
<1>4. IsFiniteSet(CallsOf(m))
  BY <1>3, FS_Subset DEF CallsOf
<1>5. QED
  BY <1>1, <1>4, FS_CardinalityType DEF Holders

(* What the sessions E hold, and what is left without them. *)
LEMMA UsesCounted ==
    ASSUME TypeOK, NEW E \in SUBSET Ids, \A s \in E : sess[s] # NULL
    PROVE  /\ UsesOf(E) \in [Sms -> Nat]
           /\ \A m \in Sms : /\ UsesOf(E)[m] <= Cardinality(SessionsOf(m))
                             /\ Cardinality(SessionsOf(m) \ E)
                                  = Cardinality(SessionsOf(m)) - UsesOf(E)[m]
<1> SUFFICES ASSUME NEW m \in Sms
             PROVE  /\ UsesOf(E)[m] \in Nat
                    /\ UsesOf(E)[m] <= Cardinality(SessionsOf(m))
                    /\ Cardinality(SessionsOf(m) \ E)
                         = Cardinality(SessionsOf(m)) - UsesOf(E)[m]
  BY DEF UsesOf
<1>1. {s \in E : sess[s].sms = m} = SessionsOf(m) \cap E
  BY DEF SessionsOf
<1>2. IsFiniteSet(SessionsOf(m)) /\ Cardinality(SessionsOf(m)) \in Nat
  BY Counts
<1>3. Cardinality(SessionsOf(m) \ E)
        = Cardinality(SessionsOf(m)) - Cardinality(SessionsOf(m) \cap E)
  BY <1>2, FS_Difference
<1>4. /\ IsFiniteSet(SessionsOf(m) \cap E)
      /\ Cardinality(SessionsOf(m) \cap E) <= Cardinality(SessionsOf(m))
  BY <1>2, FS_Subset, FS_CardinalityType
<1>5. Cardinality(SessionsOf(m) \cap E) \in Nat
  BY <1>4, FS_CardinalityType
<1>6. UsesOf(E)[m] = Cardinality(SessionsOf(m) \cap E)
  BY <1>1 DEF UsesOf
<1>7. QED
  BY <1>2, <1>3, <1>4, <1>5, <1>6

-----------------------------------------------------------------------------
(* Lookups and releases keep every count right. *)

LEMMA LookupKeeps ==
    ASSUME IInv, NEW n \in Names, NEW isFirst \in BOOLEAN, NEW l \in Lookups(n, isFirst)
    PROVE  /\ l.table \in [Names -> Sms \cup {NULL}]
           /\ l.sms \in [Sms -> SmsObject \cup {NULL}]
           /\ l.found \in Sms \cup {NULL}
           /\ l.found # NULL => l.sms[l.found] # NULL
           /\ TableSound(l.table, l.sms) /\ Counted(l.sms, Held)
<1> DEFINE old  == table[n]
           gone == old # NULL /\ (~file[n] \/ isFirst)
           T    == IF gone THEN TableWithout(table, sms, old) ELSE table
           S    == IF gone THEN SmsWithout(sms, old) ELSE sms
<1>0. /\ table \in [Names -> Sms \cup {NULL}] /\ sms \in [Sms -> SmsObject \cup {NULL}]
      /\ file \in [Names -> BOOLEAN]
      /\ TableSound(table, sms) /\ Counted(sms, Held)
  BY DEF IInv, TypeOK
<1>1. gone => old \in Sms /\ sms[old] \in SmsObject /\ sms[old].name = n
  BY <1>0 DEF TableSound
<1>2. /\ T \in [Names -> Sms \cup {NULL}] /\ S \in [Sms -> SmsObject \cup {NULL}]
      /\ TableSound(T, S) /\ Counted(S, Held)
  <2>1. CASE ~gone
    BY <1>0, <2>1
  <2>2. CASE gone
    <3>1. T = [table EXCEPT ![n] = NULL]
      BY <1>1, <2>2 DEF TableWithout
    <3>2. T \in [Names -> Sms \cup {NULL}]
      BY <3>1, <1>0
    <3>3. CASE sms[old].refs = 0
      <4>1. S = [sms EXCEPT ![old] = NULL]
        BY <2>2, <3>3 DEF SmsWithout
      <4>2. S \in [Sms -> SmsObject \cup {NULL}]
        BY <4>1, <1>0
      <4>3. TableSound(T, S)
        <5> SUFFICES ASSUME NEW k \in Names, T[k] # NULL
                     PROVE  S[T[k]] # NULL /\ S[T[k]].name = k
          BY DEF TableSound
        <5>1. k # n /\ T[k] = table[k] /\ table[k] \in Sms
          BY <1>0, <3>1
        <5>2. sms[table[k]] # NULL /\ sms[table[k]].name = k
          BY <1>0, <5>1 DEF TableSound
        <5>3. table[k] # old
          BY <1>1, <2>2, <5>1, <5>2
        <5>4. S[table[k]] = sms[table[k]]
          BY <1>0, <4>1, <5>1, <5>3
        <5> HIDE DEF T, S
        <5>5. QED
          BY <5>1, <5>2, <5>4
      <4>4. Counted(S, Held)
        BY <1>0, <1>1, <2>2, <3>3, <4>1, NoNull DEF Counted
      <4>5. QED
        BY <3>2, <4>2, <4>3, <4>4
    <3>4. CASE sms[old].refs # 0
      <4>1. S = [sms EXCEPT ![old].dwu = TRUE]
        BY <2>2, <3>4 DEF SmsWithout
      <4>2. /\ S[old] \in SmsObject /\ S[old].name = sms[old].name /\ S[old].refs = sms[old].refs
            /\ \A m \in Sms \ {old} : S[m] = sms[m]
            /\ DOMAIN S = Sms
        BY <4>1, <1>0, <1>1, <2>2, ZenonT(30) DEF SmsObject
      <4>3. S \in [Sms -> SmsObject \cup {NULL}]
        BY <4>1, <4>2, <1>0, <1>1, <2>2
      <4>4. TableSound(T, S)
        <5> SUFFICES ASSUME NEW k \in Names, T[k] # NULL
                     PROVE  S[T[k]] # NULL /\ S[T[k]].name = k
          BY DEF TableSound
        <5>1. k # n /\ T[k] = table[k] /\ table[k] \in Sms
          BY <1>0, <3>1
        <5>2. sms[table[k]] # NULL /\ sms[table[k]].name = k
          BY <1>0, <5>1 DEF TableSound
        <5>3. table[k] # old
          BY <1>1, <2>2, <5>1, <5>2
        <5>4. S[table[k]] = sms[table[k]]
          BY <4>2, <5>1, <5>3
        <5> HIDE DEF T, S
        <5>5. QED
          BY <5>1, <5>2, <5>4
      <4>5. Counted(S, Held)
        BY <1>0, <1>1, <2>2, <4>2, NoNull DEF Counted
      <4>6. QED
        BY <3>2, <4>3, <4>4, <4>5
    <3>5. QED
      BY <3>3, <3>4
  <2>3. QED
    BY <2>1, <2>2
<1>3. CASE file[n] /\ T[n] = NULL
  <2>1. PICK m \in Sms : /\ S[m] = NULL
                         /\ l = [table |-> [T EXCEPT ![n] = m],
                                 sms |-> [S EXCEPT ![m] = NewSms(n)], found |-> m]
    BY <1>3 DEF Lookups
  <2>2. NewSms(n) \in SmsObject /\ NewSms(n).name = n /\ NewSms(n).refs = 0 /\ NewSms(n) # NULL
    <3>1. NewSms(n) = [name |-> n, refs |-> 0, dwu |-> FALSE]
      BY DEF NewSms
    <3>2. NewSms(n) \in SmsObject
      BY <3>1 DEF SmsObject
    <3>3. NewSms(n) # NULL
      BY <3>2, NoNull
    <3>4. QED
      BY <3>1, <3>2, <3>3
  <2>3. /\ l.table = [T EXCEPT ![n] = m] /\ l.sms = [S EXCEPT ![m] = NewSms(n)] /\ l.found = m
    BY <2>1
  <2>4. TableSound(l.table, l.sms)
    BY <1>2, <2>1, <2>2, <2>3 DEF TableSound
  <2>5. Counted(l.sms, Held)
    BY <1>2, <2>1, <2>2, <2>3 DEF Counted
  <2>6. QED
    BY <1>2, <2>2, <2>3, <2>4, <2>5
<1>4. CASE ~(file[n] /\ T[n] = NULL)
  <2>1. l = [table |-> T, sms |-> S, found |-> T[n]]
    BY <1>4 DEF Lookups
  <2>2. l.table = T /\ l.sms = S /\ l.found = T[n]
    BY <2>1
  <2> HIDE DEF T, S
  <2>3. QED
    BY <1>2, <2>2 DEF TableSound
<1>5. QED
  BY <1>3, <1>4

LEMMA ReleaseKeeps ==
    ASSUME IInv, NEW uses \in [Sms -> Nat], Release(uses),
           \A m \in Sms : uses[m] <= Holders(m)
    PROVE  /\ table' \in [Names -> Sms \cup {NULL}]
           /\ sms' \in [Sms -> SmsObject \cup {NULL}]
           /\ TableSound(table', sms')
           /\ Counted(sms', [m \in Sms |-> Holders(m) - uses[m]])
<1>0. /\ table \in [Names -> Sms \cup {NULL}] /\ sms \in [Sms -> SmsObject \cup {NULL}]
      /\ TableSound(table, sms)
      /\ \A m \in Sms : /\ sms[m] = NULL => Holders(m) = 0
                        /\ sms[m] # NULL => sms[m].refs = Holders(m)
  BY DEF IInv, TypeOK, Counted, Held
<1>1. \A m \in Sms : Holders(m) \in Nat
  BY Counts DEF IInv
<1>2. \A m \in Sms : sms[m] # NULL =>
         /\ Dropped(uses)[m] = [sms[m] EXCEPT !.refs = Holders(m) - uses[m]]
         /\ Dropped(uses)[m] \in SmsObject /\ Dropped(uses)[m].name = sms[m].name
         /\ Dropped(uses)[m].refs = Holders(m) - uses[m]
  <2> SUFFICES ASSUME NEW m \in Sms, sms[m] # NULL
               PROVE  /\ Dropped(uses)[m] = [sms[m] EXCEPT !.refs = Holders(m) - uses[m]]
                      /\ Dropped(uses)[m] \in SmsObject /\ Dropped(uses)[m].name = sms[m].name
                      /\ Dropped(uses)[m].refs = Holders(m) - uses[m]
    OBVIOUS
  <2>1. /\ sms[m] \in SmsObject /\ sms[m].refs = Holders(m) /\ uses[m] \in Nat
        /\ uses[m] <= Holders(m) /\ Holders(m) \in Nat
    BY <1>0, <1>1
  <2>2. (IF sms[m].refs > uses[m] THEN sms[m].refs - uses[m] ELSE 0) = Holders(m) - uses[m]
    BY <2>1
  <2>3. Dropped(uses)[m] = [sms[m] EXCEPT !.refs = Holders(m) - uses[m]]
    BY <2>2 DEF Dropped
  <2>4. Holders(m) - uses[m] \in Nat
    BY <2>1
  <2>5. QED
    BY <2>1, <2>3, <2>4 DEF SmsObject
<1>3. \A m \in Sms : sms[m] = NULL => Dropped(uses)[m] = NULL /\ m \notin Due(uses)
  BY DEF Dropped, Due
<1>4. /\ sms' = [m \in Sms |-> IF m \in Due(uses) THEN NULL ELSE Dropped(uses)[m]]
      /\ table' = [n \in Names |-> IF \E m \in Due(uses) : sms[m].name = n THEN NULL ELSE table[n]]
  BY DEF Release
<1>5. table' \in [Names -> Sms \cup {NULL}]
  BY <1>0, <1>4
<1>6. sms' \in [Sms -> SmsObject \cup {NULL}]
  BY <1>2, <1>3, <1>4
<1>7. TableSound(table', sms')
  <2> SUFFICES ASSUME NEW n \in Names, table'[n] # NULL
               PROVE  sms'[table'[n]] # NULL /\ sms'[table'[n]].name = n
    BY DEF TableSound
  <2>1. table'[n] = table[n] /\ table[n] \in Sms /\ ~\E m \in Due(uses) : sms[m].name = n
    BY <1>0, <1>4
  <2>2. sms[table[n]] # NULL /\ sms[table[n]].name = n
    BY <1>0, <2>1 DEF TableSound
  <2>3. sms'[table[n]] = Dropped(uses)[table[n]]
    BY <1>4, <2>1, <2>2
  <2>4. Dropped(uses)[table[n]] \in SmsObject /\ Dropped(uses)[table[n]].name = n
    BY <1>2, <2>1, <2>2
  <2>5. QED
    BY <2>1, <2>3, <2>4, NoNull
<1>8. Counted(sms', [m \in Sms |-> Holders(m) - uses[m]])
  <2> SUFFICES ASSUME NEW m \in Sms
               PROVE  /\ sms'[m] = NULL => Holders(m) - uses[m] = 0
                      /\ sms'[m] # NULL => sms'[m].refs = Holders(m) - uses[m]
    BY DEF Counted
  <2>0. uses[m] \in Nat /\ uses[m] <= Holders(m) /\ Holders(m) \in Nat
    BY <1>1
  <2>1. CASE sms[m] = NULL
    BY <1>0, <1>3, <1>4, <2>0, <2>1
  <2>2. CASE sms[m] # NULL
    BY <1>2, <1>4, <2>2, NoNull DEF Due
  <2>3. QED
    BY <2>1, <2>2
<1>9. QED
  BY <1>5, <1>6, <1>7, <1>8

-----------------------------------------------------------------------------
(* Types of what the helpers return. *)

LEMMA DescriptorsTyped ==
    ASSUME TypeOK, NEW D
    PROVE  /\ DescWithout(D) \in [Socks -> DescObject \cup {NULL}]
           /\ HandedBack(D) \subseteq Conns
           /\ ReaderWithout(D) \in [Socks -> Conns \cup {InDesc, NULL}]
<1>0. desc \in [Socks -> DescObject \cup {NULL}] /\ reader \in [Socks -> Conns \cup {InDesc, NULL}]
  BY DEF TypeOK
<1>1. \A k \in Socks : desc[k] # NULL => [desc[k] EXCEPT !.chan = @ \ D] \in DescObject
  BY <1>0 DEF DescObject
<1>2. DescWithout(D) \in [Socks -> DescObject \cup {NULL}]
  BY <1>1 DEF DescWithout
<1>3. HandedBack(D) \subseteq Conns
  BY <1>0 DEF HandedBack, Freed, DescObject
<1>4. \A k \in Socks : ReaderWithout(D)[k] \in Conns \cup {InDesc, NULL}
  <2> SUFFICES ASSUME NEW k \in Socks
               PROVE  ReaderWithout(D)[k] \in Conns \cup {InDesc, NULL}
    OBVIOUS
  <2>1. CASE \E c \in HandedBack(D) : conn[c] # NULL /\ conn[c].in = k
    BY <1>3, <2>1 DEF ReaderWithout
  <2>2. CASE ~\E c \in HandedBack(D) : conn[c] # NULL /\ conn[c].in = k
    BY <1>0, <2>2 DEF ReaderWithout
  <2>3. QED
    BY <2>1, <2>2
<1>5. QED
  BY <1>2, <1>3, <1>4 DEF ReaderWithout

LEMMA DeletedTyped ==
    ASSUME NEW track \in [Tracks -> TrackObject], NEW T
    PROVE  Deleted(track, T) \in [Tracks -> TrackObject]
BY DEF Deleted, TrackObject

LEMMA UnnotedTyped ==
    ASSUME TypeOK, NEW D
    PROVE  Unnoted(D) \in [Socks -> SUBSET Streams]
BY DEF TypeOK, Unnoted

LEMMA WithoutLast ==
    ASSUME NEW S, NEW q \in Seq(S), q # <<>>
    PROVE  /\ SubSeq(q, 1, Len(q) - 1) \in Seq(S)
           /\ Len(SubSeq(q, 1, Len(q) - 1)) = Len(q) - 1
           /\ \A i \in 1..(Len(q) - 1) : SubSeq(q, 1, Len(q) - 1)[i] = q[i]
<1>1. Len(q) \in Nat /\ Len(q) >= 1
  OBVIOUS
<1>2. /\ 1 \in 1..(Len(q) + 1) /\ Len(q) - 1 \in (1 - 1)..Len(q)
  BY <1>1
<1>3. /\ SubSeq(q, 1, Len(q) - 1) \in Seq(S)
      /\ Len(SubSeq(q, 1, Len(q) - 1))
           = IF 1 <= Len(q) - 1 THEN (Len(q) - 1) - 1 + 1 ELSE 0
      /\ \A i \in 1..((Len(q) - 1) - 1 + 1) : SubSeq(q, 1, Len(q) - 1)[i] = q[1 + i - 1]
  BY <1>2, SubSeqProperties
<1>4. (Len(q) - 1) - 1 + 1 = Len(q) - 1 /\ \A i \in 1..(Len(q) - 1) : 1 + i - 1 = i
  BY <1>1
<1>5. \A i \in 1..(Len(q) - 1) : SubSeq(q, 1, Len(q) - 1)[i] = q[i]
  BY <1>3, <1>4
<1>6. Len(SubSeq(q, 1, Len(q) - 1)) = Len(q) - 1
  <2> DEFINE r == SubSeq(q, 1, Len(q) - 1)
             n == Len(q)
  <2>1. Len(r) = (IF 1 <= n - 1 THEN (n - 1) - 1 + 1 ELSE 0) /\ n \in Nat /\ n >= 1
    BY <1>1, <1>3
  <2> HIDE DEF r, n
  <2>2. Len(r) = n - 1
    BY <2>1
  <2>3. QED
    BY <2>2 DEF r, n
<1>7. QED
  BY <1>3, <1>5, <1>6

(* The sessions E are gone and the others hold what they held. *)
LEMMA SessionsLeft ==
    ASSUME IInv, NEW E \in SUBSET Ids, \A s \in E : sess[s] # NULL,
           \A s \in E : sess'[s] = NULL,
           \A s \in Ids \ E : /\ sess'[s] = NULL <=> sess[s] = NULL
                              /\ sess[s] # NULL => sess'[s].sms = sess[s].sms
    PROVE  \A m \in Sms : Cardinality(SessionsOf(m)')
                            = Cardinality(SessionsOf(m)) - UsesOf(E)[m]
<1> SUFFICES ASSUME NEW m \in Sms
             PROVE  Cardinality(SessionsOf(m)') = Cardinality(SessionsOf(m)) - UsesOf(E)[m]
  OBVIOUS
<1>1. SessionsOf(m)' = SessionsOf(m) \ E
  BY DEF SessionsOf
<1>2. QED
  BY <1>1, UsesCounted DEF IInv

(* A step that leaves what is held alone. *)
LEMMA NothingHeldChanges ==
    ASSUME IInv, loops' = loops,
           \A s \in Ids : /\ sess'[s] = NULL <=> sess[s] = NULL
                          /\ sess[s] # NULL => sess'[s].sms = sess[s].sms
    PROVE  Held' = Held
<1>1. \A m \in Sms : SessionsOf(m)' = SessionsOf(m)
  BY DEF SessionsOf
<1>2. \A m \in Sms : CallsOf(m)' = CallsOf(m)
  BY DEF CallsOf
<1>3. QED
  BY <1>1, <1>2 DEF Held, Holders

-----------------------------------------------------------------------------
(* Ends of streams, sessions and connections. *)

LEMMA EndStreamsKeeps ==
    ASSUME IInv, NEW s \in Ids, sess[s] # NULL, NEW T, NEW anyway \in BOOLEAN,
           EndStreams(s, T, anyway), UNCHANGED <<file, conn, open, loops>>
    PROVE  IInv'
<1> DEFINE D    == {<<s, t>> : t \in T \cap LiveTracks(s)}
           left == Deleted(sess[s].track, T)
           E    == IF anyway \/ NoTrackLeft(left) THEN {s} ELSE {}
<1>0. TypeOK /\ E \in SUBSET Ids /\ \A e \in E : sess[e] # NULL
  BY DEF IInv
<1>1. /\ sess' = [sess EXCEPT ![s] = IF E # {} THEN NULL ELSE [@ EXCEPT !.track = left]]
      /\ Release(UsesOf(E))
      /\ desc' = DescWithout(D) /\ reader' = ReaderWithout(D) /\ tcpdb' = Unnoted(D)
  BY Zenon DEF EndStreams
<1>2. sess \in [Ids -> SessObject \cup {NULL}] /\ sess[s] \in SessObject
  BY <1>0 DEF TypeOK
<1>3. /\ [sess[s] EXCEPT !.track = left] \in SessObject
      /\ [sess[s] EXCEPT !.track = left].sms = sess[s].sms
  <2>1. sess[s].track \in [Tracks -> TrackObject]
    BY <1>2 DEF SessObject
  <2>2. left \in [Tracks -> TrackObject]
    BY <2>1, DeletedTyped
  <2> HIDE DEF left
  <2>3. QED
    BY <1>2, <2>2 DEF SessObject
<1> HIDE DEF D, left
<1>4. sess' \in [Ids -> SessObject \cup {NULL}]
  BY <1>1, <1>2, <1>3
<1>5. \A m \in Sms : Cardinality(SessionsOf(m)') = Cardinality(SessionsOf(m)) - UsesOf(E)[m]
  <2>1. \A e \in E : sess'[e] = NULL
    BY <1>1, <1>2
  <2>2. \A x \in Ids \ E : /\ sess'[x] = NULL <=> sess[x] = NULL
                           /\ sess[x] # NULL => sess'[x].sms = sess[x].sms
    BY <1>1, <1>2, <1>3, NoNull
  <2> HIDE DEF E
  <2>3. QED
    BY <1>0, <2>1, <2>2, SessionsLeft
<1> HIDE DEF E
<1>6. /\ UsesOf(E) \in [Sms -> Nat]
      /\ \A m \in Sms : UsesOf(E)[m] <= Cardinality(SessionsOf(m))
  BY <1>0, UsesCounted
<1>7. \A m \in Sms : /\ Cardinality(SessionsOf(m)) \in Nat /\ Cardinality(CallsOf(m)) \in Nat
                     /\ UsesOf(E)[m] \in Nat
  BY <1>0, <1>6, Counts
<1>8. \A m \in Sms : UsesOf(E)[m] <= Holders(m)
  BY <1>6, <1>7 DEF Holders
<1>9. /\ table' \in [Names -> Sms \cup {NULL}] /\ sms' \in [Sms -> SmsObject \cup {NULL}]
      /\ TableSound(table', sms')
      /\ Counted(sms', [m \in Sms |-> Holders(m) - UsesOf(E)[m]])
  BY <1>1, <1>6, <1>8, ReleaseKeeps
<1>10. Held' = [m \in Sms |-> Holders(m) - UsesOf(E)[m]]
  <2>1. \A m \in Sms : CallsOf(m)' = CallsOf(m)
    BY DEF CallsOf
  <2>2. \A m \in Sms : Holders(m)' = Holders(m) - UsesOf(E)[m]
    BY <1>5, <1>7, <2>1 DEF Holders
  <2>3. QED
    BY <2>2 DEF Held
<1>11. TypeOK'
  BY <1>0, <1>1, <1>4, <1>9, DescriptorsTyped, UnnotedTyped DEF TypeOK
<1>12. LoopsLive'
  BY DEF IInv, LoopsLive
<1>13. QED
  BY <1>9, <1>10, <1>11, <1>12 DEF IInv

(* A connection goes; released are the references of a DESCRIBE that ends   *)
(* in the same step.                                                       *)
LEMMA DeleteConnKeeps ==
    ASSUME IInv, NEW c \in Conns, conn[c] # NULL, NEW released \in [Sms -> Nat],
           \A m \in Sms : released[m] <= Cardinality(CallsOf(m)),
           \A m \in Sms : Cardinality(CallsOf(m)') = Cardinality(CallsOf(m)) - released[m],
           DeleteConn(c, released), UNCHANGED <<file>>,
           loops' \in Seq([conn : Conns, sms : Sms]),
           \A i \in 1..Len(loops') : loops'[i].conn # c /\ conn[loops'[i].conn] # NULL
    PROVE  IInv'
<1> DEFINE k     == conn[c].out
           D     == tcpdb[k]
           ended == {s \in Ids : /\ sess[s] # NULL /\ \E x \in D : x[1] = s
                                 /\ \A t \in LiveTracks(s) : <<s, t>> \in D}
           mine  == {conn[c].in, k}
           uses  == [m \in Sms |-> UsesOf(ended)[m] + released[m]]
<1>0. /\ TypeOK /\ conn \in [Conns -> ConnObject \cup {NULL}] /\ k \in Socks
      /\ sess \in [Ids -> SessObject \cup {NULL}]
      /\ ended \in SUBSET Ids /\ \A e \in ended : sess[e] # NULL
  BY DEF IInv, TypeOK, ConnObject
<1>1. /\ sess' = [s \in Ids |->
                      IF s \in ended THEN NULL
                      ELSE IF sess[s] = NULL THEN NULL
                      ELSE [sess[s] EXCEPT !.track = Deleted(@, {t \in Tracks : <<s, t>> \in D})]]
      /\ Release(uses)
      /\ desc' = DescWithout(D)
      /\ reader' = [j \in Socks |-> IF j \in mine THEN NULL ELSE ReaderWithout(D)[j]]
      /\ tcpdb' = [tcpdb EXCEPT ![k] = {}]
      /\ open' = open \ mine
      /\ conn' = [conn EXCEPT ![c] = NULL]
  BY Zenon DEF DeleteConn
<1> HIDE DEF ended, mine, D
<1>2. \A s \in Ids : sess[s] # NULL =>
         LET t == [sess[s] EXCEPT !.track = Deleted(@, {t \in Tracks : <<s, t>> \in D})]
         IN  t \in SessObject /\ t.sms = sess[s].sms
  <2> SUFFICES ASSUME NEW s \in Ids, sess[s] # NULL
               PROVE  LET t == [sess[s] EXCEPT !.track = Deleted(@, {t \in Tracks : <<s, t>> \in D})]
                      IN  t \in SessObject /\ t.sms = sess[s].sms
    OBVIOUS
  <2> DEFINE left == Deleted(sess[s].track, {t \in Tracks : <<s, t>> \in D})
  <2>1. sess[s] \in SessObject /\ sess[s].track \in [Tracks -> TrackObject]
    BY <1>0 DEF SessObject
  <2>2. left \in [Tracks -> TrackObject]
    BY <2>1, DeletedTyped
  <2> HIDE DEF left
  <2>3. [sess[s] EXCEPT !.track = left] \in SessObject /\ [sess[s] EXCEPT !.track = left].sms = sess[s].sms
    BY <2>1, <2>2 DEF SessObject
  <2>4. QED
    BY <2>3 DEF left
<1>3. sess' \in [Ids -> SessObject \cup {NULL}]
  BY <1>1, <1>2
<1>4. \A m \in Sms : Cardinality(SessionsOf(m)') = Cardinality(SessionsOf(m)) - UsesOf(ended)[m]
  <2>1. \A e \in ended : sess'[e] = NULL
    BY <1>0, <1>1
  <2>2. \A x \in Ids \ ended : /\ sess'[x] = NULL <=> sess[x] = NULL
                               /\ sess[x] # NULL => sess'[x].sms = sess[x].sms
    BY <1>1, <1>2, NoNull
  <2>3. QED
    BY <1>0, <2>1, <2>2, SessionsLeft
<1>5. /\ UsesOf(ended) \in [Sms -> Nat]
      /\ \A m \in Sms : UsesOf(ended)[m] <= Cardinality(SessionsOf(m))
  BY <1>0, UsesCounted
<1>6. \A m \in Sms : /\ Cardinality(SessionsOf(m)) \in Nat /\ Cardinality(CallsOf(m)) \in Nat
                     /\ UsesOf(ended)[m] \in Nat /\ released[m] \in Nat
  BY <1>0, <1>5, Counts
<1>7. uses \in [Sms -> Nat] /\ \A m \in Sms : uses[m] <= Holders(m)
  BY <1>5, <1>6 DEF Holders
<1>8. /\ table' \in [Names -> Sms \cup {NULL}] /\ sms' \in [Sms -> SmsObject \cup {NULL}]
      /\ TableSound(table', sms')
      /\ Counted(sms', [m \in Sms |-> Holders(m) - uses[m]])
  <2> HIDE DEF uses
  <2>1. QED
    BY <1>1, <1>7, ReleaseKeeps
<1>9. Held' = [m \in Sms |-> Holders(m) - uses[m]]
  <2>1. \A m \in Sms : Holders(m)' = Holders(m) - uses[m]
    BY <1>4, <1>6 DEF Holders
  <2>2. QED
    BY <2>1 DEF Held
<1>10. TypeOK'
  <2>1. desc' \in [Socks -> DescObject \cup {NULL}]
    BY <1>0, <1>1, DescriptorsTyped
  <2>2. reader' \in [Socks -> Conns \cup {InDesc, NULL}]
    BY <1>0, <1>1, DescriptorsTyped
  <2>3. tcpdb' \in [Socks -> SUBSET Streams] /\ open' \subseteq Socks /\ file' \in [Names -> BOOLEAN]
        /\ conn' \in [Conns -> ConnObject \cup {NULL}]
    BY <1>0, <1>1 DEF TypeOK
  <2>4. QED
    BY <1>3, <1>8, <2>1, <2>2, <2>3 DEF TypeOK
<1>11. LoopsLive'
  <2> SUFFICES ASSUME NEW i \in 1..Len(loops')
               PROVE  conn'[loops'[i].conn] # NULL
    BY DEF LoopsLive
  <2>1. loops'[i].conn # c /\ conn[loops'[i].conn] # NULL
    OBVIOUS
  <2>2. loops'[i] \in [conn : Conns, sms : Sms]
    BY ElementOfSeq
  <2>3. QED
    BY <1>0, <1>1, <2>1, <2>2
<1>12. QED
  BY <1>8, <1>9, <1>10, <1>11 DEF IInv

-----------------------------------------------------------------------------
(* The steps. *)

LEMMA InitKeeps == Init => IInv
<1> SUFFICES ASSUME Init PROVE IInv
  OBVIOUS
<1>1. TypeOK
  <2>1. /\ file \in [Names -> BOOLEAN] /\ table \in [Names -> Sms \cup {NULL}]
        /\ sms \in [Sms -> SmsObject \cup {NULL}] /\ sess \in [Ids -> SessObject \cup {NULL}]
        /\ conn \in [Conns -> ConnObject \cup {NULL}] /\ desc \in [Socks -> DescObject \cup {NULL}]
    BY DEF Init
  <2>2. /\ open \subseteq Socks /\ tcpdb \in [Socks -> SUBSET Streams]
        /\ reader \in [Socks -> Conns \cup {InDesc, NULL}]
    BY DEF Init
  <2>3. loops \in Seq([conn : Conns, sms : Sms])
    BY DEF Init
  <2>4. QED
    BY <2>1, <2>2, <2>3 DEF TypeOK
<1>2. \A m \in Sms : Holders(m) = 0
  <2> SUFFICES ASSUME NEW m \in Sms PROVE Holders(m) = 0
    OBVIOUS
  <2>1. SessionsOf(m) = {}
    BY DEF Init, SessionsOf
  <2>2. CallsOf(m) = {}
    BY DEF Init, CallsOf
  <2>3. QED
    BY <2>1, <2>2, FS_EmptySet DEF Holders
<1>3. TableSound(table, sms) /\ Counted(sms, Held) /\ LoopsLive
  BY <1>2 DEF Init, TableSound, Counted, Held, LoopsLive
<1>4. QED
  BY <1>1, <1>3 DEF IInv

(* A step of the connections alone. *)
LEMMA ConnStepKeeps ==
    ASSUME IInv, UNCHANGED <<table, sms, sess, loops>>,
           file' \in [Names -> BOOLEAN],
           conn' \in [Conns -> ConnObject \cup {NULL}],
           \A c \in Conns : conn[c] # NULL => conn'[c] # NULL,
           open' \subseteq Socks, desc' \in [Socks -> DescObject \cup {NULL}],
           tcpdb' = tcpdb, reader' \in [Socks -> Conns \cup {InDesc, NULL}]
    PROVE  IInv'
<1>1. TypeOK'
  BY DEF IInv, TypeOK
<1>2. Held' = Held
  BY NothingHeldChanges
<1>3. LoopsLive'
  <2> SUFFICES ASSUME NEW i \in 1..Len(loops)
               PROVE  conn'[loops[i].conn] # NULL
    BY DEF LoopsLive
  <2>1. loops[i] \in [conn : Conns, sms : Sms]
    BY ElementOfSeq DEF IInv, TypeOK
  <2>2. conn[loops[i].conn] # NULL
    BY DEF IInv, LoopsLive
  <2>3. QED
    BY <2>1, <2>2
<1>4. QED
  BY <1>1, <1>2, <1>3 DEF IInv

LEMMA AcceptKeeps ==
    ASSUME IInv, NEW c \in Conns, NEW k \in Socks, Accept(c, k)
    PROVE  IInv'
<1>0. TypeOK
  BY DEF IInv
<1>1. NewConn(k) \in ConnObject
  BY DEF NewConn, ConnObject
<1>2. /\ conn' = [conn EXCEPT ![c] = NewConn(k)] /\ open' = open \cup {k}
      /\ reader' = [reader EXCEPT ![k] = c] /\ UNCHANGED <<file, table, sms, sess, desc, tcpdb, loops>>
  BY DEF Accept
<1>3. conn' \in [Conns -> ConnObject \cup {NULL}] /\ \A d \in Conns : conn[d] # NULL => conn'[d] # NULL
  BY <1>0, <1>1, <1>2, NoNull DEF TypeOK
<1>4. reader' \in [Socks -> Conns \cup {InDesc, NULL}] /\ open' \subseteq Socks
  BY <1>0, <1>2 DEF TypeOK
<1>5. QED
  BY <1>0, <1>2, <1>3, <1>4, ConnStepKeeps DEF TypeOK

LEMMA SendFailsKeeps ==
    ASSUME IInv, NEW k \in Socks, SendFails(k)
    PROVE  IInv'
<1>0. TypeOK
  BY DEF IInv
<1>1. /\ desc[k] # NULL /\ desc' = [desc EXCEPT ![k] = NULL]
      /\ UNCHANGED <<file, table, sms, sess, conn, open, tcpdb, loops>>
  BY DEF SendFails
<1>2. desc[k].handler \in Conns
  BY <1>0, <1>1 DEF TypeOK, DescObject
<1>3. reader' \in [Socks -> Conns \cup {InDesc, NULL}]
  BY <1>0, <1>2 DEF SendFails, TypeOK
<1>4. QED
  BY <1>0, <1>1, <1>3, ConnStepKeeps DEF TypeOK

LEMMA FileChangesKeeps ==
    ASSUME IInv, NEW n \in Names, FileChanges(n)
    PROVE  IInv'
BY ConnStepKeeps DEF IInv, TypeOK, FileChanges

LEMMA NoUsesTyped ==
    ASSUME TypeOK
    PROVE  NoUses \in [Sms -> Nat] /\ \A m \in Sms : NoUses[m] = 0 /\ NoUses[m] <= Cardinality(CallsOf(m))
BY Counts DEF NoUses

(* Whoever reads a socket, itself or behind a descriptor, is a connection. *)
LEMMA HandlerTyped ==
    ASSUME TypeOK, NEW k \in Socks, HandlerOf(k) # NULL
    PROVE  HandlerOf(k) \in Conns
<1>1. CASE reader[k] = InDesc
  <2>1. desc[k] # NULL /\ HandlerOf(k) = desc[k].handler
    BY <1>1 DEF HandlerOf
  <2>2. QED
    BY <2>1 DEF TypeOK, DescObject
<1>2. CASE reader[k] # InDesc
  BY <1>2 DEF HandlerOf, TypeOK
<1>3. QED
  BY <1>1, <1>2

LEMMA ReadErrorKeeps ==
    ASSUME IInv, NEW k \in Socks, ReadError(k)
    PROVE  IInv'
<1> DEFINE c == HandlerOf(k)
<1>0. TypeOK
  BY DEF IInv
<1>1. c \in Conns /\ conn[c] # NULL
  BY <1>0, HandlerTyped DEF ReadError
<1>2. CASE InLoop(c)
  <2>1. /\ conn' = [conn EXCEPT ![c].in = NULL, ![c].active = FALSE]
        /\ open' = open \ {conn[c].in}
        /\ desc' = [desc EXCEPT ![k] = NULL]
        /\ reader' = [reader EXCEPT ![k] = NULL]
        /\ UNCHANGED <<table, sms, sess, tcpdb, file, loops>>
    BY <1>2 DEF ReadError
  <2>2. conn[c] \in ConnObject
    BY <1>0, <1>1 DEF TypeOK
  <2>3. [[conn[c] EXCEPT !.in = NULL] EXCEPT !.active = FALSE] \in ConnObject
    BY <2>2 DEF ConnObject
  <2>4. conn' = [conn EXCEPT ![c] = [[conn[c] EXCEPT !.in = NULL] EXCEPT !.active = FALSE]]
    BY <1>0, <1>1, <2>1 DEF TypeOK
  <2> HIDE DEF c
  <2>5. conn' \in [Conns -> ConnObject \cup {NULL}] /\ \A d \in Conns : conn[d] # NULL => conn'[d] # NULL
    BY <1>0, <1>1, <2>3, <2>4, NoNull DEF TypeOK
  <2>6. QED
    BY <1>0, <2>1, <2>5, ConnStepKeeps DEF TypeOK
<1>3. CASE ~InLoop(c)
  <2>1. DeleteConn(c, NoUses) /\ UNCHANGED <<file, loops>>
    BY <1>3 DEF ReadError
  <2>2. /\ \A i \in 1..Len(loops') : loops'[i].conn # c /\ conn[loops'[i].conn] # NULL
        /\ loops' \in Seq([conn : Conns, sms : Sms])
    BY <1>0, <1>3, <2>1 DEF InLoop, IInv, LoopsLive, TypeOK
  <2>3. \A m \in Sms : Cardinality(CallsOf(m)') = Cardinality(CallsOf(m)) - NoUses[m]
    <3>1. \A m \in Sms : CallsOf(m)' = CallsOf(m) /\ Cardinality(CallsOf(m)) \in Nat
      BY <1>0, <2>1, Counts DEF CallsOf
    <3>2. QED
      BY <1>0, <3>1, NoUsesTyped
  <2> HIDE DEF c
  <2>4. QED
    BY <1>0, <1>1, <2>1, <2>2, <2>3, NoUsesTyped, DeleteConnKeeps
<1>4. QED
  BY <1>2, <1>3

(* One reference more. *)
LEMMA OneMoreCounted ==
    ASSUME NEW T \in [Names -> Sms \cup {NULL}], NEW S \in [Sms -> SmsObject \cup {NULL}],
           NEW held \in [Sms -> Nat], NEW f \in Sms, S[f] # NULL,
           TableSound(T, S), Counted(S, held)
    PROVE  LET S2 == [S EXCEPT ![f].refs = @ + 1]
           IN  /\ S2 \in [Sms -> SmsObject \cup {NULL}]
               /\ TableSound(T, S2) /\ Counted(S2, [held EXCEPT ![f] = @ + 1])
<1> DEFINE S2 == [S EXCEPT ![f].refs = @ + 1]
           o  == [S[f] EXCEPT !.refs = @ + 1]
<1>1. S[f] \in SmsObject
  OBVIOUS
<1>2. o \in SmsObject /\ o.name = S[f].name /\ o.refs = S[f].refs + 1
  BY <1>1 DEF SmsObject
<1>3. S2 = [S EXCEPT ![f] = o]
  OBVIOUS
<1>4. o # NULL
  BY <1>2, NoNull
<1> HIDE DEF S2, o
<1>5. S2 \in [Sms -> SmsObject \cup {NULL}]
  BY <1>2, <1>3
<1>6. TableSound(T, S2)
  BY <1>2, <1>3, <1>4 DEF TableSound
<1>7. Counted(S2, [held EXCEPT ![f] = @ + 1])
  <2> SUFFICES ASSUME NEW m \in Sms
               PROVE  /\ S2[m] = NULL => [held EXCEPT ![f] = @ + 1][m] = 0
                      /\ S2[m] # NULL => S2[m].refs = [held EXCEPT ![f] = @ + 1][m]
    BY DEF Counted
  <2>1. CASE m = f
    <3>1. S2[m] = o /\ [held EXCEPT ![f] = @ + 1][m] = held[f] + 1 /\ S[f].refs = held[f]
      BY <1>3, <2>1 DEF Counted
    <3>2. QED
      BY <1>2, <1>4, <3>1
  <2>2. CASE m # f
    BY <1>3, <2>2 DEF Counted
  <2>3. QED
    BY <2>1, <2>2
<1>8. QED
  BY <1>5, <1>6, <1>7 DEF S2

LEMMA HeldTyped ==
    ASSUME TypeOK
    PROVE  Held \in [Sms -> Nat]
BY Counts DEF Held

LEMMA DescribeKeeps ==
    ASSUME IInv, NEW k \in Socks, NEW n \in Names, Describe(k, n)
    PROVE  IInv'
<1>0. TypeOK /\ Held \in [Sms -> Nat]
  BY HeldTyped DEF IInv
<1>1. PICK c \in Conns, l \in Lookups(n, TRUE) :
         /\ conn[c] # NULL /\ table' = l.table
         /\ IF l.found = NULL THEN sms' = l.sms /\ UNCHANGED loops
            ELSE /\ sms' = [l.sms EXCEPT ![l.found].refs = @ + 1]
                 /\ loops' = Append(loops, [conn |-> c, sms |-> l.found])
         /\ UNCHANGED <<file, sess, conn, open, desc, tcpdb, reader>>
  BY DEF Describe, Reaches
<1>2. /\ l.table \in [Names -> Sms \cup {NULL}] /\ l.sms \in [Sms -> SmsObject \cup {NULL}]
      /\ l.found \in Sms \cup {NULL} /\ (l.found # NULL => l.sms[l.found] # NULL)
      /\ TableSound(l.table, l.sms) /\ Counted(l.sms, Held)
  BY LookupKeeps
<1>3. CASE l.found = NULL
  <2>1. Held' = Held
    BY <1>1, <1>3, NothingHeldChanges
  <2>2. TypeOK'
    BY <1>0, <1>1, <1>2, <1>3 DEF TypeOK
  <2>3. LoopsLive'
    BY <1>1, <1>3 DEF IInv, LoopsLive
  <2>4. QED
    BY <1>1, <1>2, <1>3, <2>1, <2>2, <2>3 DEF IInv
<1>4. CASE l.found # NULL
  <2> DEFINE call == [conn |-> c, sms |-> l.found]
  <2>0. l.found \in Sms /\ call \in [conn : Conns, sms : Sms] /\ loops \in Seq([conn : Conns, sms : Sms])
    BY <1>0, <1>2, <1>4 DEF TypeOK
  <2>1. /\ sms' = [l.sms EXCEPT ![l.found].refs = @ + 1] /\ loops' = Append(loops, call)
        /\ table' = l.table
    BY <1>1, <1>4
  <2>2. /\ sms' \in [Sms -> SmsObject \cup {NULL}] /\ TableSound(table', sms')
        /\ Counted(sms', [Held EXCEPT ![l.found] = @ + 1])
    BY <1>0, <1>2, <1>4, <2>0, <2>1, OneMoreCounted
  <2>3. /\ Len(loops') = Len(loops) + 1 /\ loops'[Len(loops) + 1] = call
        /\ \A i \in 1..Len(loops) : loops'[i] = loops[i]
        /\ Len(loops) \in Nat /\ loops' \in Seq([conn : Conns, sms : Sms])
    BY <2>0, <2>1
  <2>4. Held' = [Held EXCEPT ![l.found] = @ + 1]
    <3>1. \A m \in Sms : SessionsOf(m)' = SessionsOf(m)
      BY <1>1 DEF SessionsOf
    <3>2. \A m \in Sms : Holders(m)' = Holders(m) + (IF m = l.found THEN 1 ELSE 0)
      <4> SUFFICES ASSUME NEW m \in Sms
                   PROVE  Holders(m)' = Holders(m) + (IF m = l.found THEN 1 ELSE 0)
        OBVIOUS
      <4>0. IsFiniteSet(CallsOf(m)) /\ Cardinality(CallsOf(m)) \in Nat /\ Cardinality(SessionsOf(m)) \in Nat
        BY <1>0, Counts
      <4>1. CASE m = l.found
        <5>1. CallsOf(m)' = CallsOf(m) \cup {Len(loops) + 1}
          BY <2>3, <4>1 DEF CallsOf
        <5>2. Len(loops) + 1 \notin CallsOf(m)
          BY <2>3 DEF CallsOf
        <5>3. Cardinality(CallsOf(m)') = Cardinality(CallsOf(m)) + 1
          BY <4>0, <5>1, <5>2, FS_AddElement
        <5>4. QED
          BY <3>1, <4>0, <4>1, <5>3 DEF Holders
      <4>2. CASE m # l.found
        <5>1. CallsOf(m)' = CallsOf(m)
          BY <2>3, <4>2 DEF CallsOf
        <5>2. QED
          BY <3>1, <4>0, <4>2, <5>1 DEF Holders
      <4>3. QED
        BY <4>1, <4>2
    <3>3. QED
      BY <1>0, <2>0, <3>2 DEF Held
  <2>5. TypeOK'
    BY <1>0, <1>1, <1>2, <2>1, <2>2, <2>3 DEF TypeOK
  <2>6. LoopsLive'
    <3> SUFFICES ASSUME NEW i \in 1..Len(loops') PROVE conn'[loops'[i].conn] # NULL
      BY DEF LoopsLive
    <3>1. CASE i = Len(loops) + 1
      BY <1>1, <2>3, <3>1
    <3>2. CASE i \in 1..Len(loops)
      BY <1>1, <2>3, <3>2 DEF IInv, LoopsLive
    <3>3. QED
      BY <2>3, <3>1, <3>2
  <2>7. QED
    BY <2>2, <2>4, <2>5, <2>6 DEF IInv
<1>5. QED
  BY <1>3, <1>4

LEMMA DescribeEndKeeps ==
    ASSUME IInv, DescribeEnd
    PROVE  IInv'
<1> DEFINE top  == loops[Len(loops)]
           rest == SubSeq(loops, 1, Len(loops) - 1)
           uses == [NoUses EXCEPT ![top.sms] = 1]
<1>0. TypeOK /\ loops \in Seq([conn : Conns, sms : Sms])
  BY DEF IInv, TypeOK
<1>1. loops # <<>> /\ loops' = rest /\ UNCHANGED <<file>>
  BY DEF DescribeEnd
<1>2. Len(loops) \in Nat /\ Len(loops) # 0
  BY <1>0, <1>1
<1>3. top \in [conn : Conns, sms : Sms] /\ conn[top.conn] # NULL
  <2>1. Len(loops) \in 1..Len(loops)
    BY <1>2
  <2>2. conn[top.conn] # NULL
    BY <2>1 DEF IInv, LoopsLive
  <2>3. top \in [conn : Conns, sms : Sms]
    BY <1>0, <2>1, ElementOfSeq
  <2>4. QED
    BY <2>2, <2>3
<1>4. /\ rest \in Seq([conn : Conns, sms : Sms]) /\ Len(rest) = Len(loops) - 1
      /\ \A i \in 1..Len(rest) : rest[i] = loops[i]
  BY <1>0, <1>1, <1>2, WithoutLast
<1> HIDE DEF top, rest
<1>5. uses \in [Sms -> Nat] /\ uses[top.sms] = 1 /\ \A m \in Sms \ {top.sms} : uses[m] = 0
  BY <1>0, <1>3, NoUsesTyped
<1>6. \A m \in Sms : /\ Cardinality(CallsOf(m)) \in Nat /\ Cardinality(SessionsOf(m)) \in Nat
                     /\ uses[m] <= Cardinality(CallsOf(m))
                     /\ Cardinality(CallsOf(m)') = Cardinality(CallsOf(m)) - uses[m]
  <2> SUFFICES ASSUME NEW m \in Sms
               PROVE  /\ Cardinality(CallsOf(m)) \in Nat /\ Cardinality(SessionsOf(m)) \in Nat
                      /\ uses[m] <= Cardinality(CallsOf(m))
                      /\ Cardinality(CallsOf(m)') = Cardinality(CallsOf(m)) - uses[m]
    OBVIOUS
  <2>0. IsFiniteSet(CallsOf(m)) /\ Cardinality(CallsOf(m)) \in Nat /\ Cardinality(SessionsOf(m)) \in Nat
    BY <1>0, Counts
  <2>1. CallsOf(m)' = CallsOf(m) \ {Len(loops)}
    BY <1>1, <1>2, <1>4 DEF CallsOf
  <2>2. Len(loops) \in CallsOf(m) <=> m = top.sms
    BY <1>2 DEF CallsOf, top
  <2>3. Cardinality(CallsOf(m)') = IF m = top.sms THEN Cardinality(CallsOf(m)) - 1 ELSE Cardinality(CallsOf(m))
    BY <2>0, <2>1, <2>2, FS_RemoveElement
  <2>4. Cardinality(CallsOf(m)') \in Nat
    BY <2>0, <2>1, FS_RemoveElement, FS_CardinalityType
  <2>5. QED
    BY <1>5, <2>0, <2>3, <2>4
<1>7. CASE ~conn[top.conn].active /\ \A i \in 1..Len(rest) : rest[i].conn # top.conn
  <2>1. DeleteConn(top.conn, uses)
    BY <1>7 DEF DescribeEnd, top, rest
  <2>2. \A i \in 1..Len(loops') : loops'[i].conn # top.conn /\ conn[loops'[i].conn] # NULL
    BY <1>1, <1>2, <1>4, <1>7, SMTT(30) DEF IInv, LoopsLive
  <2> HIDE DEF uses
  <2>3. QED
    BY <1>1, <1>3, <1>4, <1>5, <1>6, <2>1, <2>2, DeleteConnKeeps
<1>8. CASE ~(~conn[top.conn].active /\ \A i \in 1..Len(rest) : rest[i].conn # top.conn)
  <2>1. Release(uses) /\ UNCHANGED <<sess, conn, open, desc, tcpdb, reader>>
    BY <1>8 DEF DescribeEnd, top, rest
  <2> HIDE DEF uses
  <2>2. \A m \in Sms : uses[m] <= Holders(m)
    BY <1>5, <1>6 DEF Holders
  <2>3. /\ table' \in [Names -> Sms \cup {NULL}] /\ sms' \in [Sms -> SmsObject \cup {NULL}]
        /\ TableSound(table', sms')
        /\ Counted(sms', [m \in Sms |-> Holders(m) - uses[m]])
    BY <1>5, <2>1, <2>2, ReleaseKeeps
  <2>4. \A m \in Sms : SessionsOf(m)' = SessionsOf(m)
    BY <2>1 DEF SessionsOf
  <2>5. \A m \in Sms : Holders(m)' = Holders(m) - uses[m]
    BY <1>5, <1>6, <2>4 DEF Holders
  <2>6. Held' = [m \in Sms |-> Holders(m) - uses[m]]
    BY <2>5 DEF Held
  <2>7. TypeOK'
    BY <1>0, <1>1, <1>4, <2>1, <2>3 DEF TypeOK
  <2>8. LoopsLive'
    BY <1>1, <1>2, <1>4, <2>1 DEF IInv, LoopsLive
  <2>9. QED
    BY <2>3, <2>6, <2>7, <2>8 DEF IInv
<1>9. QED
  BY <1>7, <1>8

LEMMA SetUpKeeps ==
    ASSUME IInv, NEW k \in Socks, NEW s \in Ids, NEW n \in Names, NEW t \in Tracks,
           NEW mode \in {"tcp", UDP}, SetUp(k, s, n, t, mode)
    PROVE  IInv'
<1> DEFINE isNew == sess[s] = NULL
           Old(c) == IF isNew THEN NewSession(c) ELSE sess[s]
<1>0. /\ TypeOK /\ Held \in [Sms -> Nat] /\ sess \in [Ids -> SessObject \cup {NULL}]
      /\ conn \in [Conns -> ConnObject \cup {NULL}] /\ reader \in [Socks -> Conns \cup {InDesc, NULL}]
      /\ tcpdb \in [Socks -> SUBSET Streams]
      /\ loops \in Seq([conn : Conns, sms : Sms])
  BY HeldTyped DEF IInv, TypeOK
<1>1a. PICK c \in Conns : SetUp(k, s, n, t, mode)!(c)
  BY DEF SetUp
<1>1. PICK l \in Lookups(n, isNew) :
         /\ conn[c] # NULL
         /\ isNew \/ (Old(c).sms # NULL)
         /\ table' = l.table
         /\ IF l.found = NULL \/ (~isNew /\ l.found # Old(c).sms)
            THEN /\ sms' = l.sms
                 /\ sess' = [sess EXCEPT ![s] = Old(c)]
                 /\ UNCHANGED <<desc, tcpdb, reader>>
            ELSE /\ sms' = IF isNew THEN [l.sms EXCEPT ![l.found].refs = @ + 1] ELSE l.sms
                 /\ IF ~isNew /\ ~Old(c).track[t].sub
                    THEN UNCHANGED <<sess, desc, tcpdb, reader>>
                    ELSE LET again == Old(c).track[t].st # "none"
                             D     == IF again THEN {<<s, t>>} ELSE {}
                             sock  == IF mode = "tcp" THEN conn[c].out ELSE Old(c).track[t].sock
                             T     == IF isNew THEN [x \in Tracks |-> NewTrack] ELSE Old(c).track
                         IN  /\ sess' = [sess EXCEPT ![s] =
                                   [Old(c) EXCEPT !.sms = l.found,
                                               !.track = [T EXCEPT ![t] =
                                                  [sub |-> TRUE, sock |-> sock, st |-> "ready",
                                                   dest |-> IF sock = NULL THEN UDP ELSE sock]]]]
                             /\ tcpdb' = [j \in Socks |->
                                   (tcpdb[j] \ (IF j = Old(c).track[t].sock THEN D ELSE {}))
                                     \cup (IF mode = "tcp" /\ j = sock THEN {<<s, t>>} ELSE {})]
                             /\ desc' = DescWithout(D)
                             /\ reader' = ReaderWithout(D)
         /\ UNCHANGED <<file, conn, open, loops>>
  BY <1>1a DEF Reaches
<1> DEFINE old == Old(c)
<1>2. /\ l.table \in [Names -> Sms \cup {NULL}] /\ l.sms \in [Sms -> SmsObject \cup {NULL}]
      /\ l.found \in Sms \cup {NULL} /\ (l.found # NULL => l.sms[l.found] # NULL)
      /\ TableSound(l.table, l.sms) /\ Counted(l.sms, Held)
  BY LookupKeeps
<1>3. old \in SessObject
  <2>1. CASE isNew
    <3>1. [NewTrack EXCEPT !.sub = FALSE] \in TrackObject
      BY DEF NewTrack, TrackObject
    <3>2. NewSession(c) \in SessObject
      BY <3>1 DEF NewSession, SessObject
    <3>3. QED
      BY <2>1, <3>2
  <2>2. CASE ~isNew
    BY <1>0, <2>2
  <2>3. QED
    BY <2>1, <2>2
<1>4. LoopsLive'
  BY <1>1 DEF IInv, LoopsLive
<1>5. \A m \in Sms : CallsOf(m)' = CallsOf(m)
  BY <1>1 DEF CallsOf
<1>6. CASE l.found = NULL \/ (~isNew /\ l.found # old.sms)
  <2>1. /\ sms' = l.sms /\ sess' = [sess EXCEPT ![s] = old]
        /\ UNCHANGED <<desc, tcpdb, reader>>
    BY <1>0, <1>1, <1>6
  <2>2. sess' \in [Ids -> SessObject \cup {NULL}]
    BY <1>0, <1>3, <2>1
  <2>3. Held' = Held
    <3>1. old.sms = NULL \/ (~isNew /\ old = sess[s])
      BY DEF NewSession
    <3>2. \A m \in Sms : SessionsOf(m)' = SessionsOf(m)
      <4> SUFFICES ASSUME NEW m \in Sms, NEW x \in Ids
                   PROVE  (sess'[x] # NULL /\ sess'[x].sms = m) <=> (sess[x] # NULL /\ sess[x].sms = m)
        BY DEF SessionsOf
      <4>1. CASE x # s
        BY <1>0, <2>1, <4>1
      <4>2. CASE x = s /\ ~isNew
        BY <1>0, <2>1, <3>1, <4>2
      <4>3. CASE x = s /\ isNew
        BY <1>0, <2>1, <3>1, <4>3, ServerAssumption
      <4>4. QED
        BY <4>1, <4>2, <4>3
    <3>3. QED
      BY <1>5, <3>2 DEF Held, Holders
  <2> HIDE DEF Old, isNew, old
  <2>4. TypeOK'
    BY <1>0, <1>1, <1>2, <2>1, <2>2 DEF TypeOK
  <2>5. QED
    BY <1>1, <1>2, <1>4, <2>1, <2>3, <2>4 DEF IInv
<1>7. CASE ~(l.found = NULL \/ (~isNew /\ l.found # old.sms))
  <2>0. l.found \in Sms /\ l.sms[l.found] # NULL /\ (isNew \/ l.found = old.sms)
    BY <1>2, <1>7
  <2>1. /\ sms' = IF isNew THEN [l.sms EXCEPT ![l.found].refs = @ + 1] ELSE l.sms
    BY <1>1, <1>7
  <2>2. CASE ~isNew /\ ~old.track[t].sub
    <3>1. UNCHANGED <<sess, desc, tcpdb, reader>> /\ sms' = l.sms
      BY <1>1, <1>7, <2>1, <2>2
    <3>2. Held' = Held
      BY <1>1, <3>1, NothingHeldChanges
    <3> HIDE DEF Old, isNew, old
    <3>3. TypeOK'
      BY <1>0, <1>1, <1>2, <2>1, <3>1 DEF TypeOK
    <3>4. QED
      BY <1>1, <1>2, <1>4, <3>1, <3>2, <3>3 DEF IInv
  <2>3. CASE ~(~isNew /\ ~old.track[t].sub)
    <3> DEFINE D    == IF old.track[t].st # "none" THEN {<<s, t>>} ELSE {}
               sock == IF mode = "tcp" THEN conn[c].out ELSE old.track[t].sock
               T    == IF isNew THEN [x \in Tracks |-> NewTrack] ELSE old.track
               tr   == [sub |-> TRUE, sock |-> sock, st |-> "ready",
                        dest |-> IF sock = NULL THEN UDP ELSE sock]
               new  == [old EXCEPT !.sms = l.found, !.track = [T EXCEPT ![t] = tr]]
    <3>1. /\ sess' = [sess EXCEPT ![s] = new]
          /\ tcpdb' = [j \in Socks |->
                         (tcpdb[j] \ (IF j = old.track[t].sock THEN D ELSE {}))
                            \cup (IF mode = "tcp" /\ j = sock THEN {<<s, t>>} ELSE {})]
          /\ desc' = DescWithout(D)
          /\ reader' = ReaderWithout(D)
      BY <1>1, <1>7, <2>3
    <3>2. tcpdb' \in [Socks -> SUBSET Streams]
      BY <1>0, <3>1 DEF Streams
    <3>3. tr \in TrackObject
      <4>1. sock \in Socks \cup {NULL}
        BY <1>0, <1>1, <1>3 DEF ConnObject, SessObject, TrackObject
      <4> HIDE DEF sock
      <4>2. QED
        BY <4>1 DEF TrackObject
    <3>4. T \in [Tracks -> TrackObject]
      <4>1. NewTrack \in TrackObject
        BY DEF NewTrack, TrackObject
      <4>2. QED
        BY <1>3, <4>1 DEF SessObject
    <3> HIDE DEF tr, T, D
    <3>5. new \in SessObject /\ new.sms = l.found
      <4>1. [T EXCEPT ![t] = tr] \in [Tracks -> TrackObject]
        BY <3>3, <3>4
      <4> DEFINE Z == [T EXCEPT ![t] = tr]
      <4> HIDE DEF Z, Old, old
      <4>2. [old EXCEPT !.sms = l.found, !.track = Z] \in SessObject
        BY <1>3, <2>0, <4>1 DEF SessObject, Z
      <4>3. [old EXCEPT !.sms = l.found, !.track = Z].sms = l.found
        BY <1>3, <2>0 DEF SessObject
      <4>4. QED
        BY <4>2, <4>3 DEF Z
    <3> HIDE DEF new
    <3>6. sess' \in [Ids -> SessObject \cup {NULL}] /\ sess'[s] = new
          /\ \A x \in Ids \ {s} : sess'[x] = sess[x]
      BY <1>0, <3>1, <3>5
    <3>7. desc' \in [Socks -> DescObject \cup {NULL}] /\ reader' \in [Socks -> Conns \cup {InDesc, NULL}]
      BY <1>0, <3>1, DescriptorsTyped
    <3>8. new # NULL
      BY <3>5, NoNull
    <3>9. CASE isNew
      <4>1. \A m \in Sms : Holders(m)' = Holders(m) + (IF m = l.found THEN 1 ELSE 0)
        <5> SUFFICES ASSUME NEW m \in Sms
                     PROVE  Holders(m)' = Holders(m) + (IF m = l.found THEN 1 ELSE 0)
          OBVIOUS
        <5>0. IsFiniteSet(SessionsOf(m)) /\ Cardinality(CallsOf(m)) \in Nat /\ Cardinality(SessionsOf(m)) \in Nat
          BY <1>0, Counts
        <5>1. s \notin SessionsOf(m)
          BY <3>9 DEF SessionsOf
        <5>2. CASE m = l.found
          <6>1. SessionsOf(m)' = SessionsOf(m) \cup {s}
            BY <3>5, <3>6, <3>8, <5>2 DEF SessionsOf
          <6>2. Cardinality(SessionsOf(m)') = Cardinality(SessionsOf(m)) + 1
            BY <5>0, <5>1, <6>1, FS_AddElement
          <6>3. QED
            BY <1>5, <5>0, <5>2, <6>2 DEF Holders
        <5>3. CASE m # l.found
          <6>1. SessionsOf(m)' = SessionsOf(m)
            BY <3>5, <3>6, <3>9, <5>3 DEF SessionsOf
          <6>2. QED
            BY <1>5, <5>0, <5>3, <6>1 DEF Holders
        <5>4. QED
          BY <5>2, <5>3
      <4>2. Held' = [Held EXCEPT ![l.found] = @ + 1]
        BY <1>0, <2>0, <4>1 DEF Held
      <4>3. sms' = [l.sms EXCEPT ![l.found].refs = @ + 1]
        BY <2>1, <3>9
      <4>4. /\ sms' \in [Sms -> SmsObject \cup {NULL}] /\ TableSound(l.table, sms')
            /\ Counted(sms', [Held EXCEPT ![l.found] = @ + 1])
        BY <1>0, <1>2, <2>0, <4>3, OneMoreCounted
      <4> HIDE DEF Old, isNew, old
      <4>5. TypeOK'
        BY <1>0, <1>1, <1>2, <2>1, <3>2, <3>6, <3>7, <4>4 DEF TypeOK
      <4>6. QED
        BY <1>1, <1>4, <4>2, <4>4, <4>5 DEF IInv
    <3>10. CASE ~isNew
      <4>1. sess[s].sms = l.found /\ sms' = l.sms
        BY <2>0, <2>1, <3>10
      <4>2. Held' = Held
        BY <1>1, <3>5, <3>6, <3>8, <3>10, <4>1, NothingHeldChanges
      <4> HIDE DEF Old, isNew, old
      <4>3. TypeOK'
        BY <1>0, <1>1, <1>2, <2>1, <3>2, <3>6, <3>7, <4>1 DEF TypeOK
      <4>4. QED
        BY <1>1, <1>2, <1>4, <4>1, <4>2, <4>3 DEF IInv
    <3>11. QED
      BY <3>9, <3>10
  <2>4. QED
    BY <2>2, <2>3
<1>8. QED
  BY <1>6, <1>7

(* A step within session s that changes the states of its tracks only. *)
LEMMA TrackStepKeeps ==
    ASSUME IInv, NEW s \in Ids, sess[s] # NULL, NEW f \in [Tracks -> TrackObject],
           sess' = [sess EXCEPT ![s].track = f],
           desc' \in [Socks -> DescObject \cup {NULL}],
           reader' \in [Socks -> Conns \cup {InDesc, NULL}],
           UNCHANGED <<file, table, sms, conn, open, tcpdb, loops>>
    PROVE  IInv'
<1>0. TypeOK /\ sess \in [Ids -> SessObject \cup {NULL}]
  BY DEF IInv, TypeOK
<1> DEFINE new == [sess[s] EXCEPT !.track = f]
<1>1. new \in SessObject /\ new.sms = sess[s].sms
  BY <1>0 DEF SessObject
<1>2. sess' = [sess EXCEPT ![s] = new]
  BY <1>0
<1> HIDE DEF new
<1>3. sess' \in [Ids -> SessObject \cup {NULL}]
  BY <1>0, <1>1, <1>2
<1>4. Held' = Held
  BY <1>0, <1>1, <1>2, NoNull, NothingHeldChanges
<1>5. TypeOK'
  BY <1>0, <1>3 DEF TypeOK
<1>6. LoopsLive'
  BY DEF IInv, LoopsLive
<1>7. QED
  BY <1>4, <1>5, <1>6 DEF IInv

(* A request within a session comes from a connection there is. *)
LEMMA PlayKeeps ==
    ASSUME IInv, NEW k \in Socks, NEW s \in Ids, NEW T, Play(k, s, T)
    PROVE  IInv'
<1>0. TypeOK /\ sess \in [Ids -> SessObject \cup {NULL}]
  BY DEF IInv, TypeOK
<1>1. PICK c \in Conns : Play(k, s, T)!(c)
  BY DEF Play
<1> DEFINE can   == {t \in T : sess[s].track[t].sub /\ sess[s].track[t].st \in {"ready", "paused", "playing"}}
           On(j) == {<<s, t>> : t \in {x \in can : sess[s].track[x].dest = j}}
           f     == [t \in Tracks |-> IF t \in can THEN [sess[s].track[t] EXCEPT !.st = "playing"]
                                      ELSE sess[s].track[t]]
<1>2. sess[s] # NULL /\ T \subseteq Tracks
  BY <1>1 DEF InSession
<1>3. f \in [Tracks -> TrackObject]
  BY <1>0, <1>2 DEF SessObject, TrackObject
<1>4. sess' = [sess EXCEPT ![s].track = f]
  BY <1>1
<1>5. desc' \in [Socks -> DescObject \cup {NULL}]
  <2>1. \A j \in Socks : On(j) \in SUBSET Streams
    BY <1>2 DEF Streams
  <2>2. desc' = [j \in Socks |->
                  IF On(j) = {} THEN desc[j]
                  ELSE [chan |-> On(j) \cup (IF desc[j] = NULL THEN {} ELSE desc[j].chan),
                        handler |-> c]]
    BY <1>1
  <2> HIDE DEF On
  <2>3. desc \in [Socks -> DescObject \cup {NULL}]
    BY <1>0 DEF TypeOK
  <2>4. \A j \in Socks : desc'[j] \in DescObject \cup {NULL}
    BY <2>1, <2>2, <2>3 DEF DescObject
  <2>5. QED
    BY <2>2, <2>4
<1>6. reader' \in [Socks -> Conns \cup {InDesc, NULL}]
  <2>1. reader' = [j \in Socks |-> IF On(j) # {} /\ desc[j] = NULL THEN InDesc ELSE reader[j]]
    BY <1>1
  <2> HIDE DEF On
  <2>2. QED
    BY <1>0, <2>1 DEF TypeOK
<1>7. UNCHANGED <<file, table, sms, conn, open, tcpdb, loops>>
  BY <1>1
<1> HIDE DEF f
<1>8. QED
  BY <1>2, <1>3, <1>4, <1>5, <1>6, <1>7, TrackStepKeeps

LEMMA PauseKeeps ==
    ASSUME IInv, NEW k \in Socks, NEW s \in Ids, NEW T, Pause(k, s, T)
    PROVE  IInv'
<1>0. TypeOK /\ sess \in [Ids -> SessObject \cup {NULL}]
  BY DEF IInv, TypeOK
<1> DEFINE f == [t \in Tracks |-> IF t \in T /\ sess[s].track[t].st = "playing"
                                  THEN [sess[s].track[t] EXCEPT !.st = "paused"]
                                  ELSE sess[s].track[t]]
<1>1. /\ sess[s] # NULL
      /\ sess' = [sess EXCEPT ![s].track = f]
      /\ UNCHANGED <<file, table, sms, conn, open, desc, tcpdb, reader, loops>>
  BY DEF Pause, InSession
<1>2. f \in [Tracks -> TrackObject]
  <2>1. sess[s].track \in [Tracks -> TrackObject]
    BY <1>0, <1>1 DEF SessObject
  <2>2. \A t \in Tracks : [sess[s].track[t] EXCEPT !.st = "paused"] \in TrackObject
    BY <2>1 DEF TrackObject
  <2>3. QED
    BY <2>1, <2>2
<1> HIDE DEF f
<1>3. QED
  BY <1>0, <1>1, <1>2, TrackStepKeeps DEF TypeOK

LEMMA StreamEndsKeeps ==
    ASSUME IInv, NEW s \in Ids, NEW t \in Tracks, StreamEnds(s, t)
    PROVE  IInv'
<1>0. TypeOK /\ sess \in [Ids -> SessObject \cup {NULL}]
  BY DEF IInv, TypeOK
<1> DEFINE f == [sess[s].track EXCEPT ![t].st = "ended"]
<1>1. /\ sess[s] # NULL
      /\ sess' = [sess EXCEPT ![s].track[t].st = "ended"]
      /\ desc' = DescWithout({<<s, t>>}) /\ reader' = ReaderWithout({<<s, t>>})
      /\ UNCHANGED <<file, table, sms, conn, open, tcpdb, loops>>
  BY DEF StreamEnds
<1>2. sess' = [sess EXCEPT ![s].track = f]
  BY <1>1
<1>3. f \in [Tracks -> TrackObject]
  BY <1>0, <1>1 DEF SessObject, TrackObject
<1>4. desc' \in [Socks -> DescObject \cup {NULL}] /\ reader' \in [Socks -> Conns \cup {InDesc, NULL}]
  BY <1>0, <1>1, DescriptorsTyped
<1> HIDE DEF f
<1>5. QED
  BY <1>1, <1>2, <1>3, <1>4, TrackStepKeeps

LEMMA TearDownKeeps ==
    ASSUME IInv, NEW k \in Socks, NEW s \in Ids, NEW T, TearDown(k, s, T)
    PROVE  IInv'
<1>1. /\ sess[s] # NULL /\ EndStreams(s, T, FALSE)
      /\ UNCHANGED <<file, conn, open, loops>>
  BY DEF TearDown, InSession
<1>2. QED
  BY <1>1, EndStreamsKeeps

LEMMA TimeoutKeeps ==
    ASSUME IInv, NEW s \in Ids, Timeout(s)
    PROVE  IInv'
<1>1. /\ sess[s] # NULL /\ EndStreams(s, Tracks, TRUE)
      /\ UNCHANGED <<file, conn, open, loops>>
  BY DEF Timeout
<1>2. QED
  BY <1>1, EndStreamsKeeps

LEMMA StutterKeeps ==
    ASSUME IInv, UNCHANGED vars
    PROVE  IInv'
<1>1. Held' = Held
  BY DEF vars, Held, Holders, SessionsOf, CallsOf
<1>2. QED
  BY <1>1 DEF vars, IInv, TypeOK, LoopsLive

LEMMA NextKeeps ==
    ASSUME IInv, [Next]_vars
    PROVE  IInv'
<1>1. CASE UNCHANGED vars
  BY <1>1, StutterKeeps
<1>2. CASE Request
  <2>1. ASSUME NEW k \in Socks, NEW n \in Names, Describe(k, n)
        PROVE  IInv'
    BY <2>1, DescribeKeeps
  <2>2. ASSUME NEW k \in Socks, NEW s \in Ids, NEW n \in Names, NEW t \in Tracks,
               NEW mode \in {"tcp", UDP}, SetUp(k, s, n, t, mode)
        PROVE  IInv'
    BY <2>2, SetUpKeeps
  <2>3. ASSUME NEW k \in Socks, NEW s \in Ids, NEW T, Play(k, s, T)
        PROVE  IInv'
    BY <2>3, PlayKeeps
  <2>4. ASSUME NEW k \in Socks, NEW s \in Ids, NEW T, Pause(k, s, T)
        PROVE  IInv'
    BY <2>4, PauseKeeps
  <2>5. ASSUME NEW k \in Socks, NEW s \in Ids, NEW T, TearDown(k, s, T)
        PROVE  IInv'
    BY <2>5, TearDownKeeps
  <2>6. QED
    BY <1>2, <2>1, <2>2, <2>3, <2>4, <2>5 DEF Request
<1>3. CASE DescribeEnd
  BY <1>3, DescribeEndKeeps
<1>4. ASSUME NEW c \in Conns, NEW k \in Socks, Accept(c, k)
      PROVE  IInv'
  BY <1>4, AcceptKeeps
<1>5. ASSUME NEW k \in Socks, ReadError(k) \/ SendFails(k)
      PROVE  IInv'
  BY <1>5, ReadErrorKeeps, SendFailsKeeps
<1>6. ASSUME NEW s \in Ids, Timeout(s) \/ \E t \in Tracks : StreamEnds(s, t)
      PROVE  IInv'
  BY <1>6, TimeoutKeeps, StreamEndsKeeps
<1>7. ASSUME NEW n \in Names, FileChanges(n)
      PROVE  IInv'
  BY <1>7, FileChangesKeeps
<1>8. QED
  BY <1>1, <1>2, <1>3, <1>4, <1>5, <1>6, <1>7 DEF Next

-----------------------------------------------------------------------------
(* Which sockets the streams run over, when no client closes a connection   *)
(* during its DESCRIBE or sets a track up again the other way.              *)

(* Every connection has an open socket of its own. *)
Wired ==
    /\ \A c \in Conns : conn[c] # NULL =>
          conn[c].active /\ conn[c].in = conn[c].out /\ conn[c].in \in open
    /\ \A c, d \in Conns : conn[c] # NULL /\ conn[d] # NULL /\ conn[c].in = conn[d].in => c = d

(* The Destinations of a stream are those of its socket number, and it has  *)
(* neither before its SETUP.                                               *)
Destined(x) ==
    IF ~x.sub THEN x.dest = NULL /\ x.st = "none"
    ELSE IF x.st = "none" THEN x.dest = NULL /\ x.sock = NULL
    ELSE x.dest = IF x.sock = NULL THEN UDP ELSE x.sock
Placed == \A s \in Ids, t \in Tracks : sess[s] # NULL => Destined(sess[s].track[t])

RunsOver(s, t, k) == sess[s] # NULL /\ sess[s].track[t].sub /\ sess[s].track[t].dest = k
Noted ==
    /\ \A s \in Ids, t \in Tracks, k \in Socks : <<s, t>> \in tcpdb[k] <=> RunsOver(s, t, k)
    /\ \A k \in Socks : tcpdb[k] # {} => k \in open

LinkInv == Wired /\ Placed /\ Noted /\ DescriptorsLive

(* A stream over a connection is one of the session made there, and a      *)
(* socket is read by its connection or by the descriptor that hands it the *)
(* bytes, when sessions are used from there only.                          *)
Homely ==
    \A s \in Ids, t \in Tracks, k \in Socks : RunsOver(s, t, k) =>
        LET c == sess[s].home IN conn[c] # NULL /\ conn[c].in = k
ReadRight ==
    /\ \A c \in Conns : conn[c] # NULL =>
          LET k == conn[c].in IN reader[k] = IF desc[k] = NULL THEN c ELSE InDesc
    /\ \A k \in Socks : desc[k] # NULL =>
          LET c == desc[k].handler IN conn[c] # NULL /\ conn[c].in = k
HearInv == LinkInv /\ Homely /\ ReadRight

(* What the moves left out are for. *)
Ordinary == Moves \subseteq {"elsewhere"}

LEMMA SocketNames ==
    /\ \A k \in Socks : k # UDP /\ k # NULL
    /\ UDP # NULL
BY ServerAssumption

LEMMA NoteNames ==
    ASSUME TypeOK, NEW k \in Socks, NEW x \in tcpdb[k]
    PROVE  /\ x[1] \in Ids /\ x[2] \in Tracks /\ x = <<x[1], x[2]>>
BY DEF TypeOK, Streams

(* Descriptors whose streams are let go of with their entries. *)
LEMMA DescsKept ==
    ASSUME DescriptorsLive, NEW D, desc' = DescWithout(D),
           \A k \in Socks : desc[k] # NULL /\ ~(desc[k].chan \subseteq D) =>
              k \in open' /\ tcpdb[k] \ D \subseteq tcpdb'[k],
           TypeOK, NEW j \in Socks, desc'[j] # NULL
    PROVE  /\ j \in open' /\ desc'[j].chan # {} /\ desc'[j].chan \subseteq tcpdb'[j]
           /\ desc[j] # NULL /\ desc'[j].handler = desc[j].handler
<1>1. desc[j] # NULL /\ ~(desc[j].chan \subseteq D) /\ desc'[j] = [desc[j] EXCEPT !.chan = @ \ D]
  BY DEF DescWithout
<1>2. desc[j] \in DescObject
  BY <1>1 DEF TypeOK
<1>3. desc'[j].chan = desc[j].chan \ D /\ desc'[j].handler = desc[j].handler
  BY <1>1, <1>2 DEF DescObject
<1>4. desc[j].chan \subseteq tcpdb[j]
  BY <1>1 DEF DescriptorsLive
<1>5. QED
  BY <1>1, <1>3, <1>4

(* A step that leaves the streams on their sockets. *)
LEMMA StreamsStay ==
    ASSUME LinkInv, UNCHANGED <<conn, open, tcpdb>>,
           \A s \in Ids : sess'[s] = NULL <=> sess[s] = NULL,
           \A s \in Ids, t \in Tracks : sess[s] # NULL =>
              LET x == sess[s].track[t]
                  y == sess'[s].track[t]
              IN  y.sub = x.sub /\ y.dest = x.dest /\ y.sock = x.sock /\ (y.st = "none" <=> x.st = "none")
    PROVE  /\ Wired' /\ Placed' /\ Noted'
           /\ \A s \in Ids, t \in Tracks, k \in Socks : RunsOver(s, t, k)' <=> RunsOver(s, t, k)
<1>1. Wired'
  BY DEF LinkInv, Wired
<1>2. Placed'
  <2> SUFFICES ASSUME NEW s \in Ids, NEW t \in Tracks, sess'[s] # NULL
               PROVE  Destined(sess'[s].track[t])
    BY DEF Placed, Destined
  <2>1. Destined(sess[s].track[t]) /\ sess[s] # NULL
    BY DEF LinkInv, Placed
  <2>2. QED
    BY <2>1 DEF Destined
<1>3. \A s \in Ids, t \in Tracks, k \in Socks : RunsOver(s, t, k)' <=> RunsOver(s, t, k)
  BY DEF RunsOver
<1>4. Noted'
  BY <1>3 DEF LinkInv, Noted
<1>5. QED
  BY <1>1, <1>2, <1>3, <1>4

LEMMA LinksStay ==
    ASSUME LinkInv, UNCHANGED <<sess, conn, open, desc, tcpdb>>
    PROVE  LinkInv'
<1>1. Wired' /\ Placed' /\ Noted'
  BY StreamsStay
<1>2. DescriptorsLive'
  BY DEF LinkInv, DescriptorsLive
<1>3. QED
  BY <1>1, <1>2 DEF LinkInv

LEMMA InitLinks == Init => LinkInv
<1> SUFFICES ASSUME Init PROVE LinkInv
  OBVIOUS
<1>1. Wired /\ Placed
  BY DEF Init, Wired, Placed
<1>2. Noted
  BY DEF Init, Noted, RunsOver
<1>3. DescriptorsLive
  BY DEF Init, DescriptorsLive
<1>4. QED
  BY <1>1, <1>2, <1>3 DEF LinkInv

LEMMA AcceptLinks ==
    ASSUME TypeOK, LinkInv, NEW c \in Conns, NEW k \in Socks, Accept(c, k)
    PROVE  LinkInv'
<1>1. /\ conn[c] = NULL /\ k \notin open
      /\ conn' = [conn EXCEPT ![c] = NewConn(k)] /\ open' = open \cup {k}
      /\ UNCHANGED <<sess, desc, tcpdb>>
  BY DEF Accept
<1>2. /\ conn'[c] = NewConn(k) /\ \A d \in Conns \ {c} : conn'[d] = conn[d]
  BY <1>1 DEF TypeOK
<1>3. NewConn(k).in = k /\ NewConn(k).out = k /\ NewConn(k).active
  BY DEF NewConn
<1>4. Wired'
  BY <1>1, <1>2, <1>3 DEF LinkInv, Wired
<1>5. Placed' /\ Noted'
  BY <1>1 DEF LinkInv, Placed, Noted, RunsOver
<1>6. DescriptorsLive'
  BY <1>1 DEF LinkInv, DescriptorsLive
<1>7. QED
  BY <1>4, <1>5, <1>6 DEF LinkInv

(* What becomes of the streams when those of D go, over the socket they are *)
(* noted on.                                                               *)
LEMMA SomeDeleted ==
    ASSUME TypeOK, TypeOK', Placed, NEW s \in Ids, NEW T \in SUBSET Tracks, sess[s] # NULL,
           sess'[s] = [sess[s] EXCEPT !.track = Deleted(@, T)]
    PROVE  /\ sess'[s] # NULL /\ sess'[s].home = sess[s].home
           /\ \A t \in Tracks : /\ Destined(sess'[s].track[t])
                                /\ t \in T => ~sess'[s].track[t].sub
                                /\ t \notin T => sess'[s].track[t] = sess[s].track[t]
<1>1. sess[s] \in SessObject
  BY DEF TypeOK
<1>2. sess'[s].track = Deleted(sess[s].track, T) /\ sess'[s].home = sess[s].home
  BY <1>1 DEF SessObject
<1>3. sess'[s] # NULL
  <2> DEFINE left == Deleted(sess[s].track, T)
  <2>1. left \in [Tracks -> TrackObject]
    BY <1>1, DeletedTyped DEF SessObject
  <2> HIDE DEF left
  <2>2. [sess[s] EXCEPT !.track = left] \in SessObject
    BY <1>1, <2>1 DEF SessObject
  <2>3. QED
    BY <2>2, NoNull DEF left
<1>4. ASSUME NEW t \in Tracks
      PROVE  /\ Destined(sess'[s].track[t])
             /\ t \in T => ~sess'[s].track[t].sub
             /\ t \notin T => sess'[s].track[t] = sess[s].track[t]
  <2>1. sess[s].track[t] \in TrackObject /\ Destined(sess[s].track[t])
    BY <1>1 DEF SessObject, Placed
  <2>2. sess'[s].track[t] = IF t \in T THEN [sess[s].track[t] EXCEPT !.sub = FALSE, !.dest = NULL, !.st = "none"]
                            ELSE sess[s].track[t]
    BY <1>2 DEF Deleted
  <2>3. CASE t \in T
    <3>1. /\ sess'[s].track[t].sub = FALSE /\ sess'[s].track[t].dest = NULL
          /\ sess'[s].track[t].st = "none"
      BY <2>1, <2>2, <2>3 DEF TrackObject
    <3>2. QED
      BY <2>3, <3>1 DEF Destined
  <2>4. CASE t \notin T
    BY <2>1, <2>2, <2>4
  <2>5. QED
    BY <2>3, <2>4
<1>5. QED
  BY <1>2, <1>3, <1>4

LEMMA DeleteConnLinks ==
    ASSUME TypeOK, TypeOK', LinkInv, NEW c \in Conns, conn[c] # NULL, NEW released, DeleteConn(c, released)
    PROVE  /\ LinkInv'
           /\ \A s \in Ids, t \in Tracks, j \in Socks :
                 RunsOver(s, t, j)' => j # conn[c].out /\ RunsOver(s, t, j) /\ sess'[s].home = sess[s].home
<1> DEFINE k     == conn[c].out
           D     == tcpdb[k]
           ended == {s \in Ids : /\ sess[s] # NULL /\ \E x \in D : x[1] = s
                                 /\ \A t \in LiveTracks(s) : <<s, t>> \in D}
           T(s)  == {t \in Tracks : <<s, t>> \in D}
<1>1. /\ sess' = [s \in Ids |->
                      IF s \in ended THEN NULL
                      ELSE IF sess[s] = NULL THEN NULL
                      ELSE [sess[s] EXCEPT !.track = Deleted(@, T(s))]]
      /\ desc' = DescWithout(D)
      /\ tcpdb' = [tcpdb EXCEPT ![k] = {}]
      /\ open' = open \ {conn[c].in, k}
      /\ conn' = [conn EXCEPT ![c] = NULL]
  BY DEF DeleteConn
<1>2. k \in Socks /\ conn[c].in = k /\ k \in open
  BY DEF TypeOK, ConnObject, LinkInv, Wired
<1>3. Wired'
  <2>1. conn'[c] = NULL /\ \A d \in Conns \ {c} : conn'[d] = conn[d]
    BY <1>1 DEF TypeOK
  <2>2. ASSUME NEW d \in Conns, conn'[d] # NULL
        PROVE  conn'[d].active /\ conn'[d].in = conn'[d].out /\ conn'[d].in \in open'
    <3>1. d # c /\ conn'[d] = conn[d]
      BY <2>1, <2>2
    <3>2. conn[d].in # k
      BY <1>2, <2>2, <3>1 DEF LinkInv, Wired
    <3>3. QED
      BY <1>1, <1>2, <2>2, <3>1, <3>2 DEF LinkInv, Wired
  <2>3. QED
    BY <2>1, <2>2 DEF LinkInv, Wired
<1>4. ASSUME NEW s \in Ids, sess'[s] # NULL
      PROVE  /\ s \notin ended /\ sess[s] # NULL /\ sess'[s].home = sess[s].home
             /\ \A t \in Tracks : /\ Destined(sess'[s].track[t])
                                  /\ t \in T(s) => ~sess'[s].track[t].sub
                                  /\ t \notin T(s) => sess'[s].track[t] = sess[s].track[t]
  <2>1. s \notin ended /\ sess[s] # NULL /\ sess'[s] = [sess[s] EXCEPT !.track = Deleted(@, T(s))]
    BY <1>1, <1>4
  <2>2. T(s) \in SUBSET Tracks
    OBVIOUS
  <2> HIDE DEF T, ended
  <2>3. QED
    BY <2>1, <2>2, SomeDeleted DEF LinkInv
<1>5. ASSUME NEW s \in Ids, sess[s] # NULL, s \notin ended
      PROVE  sess'[s] # NULL
  <2>1. sess'[s] = [sess[s] EXCEPT !.track = Deleted(@, T(s))]
    BY <1>1, <1>5
  <2>2. T(s) \in SUBSET Tracks
    OBVIOUS
  <2> HIDE DEF T, ended
  <2>3. QED
    BY <1>5, <2>1, <2>2, SomeDeleted DEF LinkInv
<1>6. Placed'
  BY <1>4 DEF Placed, Destined
<1>7. ASSUME NEW s \in Ids, NEW t \in Tracks, NEW j \in Socks
      PROVE  RunsOver(s, t, j)' <=> j # k /\ RunsOver(s, t, j)
  <2>1. ASSUME RunsOver(s, t, j)' PROVE j # k /\ RunsOver(s, t, j)
    <3>1. sess'[s] # NULL /\ sess'[s].track[t].sub /\ sess'[s].track[t].dest = j
      BY <2>1 DEF RunsOver
    <3>2. t \notin T(s) /\ sess'[s].track[t] = sess[s].track[t] /\ sess[s] # NULL
      BY <1>4, <3>1
    <3>3. RunsOver(s, t, j)
      BY <3>1, <3>2 DEF RunsOver
    <3>4. <<s, t>> \in tcpdb[j] /\ <<s, t>> \notin tcpdb[k]
      BY <3>2, <3>3 DEF LinkInv, Noted
    <3>5. QED
      BY <3>3, <3>4
  <2>2. ASSUME j # k, RunsOver(s, t, j) PROVE RunsOver(s, t, j)'
    <3>1. sess[s] # NULL /\ sess[s].track[t].sub /\ sess[s].track[t].dest = j
      BY <2>2 DEF RunsOver
    <3>2. <<s, t>> \notin D
      BY <1>2, <2>2, <3>1 DEF LinkInv, Noted, RunsOver
    <3>3. s \notin ended
      BY <3>1, <3>2 DEF LiveTracks
    <3>4. t \notin T(s)
      BY <3>2
    <3>5. sess'[s] # NULL /\ sess'[s].track[t] = sess[s].track[t]
      BY <1>4, <1>5, <3>1, <3>3, <3>4
    <3>6. QED
      BY <3>1, <3>5 DEF RunsOver
  <2>3. QED
    BY <2>1, <2>2
<1>8. tcpdb'[k] = {} /\ \A j \in Socks \ {k} : tcpdb'[j] = tcpdb[j]
  BY <1>1, <1>2 DEF TypeOK
<1>9. Noted'
  <2>1. \A s \in Ids, t \in Tracks, j \in Socks : <<s, t>> \in tcpdb'[j] <=> RunsOver(s, t, j)'
    BY <1>7, <1>8 DEF LinkInv, Noted
  <2>2. \A j \in Socks : tcpdb'[j] # {} => j \in open'
    BY <1>1, <1>2, <1>8 DEF LinkInv, Noted
  <2>3. QED
    BY <2>1, <2>2 DEF Noted
<1>10. DescriptorsLive'
  <2>1. ASSUME NEW j \in Socks, desc[j] # NULL, ~(desc[j].chan \subseteq D)
        PROVE  j \in open' /\ tcpdb[j] \ D \subseteq tcpdb'[j]
    <3>1. j # k /\ j \in open
      BY <2>1 DEF LinkInv, DescriptorsLive
    <3>2. QED
      BY <1>1, <1>2, <1>8, <3>1
  <2> HIDE DEF D
  <2>2. \A j \in Socks : desc'[j] # NULL => j \in open' /\ desc'[j].chan # {} /\ desc'[j].chan \subseteq tcpdb'[j]
    BY <1>1, <2>1, DescsKept DEF LinkInv
  <2>3. QED
    BY <2>2 DEF DescriptorsLive
<1>11. QED
  BY <1>3, <1>4, <1>6, <1>7, <1>9, <1>10 DEF LinkInv, RunsOver

LEMMA EndStreamsLinks ==
    ASSUME TypeOK, TypeOK', LinkInv, NEW s \in Ids, sess[s] # NULL, NEW T \in SUBSET Tracks,
           NEW anyway \in BOOLEAN, anyway => T = Tracks,
           EndStreams(s, T, anyway), UNCHANGED <<conn, open>>
    PROVE  /\ LinkInv'
           /\ \A x \in Ids, t \in Tracks, j \in Socks :
                 RunsOver(x, t, j)' => RunsOver(x, t, j) /\ sess'[x].home = sess[x].home
<1> DEFINE D    == {<<s, t>> : t \in T \cap LiveTracks(s)}
           left == Deleted(sess[s].track, T)
           E    == IF anyway \/ NoTrackLeft(left) THEN {s} ELSE {}
<1>1. /\ sess' = [sess EXCEPT ![s] = IF E # {} THEN NULL ELSE [@ EXCEPT !.track = left]]
      /\ desc' = DescWithout(D) /\ tcpdb' = Unnoted(D)
  BY Zenon DEF EndStreams
<1>2. \A x \in Ids \ {s} : sess'[x] = sess[x]
  BY <1>1 DEF TypeOK
<1>3. sess'[s] = IF E # {} THEN NULL ELSE [sess[s] EXCEPT !.track = left]
  BY <1>1 DEF TypeOK
<1>5. sess'[s] # NULL =>
        /\ E = {} /\ sess'[s].home = sess[s].home
        /\ \A t \in Tracks : /\ Destined(sess'[s].track[t])
                             /\ t \in T => ~sess'[s].track[t].sub
                             /\ t \notin T => sess'[s].track[t] = sess[s].track[t]
  <2> HAVE sess'[s] # NULL
  <2>1. E = {} /\ sess'[s] = [sess[s] EXCEPT !.track = Deleted(@, T)]
    BY <1>3
  <2> HIDE DEF E, left
  <2>2. QED
    BY <2>1, SomeDeleted DEF LinkInv
<1>6. E = {} => sess'[s] # NULL
  <2> HAVE E = {}
  <2>1. sess'[s] = [sess[s] EXCEPT !.track = Deleted(@, T)]
    BY <1>3
  <2> HIDE DEF E, left
  <2>2. QED
    BY <2>1, SomeDeleted DEF LinkInv
<1>7. \A t \in Tracks \ T : sess[s].track[t].sub => E = {}
  <2> SUFFICES ASSUME NEW t \in Tracks \ T, sess[s].track[t].sub PROVE E = {}
    OBVIOUS
  <2>1. left[t] = sess[s].track[t]
    BY DEF Deleted, TypeOK, SessObject
  <2>2. ~anyway
    OBVIOUS
  <2>3. ~NoTrackLeft(left)
    BY <2>1 DEF NoTrackLeft
  <2>4. QED
    BY <2>2, <2>3
<1> HIDE DEF E, left
<1>8. Wired'
  BY DEF LinkInv, Wired
<1>9. Placed'
  BY <1>2, <1>5 DEF LinkInv, Placed, Destined
<1>10. ASSUME NEW x \in Ids, NEW t \in Tracks, NEW j \in Socks
       PROVE  RunsOver(x, t, j)' <=> RunsOver(x, t, j) /\ ~(x = s /\ t \in T)
  <2>1. CASE x # s
    BY <1>2, <2>1 DEF RunsOver
  <2>2. CASE x = s /\ t \in T
    BY <1>5, <2>2 DEF RunsOver
  <2>3. CASE x = s /\ t \notin T
    BY <1>5, <1>6, <1>7, <2>3 DEF RunsOver
  <2>4. QED
    BY <2>1, <2>2, <2>3
<1>11. ASSUME NEW x \in Ids, NEW t \in Tracks, NEW j \in Socks
       PROVE  <<x, t>> \in tcpdb'[j] <=> <<x, t>> \in tcpdb[j] /\ ~(x = s /\ t \in T)
  <2>1. <<x, t>> \in tcpdb'[j] <=> <<x, t>> \in tcpdb[j] /\ ~(<<x, t>> \in D /\ sess[x].track[t].sock = j)
    BY <1>1 DEF Unnoted
  <2>2. <<x, t>> \in D <=> x = s /\ t \in T /\ t \in LiveTracks(s)
    OBVIOUS
  <2>3. ASSUME x = s, t \in T, <<x, t>> \in tcpdb[j] PROVE t \in LiveTracks(s) /\ sess[x].track[t].sock = j
    <3>1. RunsOver(s, t, j)
      BY <2>3 DEF LinkInv, Noted
    <3>2. Destined(sess[s].track[t])
      BY DEF LinkInv, Placed
    <3>3. QED
      BY <2>3, <3>1, <3>2, SocketNames DEF RunsOver, Destined, LiveTracks
  <2>4. QED
    BY <2>1, <2>2, <2>3
<1>12. Noted'
  <2>1. \A x \in Ids, t \in Tracks, j \in Socks : <<x, t>> \in tcpdb'[j] <=> RunsOver(x, t, j)'
    BY <1>10, <1>11 DEF LinkInv, Noted
  <2>2. ASSUME NEW j \in Socks, tcpdb'[j] # {} PROVE j \in open'
    <3>1. tcpdb'[j] \subseteq tcpdb[j]
      BY <1>1 DEF Unnoted
    <3>2. QED
      BY <2>2, <3>1 DEF LinkInv, Noted
  <2>3. QED
    BY <2>1, <2>2 DEF Noted
<1>13. DescriptorsLive'
  <2>1. \A j \in Socks : desc[j] # NULL /\ ~(desc[j].chan \subseteq D)
                            => j \in open' /\ tcpdb[j] \ D \subseteq tcpdb'[j]
    BY <1>1 DEF Unnoted, LinkInv, DescriptorsLive
  <2> HIDE DEF D
  <2>2. \A j \in Socks : desc'[j] # NULL => j \in open' /\ desc'[j].chan # {} /\ desc'[j].chan \subseteq tcpdb'[j]
    BY <1>1, <2>1, DescsKept DEF LinkInv
  <2>3. QED
    BY <2>2 DEF DescriptorsLive
<1>14. \A x \in Ids, t \in Tracks, j \in Socks :
          RunsOver(x, t, j)' => RunsOver(x, t, j) /\ sess'[x].home = sess[x].home
  BY <1>2, <1>5, <1>10 DEF RunsOver
<1>15. QED
  BY <1>8, <1>9, <1>12, <1>13, <1>14 DEF LinkInv

(* A step that changes the states of the tracks of one session. *)
LEMMA StatesChange ==
    ASSUME TypeOK, TypeOK', LinkInv, NEW s \in Ids, sess[s] # NULL, NEW f \in [Tracks -> TrackObject],
           sess' = [sess EXCEPT ![s].track = f], UNCHANGED <<conn, open, tcpdb>>,
           \A t \in Tracks : LET x == sess[s].track[t] IN
              /\ f[t].sub = x.sub /\ f[t].dest = x.dest /\ f[t].sock = x.sock
              /\ f[t].st = "none" <=> x.st = "none"
    PROVE  /\ Wired' /\ Placed' /\ Noted'
           /\ \A x \in Ids, t \in Tracks, k \in Socks :
                 RunsOver(x, t, k)' => RunsOver(x, t, k) /\ sess'[x].home = sess[x].home
<1>1. sess[s] \in SessObject
  BY DEF TypeOK
<1>2. /\ sess'[s] = [sess[s] EXCEPT !.track = f] /\ \A x \in Ids \ {s} : sess'[x] = sess[x]
  BY DEF TypeOK
<1>3. sess'[s].track = f /\ sess'[s].home = sess[s].home
  BY <1>1, <1>2 DEF SessObject
<1>4. sess'[s] # NULL
  <2>1. [sess[s] EXCEPT !.track = f] \in SessObject
    BY <1>1 DEF SessObject
  <2>2. QED
    BY <1>2, <2>1, NoNull
<1>5. \A x \in Ids : sess'[x] = NULL <=> sess[x] = NULL
  BY <1>2, <1>4
<1>6. \A x \in Ids, t \in Tracks : sess[x] # NULL =>
         LET p == sess[x].track[t]
             q == sess'[x].track[t]
         IN  q.sub = p.sub /\ q.dest = p.dest /\ q.sock = p.sock /\ (q.st = "none" <=> p.st = "none")
  BY <1>2, <1>3
<1>7. \A x \in Ids : sess[x] # NULL => sess'[x].home = sess[x].home
  BY <1>2, <1>3
<1>8. QED
  BY <1>5, <1>6, <1>7, StreamsStay DEF RunsOver

LEMMA StreamEndsLinks ==
    ASSUME TypeOK, TypeOK', LinkInv, NEW s \in Ids, NEW t \in Tracks, StreamEnds(s, t)
    PROVE  /\ LinkInv'
           /\ \A x \in Ids, u \in Tracks, k \in Socks :
                 RunsOver(x, u, k)' => RunsOver(x, u, k) /\ sess'[x].home = sess[x].home
<1> DEFINE f == [sess[s].track EXCEPT ![t].st = "ended"]
<1>1. /\ sess[s] # NULL /\ sess[s].track[t].st = "playing"
      /\ sess' = [sess EXCEPT ![s].track[t].st = "ended"]
      /\ desc' = DescWithout({<<s, t>>})
      /\ UNCHANGED <<conn, open, tcpdb>>
  BY DEF StreamEnds
<1>2. sess[s].track \in [Tracks -> TrackObject]
  BY <1>1 DEF TypeOK, SessObject
<1>3. sess' = [sess EXCEPT ![s].track = f]
  BY <1>1
<1>4. f \in [Tracks -> TrackObject]
  BY <1>2 DEF TrackObject
<1>5. \A u \in Tracks : LET x == sess[s].track[u] IN
         /\ f[u].sub = x.sub /\ f[u].dest = x.dest /\ f[u].sock = x.sock
         /\ f[u].st = "none" <=> x.st = "none"
  BY <1>1, <1>2 DEF TrackObject
<1> HIDE DEF f
<1>6. /\ Wired' /\ Placed' /\ Noted'
      /\ \A x \in Ids, u \in Tracks, k \in Socks :
            RunsOver(x, u, k)' => RunsOver(x, u, k) /\ sess'[x].home = sess[x].home
  BY <1>1, <1>3, <1>4, <1>5, StatesChange
<1>7. DescriptorsLive'
  <2>1. \A j \in Socks : desc[j] # NULL => j \in open' /\ tcpdb[j] \subseteq tcpdb'[j]
    BY <1>1 DEF LinkInv, DescriptorsLive
  <2>2. \A j \in Socks : desc'[j] # NULL => j \in open' /\ desc'[j].chan # {} /\ desc'[j].chan \subseteq tcpdb'[j]
    BY <1>1, <2>1, DescsKept DEF LinkInv
  <2>3. QED
    BY <2>2 DEF DescriptorsLive
<1>8. QED
  BY <1>6, <1>7 DEF LinkInv

LEMMA PauseLinks ==
    ASSUME TypeOK, TypeOK', LinkInv, NEW k \in Socks, NEW s \in Ids, NEW T, Pause(k, s, T)
    PROVE  /\ LinkInv'
           /\ \A x \in Ids, u \in Tracks, j \in Socks :
                 RunsOver(x, u, j)' => RunsOver(x, u, j) /\ sess'[x].home = sess[x].home
<1> DEFINE f == [t \in Tracks |-> IF t \in T /\ sess[s].track[t].st = "playing"
                                  THEN [sess[s].track[t] EXCEPT !.st = "paused"]
                                  ELSE sess[s].track[t]]
<1>1. /\ sess[s] # NULL /\ sess' = [sess EXCEPT ![s].track = f]
      /\ UNCHANGED <<conn, open, desc, tcpdb>>
  BY DEF Pause, InSession
<1>2. sess[s].track \in [Tracks -> TrackObject]
  BY <1>1 DEF TypeOK, SessObject
<1>3. \A t \in Tracks : LET x == [sess[s].track[t] EXCEPT !.st = "paused"] IN
         /\ x \in TrackObject
         /\ x.sub = sess[s].track[t].sub /\ x.dest = sess[s].track[t].dest
         /\ x.sock = sess[s].track[t].sock /\ x.st = "paused"
  BY <1>2 DEF TrackObject
<1>4. f \in [Tracks -> TrackObject]
  BY <1>2, <1>3
<1>5. \A t \in Tracks : LET x == sess[s].track[t] IN
         /\ f[t].sub = x.sub /\ f[t].dest = x.dest /\ f[t].sock = x.sock
         /\ f[t].st = "none" <=> x.st = "none"
  BY <1>3
<1> HIDE DEF f
<1>6. /\ Wired' /\ Placed' /\ Noted'
      /\ \A x \in Ids, u \in Tracks, j \in Socks :
            RunsOver(x, u, j)' => RunsOver(x, u, j) /\ sess'[x].home = sess[x].home
  BY <1>1, <1>4, <1>5, StatesChange
<1>7. DescriptorsLive'
  BY <1>1 DEF LinkInv, DescriptorsLive
<1>8. QED
  BY <1>6, <1>7 DEF LinkInv

(* The streams that begin are noted on the sockets whose descriptors they   *)
(* register with.                                                          *)
LEMMA PlayLinks ==
    ASSUME TypeOK, TypeOK', LinkInv, NEW k \in Socks, NEW s \in Ids, NEW T, Play(k, s, T)
    PROVE  /\ LinkInv'
           /\ \A x \in Ids, u \in Tracks, j \in Socks :
                 RunsOver(x, u, j)' => RunsOver(x, u, j) /\ sess'[x].home = sess[x].home
           /\ UNCHANGED conn
           /\ \E c \in Conns :
                 /\ sess[s].home = c \/ "elsewhere" \in Moves
                 /\ \A j \in Socks :
                       \/ desc'[j] = desc[j] /\ reader'[j] = reader[j]
                       \/ /\ desc'[j] # NULL /\ desc'[j].handler = c
                          /\ reader'[j] = IF desc[j] = NULL THEN InDesc ELSE reader[j]
                          /\ \E t \in Tracks : RunsOver(s, t, j)
<1>0. PICK c \in Conns : Play(k, s, T)!(c)
  BY DEF Play
<1> DEFINE can   == {t \in T : sess[s].track[t].sub /\ sess[s].track[t].st \in {"ready", "paused", "playing"}}
           On(j) == {<<s, t>> : t \in {x \in can : sess[s].track[x].dest = j}}
           f     == [t \in Tracks |-> IF t \in can THEN [sess[s].track[t] EXCEPT !.st = "playing"]
                                      ELSE sess[s].track[t]]
<1>1. /\ sess[s] # NULL /\ T \subseteq Tracks /\ sess' = [sess EXCEPT ![s].track = f]
      /\ desc' = [j \in Socks |->
                  IF On(j) = {} THEN desc[j]
                  ELSE [chan |-> On(j) \cup (IF desc[j] = NULL THEN {} ELSE desc[j].chan),
                        handler |-> c]]
      /\ reader' = [j \in Socks |-> IF On(j) # {} /\ desc[j] = NULL THEN InDesc ELSE reader[j]]
      /\ UNCHANGED <<conn, open, tcpdb>>
      /\ sess[s].home = c \/ "elsewhere" \in Moves
  BY <1>0 DEF InSession
<1>2. sess[s].track \in [Tracks -> TrackObject]
  BY <1>1 DEF TypeOK, SessObject
<1>3. \A t \in Tracks : LET x == [sess[s].track[t] EXCEPT !.st = "playing"] IN
         /\ x \in TrackObject
         /\ x.sub = sess[s].track[t].sub /\ x.dest = sess[s].track[t].dest
         /\ x.sock = sess[s].track[t].sock /\ x.st = "playing"
  BY <1>2 DEF TrackObject
<1>4. f \in [Tracks -> TrackObject]
  BY <1>2, <1>3
<1>5. \A t \in Tracks : LET x == sess[s].track[t] IN
         /\ f[t].sub = x.sub /\ f[t].dest = x.dest /\ f[t].sock = x.sock
         /\ f[t].st = "none" <=> x.st = "none"
  BY <1>3
<1> HIDE DEF f
<1>6. /\ Wired' /\ Placed' /\ Noted'
      /\ \A x \in Ids, u \in Tracks, j \in Socks :
            RunsOver(x, u, j)' => RunsOver(x, u, j) /\ sess'[x].home = sess[x].home
  BY <1>1, <1>4, <1>5, StatesChange
<1>7. ASSUME NEW j \in Socks, NEW x \in On(j)
      PROVE  x \in tcpdb[j] /\ \E t \in Tracks : RunsOver(s, t, j)
  <2>1. PICK t \in Tracks : x = <<s, t>> /\ sess[s].track[t].sub /\ sess[s].track[t].dest = j
    BY <1>1, <1>7
  <2>2. RunsOver(s, t, j)
    BY <1>1, <2>1 DEF RunsOver
  <2>3. QED
    BY <2>1, <2>2 DEF LinkInv, Noted
<1> HIDE DEF On
<1>8. ASSUME NEW j \in Socks, On(j) # {}
      PROVE  /\ desc'[j].chan = On(j) \cup (IF desc[j] = NULL THEN {} ELSE desc[j].chan)
             /\ desc'[j].handler = c /\ desc'[j] # NULL /\ j \in open'
  <2>1. desc'[j] = [chan |-> On(j) \cup (IF desc[j] = NULL THEN {} ELSE desc[j].chan), handler |-> c]
    BY <1>1, <1>8
  <2>2. tcpdb[j] # {}
    BY <1>7, <1>8
  <2>3. desc'[j] \in DescObject
    <3>1. On(j) \subseteq Streams
      BY <1>7, <1>8 DEF TypeOK
    <3>2. desc[j] # NULL => desc[j].chan \subseteq Streams
      BY DEF TypeOK, DescObject
    <3>3. QED
      BY <2>1, <3>1, <3>2 DEF DescObject
  <2>4. desc'[j] # NULL
    BY <2>3, NoNull
  <2>5. j \in open'
    BY <1>1, <2>2 DEF LinkInv, Noted
  <2>6. QED
    BY <2>1, <2>4, <2>5
<1>9. DescriptorsLive'
  <2> SUFFICES ASSUME NEW j \in Socks, desc'[j] # NULL
               PROVE  j \in open' /\ desc'[j].chan # {} /\ desc'[j].chan \subseteq tcpdb'[j]
    BY DEF DescriptorsLive
  <2>1. CASE On(j) = {}
    BY <1>1, <2>1 DEF LinkInv, DescriptorsLive
  <2>2. CASE On(j) # {}
    <3>1. On(j) \subseteq tcpdb[j]
      BY <1>7
    <3>2. desc[j] # NULL => desc[j].chan \subseteq tcpdb[j]
      BY DEF LinkInv, DescriptorsLive
    <3>3. QED
      BY <1>1, <1>8, <2>2, <3>1, <3>2
  <2>3. QED
    BY <2>1, <2>2
<1>10. ASSUME NEW j \in Socks
       PROVE  \/ desc'[j] = desc[j] /\ reader'[j] = reader[j]
              \/ /\ desc'[j] # NULL /\ desc'[j].handler = c
                 /\ reader'[j] = IF desc[j] = NULL THEN InDesc ELSE reader[j]
                 /\ \E t \in Tracks : RunsOver(s, t, j)
  BY <1>1, <1>7, <1>8
<1>11. QED
  BY <1>1, <1>6, <1>9, <1>10 DEF LinkInv

LEMMA SendFailsLinks ==
    ASSUME TypeOK, LinkInv, NEW k \in Socks, SendFails(k)
    PROVE  LinkInv'
<1>1. desc' = [desc EXCEPT ![k] = NULL] /\ UNCHANGED <<sess, conn, open, tcpdb>>
  BY DEF SendFails
<1>2. Wired' /\ Placed' /\ Noted'
  BY <1>1, StreamsStay
<1>3. DescriptorsLive'
  BY <1>1 DEF TypeOK, LinkInv, DescriptorsLive
<1>4. QED
  BY <1>2, <1>3 DEF LinkInv

LEMMA ReadErrorLinks ==
    ASSUME TypeOK, TypeOK', LinkInv, Ordinary, NEW k \in Socks, ReadError(k)
    PROVE  /\ HandlerOf(k) \in Conns /\ conn[HandlerOf(k)] # NULL
           /\ DeleteConn(HandlerOf(k), NoUses)
<1>1. HandlerOf(k) \in Conns /\ conn[HandlerOf(k)] # NULL
  BY HandlerTyped DEF ReadError
<1>2. "dropInLoop" \notin Moves
  BY DEF Ordinary
<1>3. QED
  BY <1>1, <1>2 DEF ReadError

LEMMA DescribeLinks ==
    ASSUME LinkInv, NEW k \in Socks, NEW n \in Names, Describe(k, n)
    PROVE  LinkInv' /\ UNCHANGED <<sess, conn, open, desc, tcpdb, reader>>
<1>1. UNCHANGED <<sess, conn, open, desc, tcpdb, reader>>
  BY DEF Describe
<1>2. QED
  BY <1>1, LinksStay

LEMMA DescribeEndLinks ==
    ASSUME IInv, LinkInv, DescribeEnd
    PROVE  LinkInv' /\ UNCHANGED <<sess, conn, open, desc, tcpdb, reader>>
<1>1. loops # <<>> /\ loops \in Seq([conn : Conns, sms : Sms])
  BY DEF DescribeEnd, IInv, TypeOK
<1> DEFINE top == loops[Len(loops)]
<1>2. Len(loops) \in 1..Len(loops)
  BY <1>1
<1>3. top.conn \in Conns /\ conn[top.conn] # NULL
  <2>1. top \in [conn : Conns, sms : Sms]
    BY <1>1, <1>2, ElementOfSeq
  <2>2. top.conn \in Conns
    BY <2>1
  <2>3. conn[top.conn] # NULL
    BY <1>2 DEF IInv, LoopsLive
  <2>4. QED
    BY <2>2, <2>3
<1>4. conn[top.conn].active
  BY <1>3 DEF LinkInv, Wired
<1>5. UNCHANGED <<sess, conn, open, desc, tcpdb, reader>>
  BY <1>4 DEF DescribeEnd
<1>6. QED
  BY <1>5, LinksStay

(* The effect of SETUP on the streams: none, a session that has no stream,  *)
(* or one track of one session on the socket of the request, if over TCP,  *)
(* and its old one let go of.                                              *)
LEMMA SetUpLinks ==
    ASSUME IInv, TypeOK', LinkInv, Ordinary, NEW k \in Socks, NEW s \in Ids, NEW n \in Names,
           NEW t \in Tracks, NEW mode \in {"tcp", UDP}, SetUp(k, s, n, t, mode)
    PROVE  /\ LinkInv'
           /\ UNCHANGED conn
           /\ \E D \in SUBSET Streams : \/ UNCHANGED <<desc, reader>>
                                        \/ desc' = DescWithout(D) /\ reader' = ReaderWithout(D)
           /\ \A x \in Ids, u \in Tracks, j \in Socks : RunsOver(x, u, j)' =>
                 \/ RunsOver(x, u, j) /\ sess'[x].home = sess[x].home
                 \/ \E c \in Conns : /\ conn[c] # NULL /\ j = conn[c].out
                                     /\ sess'[x].home = c \/ "elsewhere" \in Moves
<1>0. /\ sess \in [Ids -> SessObject \cup {NULL}] /\ conn \in [Conns -> ConnObject \cup {NULL}]
      /\ tcpdb \in [Socks -> SUBSET Streams] /\ TypeOK
  BY DEF IInv, TypeOK
<1>1. PICK c \in Conns : SetUp(k, s, n, t, mode)!(c)
  BY DEF SetUp
<1> DEFINE isNew == sess[s] = NULL
           old   == IF isNew THEN NewSession(c) ELSE sess[s]
           had   == old.track[t]
           again == had.st # "none"
           D     == IF again THEN {<<s, t>>} ELSE {}
           sock  == IF mode = "tcp" THEN conn[c].out ELSE had.sock
           T     == IF isNew THEN [x \in Tracks |-> NewTrack] ELSE old.track
           tr    == [sub |-> TRUE, sock |-> sock, st |-> "ready",
                     dest |-> IF sock = NULL THEN UDP ELSE sock]
           F     == [T EXCEPT ![t] = tr]
<1>2. /\ conn[c] # NULL /\ UNCHANGED <<conn, open>>
      /\ isNew \/ (old.sms # NULL /\ (old.home = c \/ "elsewhere" \in Moves))
  BY <1>1 DEF Reaches
<1>3. PICK l \in Lookups(n, isNew) :
        \/ UNCHANGED <<sess, desc, tcpdb, reader>>
        \/ isNew /\ sess' = [sess EXCEPT ![s] = NewSession(c)] /\ UNCHANGED <<desc, tcpdb, reader>>
        \/ /\ l.found # NULL
           /\ isNew \/ had.sub
           /\ (again /\ "switch" \notin Moves) => ((mode = "tcp") <=> (had.sock # NULL))
           /\ sess' = [sess EXCEPT ![s] = [old EXCEPT !.sms = l.found, !.track = F]]
           /\ tcpdb' = [j \in Socks |-> (tcpdb[j] \ (IF j = had.sock THEN D ELSE {}))
                                          \cup (IF mode = "tcp" /\ j = sock THEN {<<s, t>>} ELSE {})]
           /\ desc' = DescWithout(D)
           /\ reader' = ReaderWithout(D)
  <2>1. [sess EXCEPT ![s] = sess[s]] = sess
    BY <1>0
  <2>2. QED
    BY <1>1, <2>1
<1>4. conn[c].out \in Socks /\ conn[c].out \in open
  BY <1>0, <1>2 DEF ConnObject, LinkInv, Wired
<1>5. Wired'
  BY <1>2 DEF LinkInv, Wired
<1>6. CASE UNCHANGED <<sess, desc, tcpdb, reader>>
  <2>1. LinkInv'
    BY <1>2, <1>6, LinksStay
  <2>2. QED
    BY <1>2, <1>6, <2>1 DEF RunsOver
<1>7. CASE isNew /\ sess' = [sess EXCEPT ![s] = NewSession(c)] /\ UNCHANGED <<desc, tcpdb, reader>>
  <2>1. \A u \in Tracks : LET x == NewSession(c).track[u] IN ~x.sub /\ x.dest = NULL /\ x.st = "none"
    BY DEF NewSession, NewTrack
  <2>2. sess'[s] = NewSession(c) /\ \A x \in Ids \ {s} : sess'[x] = sess[x]
    BY <1>0, <1>7
  <2>3. Placed'
    BY <2>1, <2>2 DEF LinkInv, Placed, Destined
  <2>4. ASSUME NEW x \in Ids, NEW u \in Tracks, NEW j \in Socks
        PROVE  (RunsOver(x, u, j)' <=> RunsOver(x, u, j)) /\ (x # s \/ ~RunsOver(x, u, j)')
    BY <1>7, <2>1, <2>2 DEF RunsOver
  <2>5. Noted'
    BY <1>2, <1>7, <2>4 DEF LinkInv, Noted
  <2>6. DescriptorsLive'
    BY <1>2, <1>7 DEF LinkInv, DescriptorsLive
  <2>7. \A x \in Ids, u \in Tracks, j \in Socks :
           RunsOver(x, u, j)' => RunsOver(x, u, j) /\ sess'[x].home = sess[x].home
    BY <2>2, <2>4
  <2>8. QED
    BY <1>2, <1>5, <1>7, <2>3, <2>5, <2>6, <2>7 DEF LinkInv
<1>8. CASE /\ l.found # NULL
           /\ isNew \/ had.sub
           /\ (again /\ "switch" \notin Moves) => ((mode = "tcp") <=> (had.sock # NULL))
           /\ sess' = [sess EXCEPT ![s] = [old EXCEPT !.sms = l.found, !.track = F]]
           /\ tcpdb' = [j \in Socks |-> (tcpdb[j] \ (IF j = had.sock THEN D ELSE {}))
                                          \cup (IF mode = "tcp" /\ j = sock THEN {<<s, t>>} ELSE {})]
           /\ desc' = DescWithout(D)
           /\ reader' = ReaderWithout(D)
  <2>1. /\ isNew => old = NewSession(c) /\ had.st = "none" /\ had.sock = NULL /\ ~had.sub /\ old.home = c
        /\ ~isNew => old = sess[s] /\ old \in SessObject /\ Destined(had)
        /\ had.sock \in Socks \cup {NULL}
    <3>1. isNew => old = NewSession(c) /\ had.st = "none" /\ had.sock = NULL /\ ~had.sub /\ old.home = c
      BY DEF NewSession, NewTrack
    <3>2. ~isNew => old = sess[s] /\ old \in SessObject /\ Destined(had)
      BY <1>0 DEF LinkInv, Placed
    <3>3. QED
      BY <3>1, <3>2 DEF SessObject, TrackObject
  <2>2. /\ sess'[s] # NULL /\ sess'[s].home = old.home /\ sess'[s].track[t] = tr
        /\ \A u \in Tracks \ {t} : sess'[s].track[u] = IF isNew THEN NewTrack ELSE sess[s].track[u]
        /\ \A x \in Ids \ {s} : sess'[x] = sess[x]
    <3> DEFINE new == [old EXCEPT !.sms = l.found, !.track = F]
    <3>1. T \in [Tracks -> TrackObject] /\ T = IF isNew THEN [x \in Tracks |-> NewTrack] ELSE sess[s].track
      BY <2>1 DEF SessObject, NewTrack, TrackObject
    <3>2. tr \in TrackObject
      <4>1. sock \in Socks \cup {NULL}
        BY <1>4, <2>1
      <4> HIDE DEF sock
      <4>2. QED
        BY <4>1 DEF TrackObject
    <3>3. /\ F \in [Tracks -> TrackObject] /\ F[t] = tr
          /\ \A u \in Tracks \ {t} : F[u] = IF isNew THEN NewTrack ELSE sess[s].track[u]
      BY <3>1, <3>2
    <3>4. old \in SessObject
      <4>1. NewSession(c) \in SessObject
        BY DEF NewSession, NewTrack, SessObject, TrackObject
      <4>2. QED
        BY <2>1, <4>1
    <3>5. l.found \in Sms
      BY <1>8, LookupKeeps
    <3> HIDE DEF F, old, tr
    <3>6. new = [[old EXCEPT !.sms = l.found] EXCEPT !.track = F]
      OBVIOUS
    <3>7. [old EXCEPT !.sms = l.found] \in SessObject /\ [old EXCEPT !.sms = l.found].home = old.home
      BY <3>4, <3>5 DEF SessObject
    <3>8. new \in SessObject /\ new.home = old.home /\ new.track = F
      BY <3>3, <3>6, <3>7 DEF SessObject
    <3> HIDE DEF new
    <3>9. sess'[s] = new /\ \A x \in Ids \ {s} : sess'[x] = sess[x]
      BY <1>0, <1>8 DEF new
    <3>10. QED
      BY <3>3, <3>8, <3>9, NoNull
  <2>3. tr.sub /\ tr.sock = sock /\ tr.st = "ready" /\ tr.dest = IF sock = NULL THEN UDP ELSE sock
    OBVIOUS
  <2>4. IF mode = "tcp" THEN sock = conn[c].out ELSE sock = NULL
    <3>1. CASE mode = "tcp"
      BY <3>1
    <3>2. CASE mode # "tcp"
      <4>1. ~again => had.sock = NULL
        BY <1>8, <2>1 DEF Destined
      <4>2. again => had.sock = NULL
        BY <1>8, <3>2 DEF Ordinary
      <4>3. QED
        BY <3>2, <4>1, <4>2
    <3>3. QED
      BY <3>1, <3>2
  <2>5. /\ \A j \in Socks : <<s, t>> \in tcpdb[j] => again /\ had.sock = j
    <3> SUFFICES ASSUME NEW j \in Socks, <<s, t>> \in tcpdb[j]
                 PROVE  again /\ had.sock = j
      OBVIOUS
    <3>1. ~isNew /\ had.sub /\ had.dest = j
      BY DEF LinkInv, Noted, RunsOver
    <3>2. QED
      BY <2>1, <3>1, SocketNames DEF Destined
  <2>6. ASSUME NEW x \in Ids, NEW u \in Tracks, NEW j \in Socks, <<x, u>> # <<s, t>>
        PROVE  <<x, u>> \in tcpdb'[j] <=> <<x, u>> \in tcpdb[j]
    BY <1>8, <2>6
  <2>7. ASSUME NEW j \in Socks
        PROVE  <<s, t>> \in tcpdb'[j] <=> mode = "tcp" /\ j = sock
    BY <1>8, <2>5
  <2>8. \A j \in Socks : /\ tcpdb[j] \ D \subseteq tcpdb'[j]
                         /\ tcpdb'[j] \subseteq tcpdb[j] \cup (IF j = conn[c].out THEN {<<s, t>>} ELSE {})
    BY <1>8, <2>4
  <2>9. D \in SUBSET Streams
    BY DEF Streams
  <2>10. desc' = DescWithout(D) /\ reader' = ReaderWithout(D)
    BY <1>8
  <2> HIDE DEF D, sock, tr, F, T, again, had
  <2>11. Placed'
    <3> SUFFICES ASSUME NEW x \in Ids, NEW u \in Tracks, sess'[x] # NULL
                 PROVE  Destined(sess'[x].track[u])
      BY DEF Placed, Destined
    <3>1. CASE x # s
      BY <2>2, <3>1 DEF LinkInv, Placed
    <3>2. CASE x = s /\ u # t
      BY <2>2, <3>2 DEF LinkInv, Placed, Destined, NewTrack
    <3>3. CASE x = s /\ u = t
      BY <2>2, <2>3, <3>3 DEF Destined
    <3>4. QED
      BY <3>1, <3>2, <3>3
  <2>12. ASSUME NEW x \in Ids, NEW u \in Tracks, NEW j \in Socks, <<x, u>> # <<s, t>>
         PROVE  /\ RunsOver(x, u, j)' <=> RunsOver(x, u, j)
                /\ RunsOver(x, u, j)' => sess'[x].home = sess[x].home
    <3>1. CASE x # s
      BY <2>2, <3>1 DEF RunsOver
    <3>2. CASE x = s /\ u # t
      BY <2>1, <2>2, <3>2, SocketNames DEF RunsOver, NewTrack
    <3>3. QED
      BY <2>12, <3>1, <3>2
  <2>13. ASSUME NEW j \in Socks
         PROVE  RunsOver(s, t, j)' <=> mode = "tcp" /\ j = sock
    BY <2>2, <2>3, <2>4, SocketNames DEF RunsOver
  <2>14. Noted'
    <3>1. \A x \in Ids, u \in Tracks, j \in Socks : <<x, u>> \in tcpdb'[j] <=> RunsOver(x, u, j)'
      <4> SUFFICES ASSUME NEW x \in Ids, NEW u \in Tracks, NEW j \in Socks
                   PROVE  <<x, u>> \in tcpdb'[j] <=> RunsOver(x, u, j)'
        OBVIOUS
      <4>1. CASE <<x, u>> = <<s, t>>
        BY <2>7, <2>13, <4>1
      <4>2. CASE <<x, u>> # <<s, t>>
        BY <2>6, <2>12, <4>2 DEF LinkInv, Noted
      <4>3. QED
        BY <4>1, <4>2
    <3>2. \A j \in Socks : tcpdb'[j] # {} => j \in open'
      BY <1>2, <1>4, <2>8 DEF LinkInv, Noted
    <3>3. QED
      BY <3>1, <3>2 DEF Noted
  <2>15. DescriptorsLive'
    <3>1. \A j \in Socks : desc[j] # NULL /\ ~(desc[j].chan \subseteq D)
                              => j \in open' /\ tcpdb[j] \ D \subseteq tcpdb'[j]
      BY <1>2, <2>8 DEF LinkInv, DescriptorsLive
    <3>2. \A j \in Socks : desc'[j] # NULL => j \in open' /\ desc'[j].chan # {} /\ desc'[j].chan \subseteq tcpdb'[j]
      BY <1>0, <2>10, <3>1, DescsKept DEF LinkInv
    <3>3. QED
      BY <3>2 DEF DescriptorsLive
  <2>16. \A x \in Ids, u \in Tracks, j \in Socks : RunsOver(x, u, j)' =>
                 \/ RunsOver(x, u, j) /\ sess'[x].home = sess[x].home
                 \/ /\ conn[c] # NULL /\ j = conn[c].out
                    /\ sess'[x].home = c \/ "elsewhere" \in Moves
    <3> SUFFICES ASSUME NEW x \in Ids, NEW u \in Tracks, NEW j \in Socks, RunsOver(x, u, j)'
                 PROVE  \/ RunsOver(x, u, j) /\ sess'[x].home = sess[x].home
                        \/ /\ conn[c] # NULL /\ j = conn[c].out
                           /\ sess'[x].home = c \/ "elsewhere" \in Moves
      OBVIOUS
    <3>1. CASE <<x, u>> = <<s, t>>
      <4>1. x = s /\ u = t
        BY <3>1
      <4>2. mode = "tcp" /\ j = sock
        BY <2>13, <4>1
      <4>3. j = conn[c].out
        BY <2>4, <4>2
      <4>4. sess'[s].home = c \/ "elsewhere" \in Moves
        BY <1>2, <2>1, <2>2
      <4>5. QED
        BY <1>2, <4>1, <4>3, <4>4
    <3>2. CASE <<x, u>> # <<s, t>>
      BY <2>12, <3>2
    <3>3. QED
      BY <3>1, <3>2
  <2>17. QED
    BY <1>2, <1>5, <2>9, <2>10, <2>11, <2>14, <2>15, <2>16 DEF LinkInv
<1>9. QED
  BY <1>3, <1>6, <1>7, <1>8

LEMMA NextLinks ==
    ASSUME Ordinary, IInv, LinkInv, [Next]_vars
    PROVE  LinkInv'
<1>1. TypeOK /\ TypeOK'
  BY NextKeeps DEF IInv
<1>2. CASE UNCHANGED vars
  BY <1>2, LinksStay DEF vars
<1>3. CASE Request
  <2>1. ASSUME NEW k \in Socks, NEW n \in Names, Describe(k, n)
        PROVE  LinkInv'
    BY <2>1, DescribeLinks
  <2>2. ASSUME NEW k \in Socks, NEW s \in Ids, NEW n \in Names, NEW t \in Tracks,
               NEW mode \in {"tcp", UDP}, SetUp(k, s, n, t, mode)
        PROVE  LinkInv'
    BY <1>1, <2>2, SetUpLinks
  <2>3. ASSUME NEW k \in Socks, NEW s \in Ids, NEW T, Play(k, s, T)
        PROVE  LinkInv'
    BY <1>1, <2>3, PlayLinks
  <2>4. ASSUME NEW k \in Socks, NEW s \in Ids, NEW T, Pause(k, s, T)
        PROVE  LinkInv'
    BY <1>1, <2>4, PauseLinks
  <2>5. ASSUME NEW k \in Socks, NEW s \in Ids, NEW T \in {Tracks} \cup {{t} : t \in Tracks}, TearDown(k, s, T)
        PROVE  LinkInv'
    <3>1. T \in SUBSET Tracks /\ sess[s] # NULL /\ EndStreams(s, T, FALSE) /\ UNCHANGED <<conn, open>>
      BY <2>5 DEF TearDown, InSession
    <3>2. QED
      BY <1>1, <3>1, EndStreamsLinks
  <2>6. QED
    BY <1>3, <2>1, <2>2, <2>3, <2>4, <2>5 DEF Request
<1>4. CASE DescribeEnd
  BY <1>4, DescribeEndLinks
<1>5. ASSUME NEW c \in Conns, NEW k \in Socks, Accept(c, k)
      PROVE  LinkInv'
  BY <1>1, <1>5, AcceptLinks
<1>6. ASSUME NEW k \in Socks, ReadError(k) \/ SendFails(k)
      PROVE  LinkInv'
  <2>1. CASE ReadError(k)
    BY <1>1, <2>1, ReadErrorLinks, DeleteConnLinks
  <2>2. CASE SendFails(k)
    BY <1>1, <2>2, SendFailsLinks
  <2>3. QED
    BY <1>6, <2>1, <2>2
<1>7. ASSUME NEW s \in Ids, Timeout(s) \/ \E t \in Tracks : StreamEnds(s, t)
      PROVE  LinkInv'
  <2>1. CASE Timeout(s)
    <3>1. sess[s] # NULL /\ EndStreams(s, Tracks, TRUE) /\ UNCHANGED <<conn, open>>
      BY <2>1 DEF Timeout
    <3>2. QED
      BY <1>1, <3>1, EndStreamsLinks
  <2>2. CASE \E t \in Tracks : StreamEnds(s, t)
    BY <1>1, <2>2, StreamEndsLinks
  <2>3. QED
    BY <1>7, <2>1, <2>2
<1>8. ASSUME NEW n \in Names, FileChanges(n)
      PROVE  LinkInv'
  BY <1>8, LinksStay DEF FileChanges
<1>9. QED
  BY <1>2, <1>3, <1>4, <1>5, <1>6, <1>7, <1>8 DEF Next

(* Who reads a socket when the streams D go: whoever had the bytes from the *)
(* descriptor that goes with them.                                         *)
LEMMA ReadingBack ==
    ASSUME TypeOK, LinkInv, ReadRight, NEW D, NEW k \in Socks
    PROVE  ReaderWithout(D)[k] = IF k \in Freed(D) THEN desc[k].handler ELSE reader[k]
<1>1. \A j \in Freed(D) : LET h == desc[j].handler IN j \in Socks /\ h \in Conns /\ conn[h] # NULL /\ conn[h].in = j
  BY DEF Freed, ReadRight, TypeOK, DescObject
<1>2. HandedBack(D) \subseteq Conns
  BY DescriptorsTyped
<1>3. CASE k \in Freed(D)
  <2> DEFINE h == desc[k].handler
             P(c) == c \in HandedBack(D) /\ conn[c] # NULL /\ conn[c].in = k
  <2>1. P(h)
    BY <1>1, <1>3 DEF HandedBack
  <2>2. \A c : P(c) => c = h
    BY <1>1, <1>2, <1>3 DEF LinkInv, Wired
  <2>3. ReaderWithout(D)[k] = CHOOSE c \in HandedBack(D) : conn[c] # NULL /\ conn[c].in = k
    BY <2>1 DEF ReaderWithout
  <2>4. (CHOOSE c \in HandedBack(D) : conn[c] # NULL /\ conn[c].in = k) = h
    BY <2>1, <2>2
  <2>5. QED
    BY <1>3, <2>3, <2>4
<1>4. CASE k \notin Freed(D)
  <2>1. ~\E c \in HandedBack(D) : conn[c] # NULL /\ conn[c].in = k
    BY <1>1, <1>4 DEF HandedBack
  <2>2. QED
    BY <1>4, <2>1 DEF ReaderWithout
<1>5. QED
  BY <1>3, <1>4

(* When streams go and connections stay. *)
LEMMA ReadingStays ==
    ASSUME TypeOK, LinkInv, ReadRight, NEW D, desc' = DescWithout(D), reader' = ReaderWithout(D),
           UNCHANGED conn
    PROVE  ReadRight'
<1>1. \A k \in Socks : reader'[k] = IF k \in Freed(D) THEN desc[k].handler ELSE reader[k]
  BY ReadingBack
<1>2. \A k \in Socks : /\ k \in Freed(D) <=> desc[k] # NULL /\ desc'[k] = NULL
                       /\ desc'[k] # NULL => desc[k] # NULL /\ desc'[k].handler = desc[k].handler
  <2> SUFFICES ASSUME NEW k \in Socks
               PROVE  /\ k \in Freed(D) <=> desc[k] # NULL /\ desc'[k] = NULL
                      /\ desc'[k] # NULL => desc[k] # NULL /\ desc'[k].handler = desc[k].handler
    OBVIOUS
  <2>1. k \in Freed(D) <=> desc[k] # NULL /\ desc'[k] = NULL
    BY DEF Freed
  <2>2. ASSUME desc'[k] # NULL PROVE desc[k] # NULL /\ desc'[k].handler = desc[k].handler
    <3>1. desc[k] # NULL /\ desc'[k] = [desc[k] EXCEPT !.chan = @ \ D]
      BY <2>2 DEF DescWithout
    <3>2. desc[k] \in DescObject
      BY <3>1 DEF TypeOK
    <3>3. QED
      BY <3>1, <3>2 DEF DescObject
  <2>3. QED
    BY <2>1, <2>2
<1>3. ASSUME NEW c \in Conns, conn'[c] # NULL
      PROVE  reader'[conn'[c].in] = IF desc'[conn'[c].in] = NULL THEN c ELSE InDesc
  <2> DEFINE k == conn[c].in
  <2>1. k \in Socks /\ conn[c] # NULL /\ conn' = conn
    BY <1>3 DEF TypeOK, ConnObject, LinkInv, Wired
  <2>2. reader[k] = IF desc[k] = NULL THEN c ELSE InDesc
    BY <2>1 DEF ReadRight
  <2>3. desc[k] # NULL => desc[k].handler = c
    BY <2>1 DEF ReadRight, LinkInv, Wired, TypeOK, DescObject
  <2>4. desc[k] = NULL => desc'[k] = NULL
    BY <1>2, <2>1
  <2>5. QED
    BY <1>1, <1>2, <2>1, <2>2, <2>3, <2>4
<1>4. \A k \in Socks : desc'[k] # NULL => LET c == desc'[k].handler IN conn'[c] # NULL /\ conn'[c].in = k
  BY <1>2 DEF ReadRight
<1>5. QED
  BY <1>3, <1>4 DEF ReadRight

LEMMA HomelyStays ==
    ASSUME Homely, UNCHANGED conn,
           \A x \in Ids, t \in Tracks, j \in Socks :
              RunsOver(x, t, j)' => RunsOver(x, t, j) /\ sess'[x].home = sess[x].home
    PROVE  Homely'
<1> SUFFICES ASSUME NEW s \in Ids, NEW t \in Tracks, NEW k \in Socks, RunsOver(s, t, k)'
             PROVE  conn'[sess'[s].home] # NULL /\ conn'[sess'[s].home].in = k
  BY DEF Homely
<1>1. QED
  BY DEF Homely

LEMMA HearingStays ==
    ASSUME HearInv, UNCHANGED <<sess, conn, open, desc, tcpdb, reader>>
    PROVE  HearInv'
<1>1. LinkInv'
  BY LinksStay DEF HearInv
<1>2. Homely'
  BY DEF HearInv, Homely, RunsOver
<1>3. ReadRight'
  BY DEF HearInv, ReadRight
<1>4. QED
  BY <1>1, <1>2, <1>3 DEF HearInv

LEMMA AcceptHeard ==
    ASSUME TypeOK, HearInv, NEW c \in Conns, NEW k \in Socks, Accept(c, k)
    PROVE  Homely' /\ ReadRight'
<1>1. /\ conn[c] = NULL /\ k \notin open
      /\ conn' = [conn EXCEPT ![c] = NewConn(k)] /\ reader' = [reader EXCEPT ![k] = c]
      /\ UNCHANGED <<sess, desc, tcpdb>>
  BY DEF Accept
<1>2. /\ conn'[c] = NewConn(k) /\ \A d \in Conns \ {c} : conn'[d] = conn[d]
      /\ reader'[k] = c /\ \A j \in Socks \ {k} : reader'[j] = reader[j]
  BY <1>1 DEF TypeOK
<1>3. NewConn(k).in = k
  BY DEF NewConn
<1>4. desc[k] = NULL
  BY <1>1 DEF HearInv, LinkInv, DescriptorsLive
<1>5. ASSUME NEW d \in Conns, conn[d] # NULL
      PROVE  conn'[d] = conn[d] /\ conn[d].in # k /\ conn[d].in \in Socks
  BY <1>1, <1>2, <1>5 DEF HearInv, LinkInv, Wired, TypeOK
<1>6. Homely'
  <2> SUFFICES ASSUME NEW s \in Ids, NEW t \in Tracks, NEW j \in Socks, RunsOver(s, t, j)'
               PROVE  conn'[sess'[s].home] # NULL /\ conn'[sess'[s].home].in = j
    BY DEF Homely
  <2>1. RunsOver(s, t, j) /\ sess'[s] = sess[s]
    BY <1>1 DEF RunsOver
  <2>2. sess[s].home \in Conns /\ conn[sess[s].home] # NULL /\ conn[sess[s].home].in = j
    BY <2>1 DEF HearInv, Homely, RunsOver, TypeOK, SessObject
  <2>3. QED
    BY <1>5, <2>1, <2>2
<1>7. ASSUME NEW d \in Conns, conn'[d] # NULL
      PROVE  reader'[conn'[d].in] = IF desc'[conn'[d].in] = NULL THEN d ELSE InDesc
  <2>1. CASE d = c
    BY <1>1, <1>2, <1>3, <1>4, <2>1
  <2>2. CASE d # c
    <3>1. conn[d] # NULL /\ conn'[d] = conn[d] /\ conn[d].in # k /\ conn[d].in \in Socks
      BY <1>2, <1>5, <1>7, <2>2
    <3>2. QED
      BY <1>1, <1>2, <3>1 DEF HearInv, ReadRight
  <2>3. QED
    BY <2>1, <2>2
<1>8. ASSUME NEW j \in Socks, desc'[j] # NULL
      PROVE  conn'[desc'[j].handler] # NULL /\ conn'[desc'[j].handler].in = j
  <2>1. desc'[j] = desc[j] /\ desc[j].handler \in Conns
    BY <1>1, <1>8 DEF TypeOK, DescObject
  <2>2. conn[desc[j].handler] # NULL /\ conn[desc[j].handler].in = j
    BY <1>8, <2>1 DEF HearInv, ReadRight
  <2>3. QED
    BY <1>5, <2>1, <2>2
<1>9. QED
  BY <1>6, <1>7, <1>8 DEF ReadRight

LEMMA DeleteConnHeard ==
    ASSUME TypeOK, TypeOK', HearInv, NEW c \in Conns, conn[c] # NULL, NEW released, DeleteConn(c, released)
    PROVE  Homely' /\ ReadRight'
<1> DEFINE k == conn[c].out
           D == tcpdb[k]
<1>1. /\ desc' = DescWithout(D)
      /\ reader' = [j \in Socks |-> IF j \in {conn[c].in, k} THEN NULL ELSE ReaderWithout(D)[j]]
      /\ conn' = [conn EXCEPT ![c] = NULL]
  BY DEF DeleteConn
<1>2. k \in Socks /\ conn[c].in = k
  BY DEF TypeOK, ConnObject, HearInv, LinkInv, Wired
<1>3. conn'[c] = NULL /\ \A d \in Conns \ {c} : conn'[d] = conn[d]
  BY <1>1 DEF TypeOK
<1>4. \A s \in Ids, t \in Tracks, j \in Socks :
         RunsOver(s, t, j)' => j # k /\ RunsOver(s, t, j) /\ sess'[s].home = sess[s].home
  BY DeleteConnLinks DEF HearInv
<1>5. Homely'
  <2> SUFFICES ASSUME NEW s \in Ids, NEW t \in Tracks, NEW j \in Socks, RunsOver(s, t, j)'
               PROVE  conn'[sess'[s].home] # NULL /\ conn'[sess'[s].home].in = j
    BY DEF Homely
  <2>1. j # k /\ RunsOver(s, t, j) /\ sess'[s].home = sess[s].home
    BY <1>4
  <2>2. sess[s].home \in Conns /\ conn[sess[s].home] # NULL /\ conn[sess[s].home].in = j
    BY <2>1 DEF HearInv, Homely, RunsOver, TypeOK, SessObject
  <2>3. QED
    BY <1>2, <1>3, <2>1, <2>2
<1>6. \A j \in Socks \ {k} : reader'[j] = IF j \in Freed(D) THEN desc[j].handler ELSE reader[j]
  <2> HIDE DEF D
  <2>1. QED
    BY <1>1, <1>2, ReadingBack DEF HearInv
<1>7. \A j \in Socks : /\ j \in Freed(D) <=> desc[j] # NULL /\ desc'[j] = NULL
                       /\ desc'[j] # NULL => desc[j] # NULL /\ desc'[j].handler = desc[j].handler
  <2> SUFFICES ASSUME NEW j \in Socks
               PROVE  /\ j \in Freed(D) <=> desc[j] # NULL /\ desc'[j] = NULL
                      /\ desc'[j] # NULL => desc[j] # NULL /\ desc'[j].handler = desc[j].handler
    OBVIOUS
  <2> HIDE DEF D
  <2>1. j \in Freed(D) <=> desc[j] # NULL /\ desc'[j] = NULL
    BY <1>1 DEF Freed
  <2>2. ASSUME desc'[j] # NULL PROVE desc[j] # NULL /\ desc'[j].handler = desc[j].handler
    <3>1. desc[j] # NULL /\ desc'[j] = [desc[j] EXCEPT !.chan = @ \ D]
      BY <1>1, <2>2 DEF DescWithout
    <3>2. desc[j] \in DescObject
      BY <3>1 DEF TypeOK
    <3>3. QED
      BY <3>1, <3>2 DEF DescObject
  <2>3. QED
    BY <2>1, <2>2
<1>8. desc'[k] = NULL
  BY <1>1, <1>2 DEF HearInv, LinkInv, DescriptorsLive, DescWithout
<1>9. ASSUME NEW d \in Conns, conn'[d] # NULL
      PROVE  reader'[conn'[d].in] = IF desc'[conn'[d].in] = NULL THEN d ELSE InDesc
  <2> DEFINE j == conn[d].in
  <2>1. d # c /\ conn'[d] = conn[d] /\ conn[d] # NULL
    BY <1>3, <1>9
  <2>2. j \in Socks \ {k}
    BY <1>2, <2>1 DEF TypeOK, HearInv, LinkInv, Wired
  <2>3. reader[j] = IF desc[j] = NULL THEN d ELSE InDesc
    BY <2>1 DEF HearInv, ReadRight
  <2>4. desc[j] # NULL => desc[j].handler = d
    <3> SUFFICES ASSUME desc[j] # NULL PROVE desc[j].handler = d
      OBVIOUS
    <3>1. /\ desc[j].handler \in Conns /\ conn[desc[j].handler] # NULL
          /\ conn[desc[j].handler].in = conn[d].in
      BY <2>2 DEF HearInv, ReadRight, TypeOK, DescObject
    <3>2. QED
      BY <2>1, <3>1 DEF HearInv, LinkInv, Wired
  <2>5. QED
    BY <1>6, <1>7, <2>1, <2>2, <2>3, <2>4
<1>10. ASSUME NEW j \in Socks, desc'[j] # NULL
       PROVE  conn'[desc'[j].handler] # NULL /\ conn'[desc'[j].handler].in = j
  <2>1. j # k /\ desc[j] # NULL /\ desc'[j].handler = desc[j].handler
    BY <1>7, <1>8, <1>10
  <2>2. desc[j].handler \in Conns /\ conn[desc[j].handler] # NULL /\ conn[desc[j].handler].in = j
    BY <2>1 DEF HearInv, ReadRight, TypeOK, DescObject
  <2>3. QED
    BY <1>2, <1>3, <2>1, <2>2
<1>11. QED
  BY <1>5, <1>9, <1>10 DEF ReadRight

LEMMA PlayHeard ==
    ASSUME TypeOK, TypeOK', HearInv, Moves = {}, NEW k \in Socks, NEW s \in Ids, NEW T, Play(k, s, T)
    PROVE  Homely' /\ ReadRight'
<1>1. /\ \A x \in Ids, u \in Tracks, j \in Socks :
            RunsOver(x, u, j)' => RunsOver(x, u, j) /\ sess'[x].home = sess[x].home
      /\ UNCHANGED conn
      /\ \E c \in Conns :
            /\ sess[s].home = c
            /\ \A j \in Socks :
                  \/ desc'[j] = desc[j] /\ reader'[j] = reader[j]
                  \/ /\ desc'[j] # NULL /\ desc'[j].handler = c
                     /\ reader'[j] = IF desc[j] = NULL THEN InDesc ELSE reader[j]
                     /\ \E t \in Tracks : RunsOver(s, t, j)
  BY PlayLinks DEF HearInv
<1>2. PICK c \in Conns :
        /\ sess[s].home = c
        /\ \A j \in Socks :
              \/ desc'[j] = desc[j] /\ reader'[j] = reader[j]
              \/ /\ desc'[j] # NULL /\ desc'[j].handler = c
                 /\ reader'[j] = IF desc[j] = NULL THEN InDesc ELSE reader[j]
                 /\ \E t \in Tracks : RunsOver(s, t, j)
  BY <1>1
<1>3. Homely'
  BY <1>1, HomelyStays DEF HearInv
<1>4. ASSUME NEW j \in Socks
      PROVE  \/ desc'[j] = desc[j] /\ reader'[j] = reader[j]
             \/ /\ desc'[j] # NULL /\ desc'[j].handler = c
                /\ reader'[j] = IF desc[j] = NULL THEN InDesc ELSE reader[j]
                /\ conn[c] # NULL /\ conn[c].in = j
  BY <1>1, <1>2 DEF HearInv, Homely
<1>5. ASSUME NEW d \in Conns, conn'[d] # NULL
      PROVE  reader'[conn'[d].in] = IF desc'[conn'[d].in] = NULL THEN d ELSE InDesc
  <2> DEFINE j == conn[d].in
  <2>1. conn[d] # NULL /\ conn' = conn /\ j \in Socks
    BY <1>1, <1>5 DEF TypeOK, HearInv, LinkInv, Wired
  <2>2. reader[j] = IF desc[j] = NULL THEN d ELSE InDesc
    BY <2>1 DEF HearInv, ReadRight
  <2>3. QED
    BY <1>4, <2>1, <2>2
<1>6. ASSUME NEW j \in Socks, desc'[j] # NULL
      PROVE  conn'[desc'[j].handler] # NULL /\ conn'[desc'[j].handler].in = j
  <2>1. CASE desc'[j] = desc[j]
    BY <1>1, <1>6, <2>1 DEF HearInv, ReadRight
  <2>2. CASE desc'[j] # desc[j]
    BY <1>1, <1>4, <2>2
  <2>3. QED
    BY <2>1, <2>2
<1>7. QED
  BY <1>3, <1>5, <1>6 DEF ReadRight

LEMMA SendFailsHeard ==
    ASSUME TypeOK, HearInv, NEW k \in Socks, SendFails(k)
    PROVE  Homely' /\ ReadRight'
<1> DEFINE h == desc[k].handler
<1>1. /\ desc[k] # NULL /\ desc' = [desc EXCEPT ![k] = NULL]
      /\ reader' = [j \in Socks |-> IF conn[h] # NULL /\ conn[h].in = j THEN h
                                    ELSE IF j = k THEN NULL ELSE reader[j]]
      /\ UNCHANGED <<sess, conn, tcpdb>>
  BY DEF SendFails
<1>2. h \in Conns /\ conn[h] # NULL /\ conn[h].in = k
  BY <1>1 DEF HearInv, ReadRight, TypeOK, DescObject
<1>3. reader'[k] = h /\ \A j \in Socks \ {k} : reader'[j] = reader[j]
  BY <1>1, <1>2
<1>4. desc'[k] = NULL /\ \A j \in Socks \ {k} : desc'[j] = desc[j]
  BY <1>1 DEF TypeOK
<1>5. Homely'
  BY <1>1 DEF HearInv, Homely, RunsOver
<1>6. ASSUME NEW d \in Conns, conn'[d] # NULL
      PROVE  reader'[conn'[d].in] = IF desc'[conn'[d].in] = NULL THEN d ELSE InDesc
  <2>1. conn[d] # NULL /\ conn' = conn /\ conn[d].in \in Socks
    BY <1>1, <1>6 DEF TypeOK, HearInv, LinkInv, Wired
  <2>2. conn[d].in = k => d = h
    BY <1>2, <2>1 DEF HearInv, LinkInv, Wired
  <2>3. QED
    BY <1>3, <1>4, <2>1, <2>2 DEF HearInv, ReadRight
<1>7. ASSUME NEW j \in Socks, desc'[j] # NULL
      PROVE  conn'[desc'[j].handler] # NULL /\ conn'[desc'[j].handler].in = j
  BY <1>1, <1>4, <1>7 DEF HearInv, ReadRight
<1>8. QED
  BY <1>5, <1>6, <1>7 DEF ReadRight

LEMMA SetUpHeard ==
    ASSUME IInv, TypeOK', HearInv, Moves = {}, NEW k \in Socks, NEW s \in Ids, NEW n \in Names,
           NEW t \in Tracks, NEW mode \in {"tcp", UDP}, SetUp(k, s, n, t, mode)
    PROVE  Homely' /\ ReadRight'
<1>0. TypeOK /\ Ordinary /\ LinkInv
  BY DEF IInv, Ordinary, HearInv
<1>1. /\ UNCHANGED conn
      /\ \E D \in SUBSET Streams : \/ UNCHANGED <<desc, reader>>
                                   \/ desc' = DescWithout(D) /\ reader' = ReaderWithout(D)
      /\ \A x \in Ids, u \in Tracks, j \in Socks : RunsOver(x, u, j)' =>
            \/ RunsOver(x, u, j) /\ sess'[x].home = sess[x].home
            \/ \E c \in Conns : /\ conn[c] # NULL /\ j = conn[c].out
                                /\ sess'[x].home = c \/ "elsewhere" \in Moves
  BY <1>0, SetUpLinks
<1>2. Homely'
  <2> SUFFICES ASSUME NEW x \in Ids, NEW u \in Tracks, NEW j \in Socks, RunsOver(x, u, j)'
               PROVE  conn'[sess'[x].home] # NULL /\ conn'[sess'[x].home].in = j
    BY DEF Homely
  <2>1. CASE RunsOver(x, u, j) /\ sess'[x].home = sess[x].home
    BY <1>1, <2>1 DEF HearInv, Homely
  <2>2. CASE \E c \in Conns : conn[c] # NULL /\ j = conn[c].out /\ sess'[x].home = c
    BY <1>0, <1>1, <2>2 DEF LinkInv, Wired
  <2>3. QED
    BY <1>1, <2>1, <2>2
<1>3. ReadRight'
  <2>1. CASE UNCHANGED <<desc, reader>>
    BY <1>1, <2>1 DEF HearInv, ReadRight
  <2>2. ASSUME NEW D, desc' = DescWithout(D), reader' = ReaderWithout(D)
        PROVE  ReadRight'
    BY <1>0, <1>1, <2>2, ReadingStays DEF HearInv
  <2>3. QED
    BY <1>1, <2>1, <2>2
<1>4. QED
  BY <1>2, <1>3

LEMMA EndStreamsHeard ==
    ASSUME TypeOK, TypeOK', HearInv, NEW s \in Ids, sess[s] # NULL, NEW T \in SUBSET Tracks,
           NEW anyway \in BOOLEAN, anyway => T = Tracks,
           EndStreams(s, T, anyway), UNCHANGED <<conn, open>>
    PROVE  Homely' /\ ReadRight'
<1>1. Homely'
  BY EndStreamsLinks, HomelyStays DEF HearInv
<1>2. PICK D : desc' = DescWithout(D) /\ reader' = ReaderWithout(D)
  BY DEF EndStreams
<1>3. ReadRight'
  BY <1>2, ReadingStays DEF HearInv
<1>4. QED
  BY <1>1, <1>3

LEMMA NextHeard ==
    ASSUME Moves = {}, IInv, HearInv, [Next]_vars
    PROVE  HearInv'
<1>1. TypeOK /\ TypeOK' /\ LinkInv' /\ Ordinary /\ LinkInv /\ ReadRight /\ Homely
  BY NextKeeps, NextLinks DEF IInv, HearInv, Ordinary
<1>2. CASE UNCHANGED vars
  BY <1>2, HearingStays DEF vars
<1>3. CASE Request
  <2>1. ASSUME NEW k \in Socks, NEW n \in Names, Describe(k, n)
        PROVE  HearInv'
    BY <1>1, <2>1, DescribeLinks, HearingStays
  <2>2. ASSUME NEW k \in Socks, NEW s \in Ids, NEW n \in Names, NEW t \in Tracks,
               NEW mode \in {"tcp", UDP}, SetUp(k, s, n, t, mode)
        PROVE  HearInv'
    BY <1>1, <2>2, SetUpHeard DEF HearInv
  <2>3. ASSUME NEW k \in Socks, NEW s \in Ids, NEW T, Play(k, s, T)
        PROVE  HearInv'
    BY <1>1, <2>3, PlayHeard DEF HearInv
  <2>4. ASSUME NEW k \in Socks, NEW s \in Ids, NEW T, Pause(k, s, T)
        PROVE  HearInv'
    <3>1. UNCHANGED <<conn, desc, reader>>
      BY <2>4 DEF Pause
    <3>2. Homely'
      BY <1>1, <2>4, <3>1, PauseLinks, HomelyStays
    <3>3. ReadRight'
      BY <1>1, <3>1 DEF ReadRight
    <3>4. QED
      BY <1>1, <3>2, <3>3 DEF HearInv
  <2>5. ASSUME NEW k \in Socks, NEW s \in Ids, NEW T \in {Tracks} \cup {{t} : t \in Tracks}, TearDown(k, s, T)
        PROVE  HearInv'
    <3>1. T \in SUBSET Tracks /\ sess[s] # NULL /\ EndStreams(s, T, FALSE) /\ UNCHANGED <<conn, open>>
      BY <2>5 DEF TearDown, InSession
    <3>2. QED
      BY <1>1, <3>1, EndStreamsHeard DEF HearInv
  <2>6. QED
    BY <1>3, <2>1, <2>2, <2>3, <2>4, <2>5 DEF Request
<1>4. CASE DescribeEnd
  BY <1>1, <1>4, DescribeEndLinks, HearingStays
<1>5. ASSUME NEW c \in Conns, NEW k \in Socks, Accept(c, k)
      PROVE  HearInv'
  BY <1>1, <1>5, AcceptHeard DEF HearInv
<1>6. ASSUME NEW k \in Socks, ReadError(k) \/ SendFails(k)
      PROVE  HearInv'
  <2>1. CASE ReadError(k)
    BY <1>1, <2>1, ReadErrorLinks, DeleteConnHeard DEF HearInv
  <2>2. CASE SendFails(k)
    BY <1>1, <2>2, SendFailsHeard DEF HearInv
  <2>3. QED
    BY <1>6, <2>1, <2>2
<1>7. ASSUME NEW s \in Ids, Timeout(s) \/ \E t \in Tracks : StreamEnds(s, t)
      PROVE  HearInv'
  <2>1. CASE Timeout(s)
    <3>1. sess[s] # NULL /\ EndStreams(s, Tracks, TRUE) /\ UNCHANGED <<conn, open>>
      BY <2>1 DEF Timeout
    <3>2. QED
      BY <1>1, <3>1, EndStreamsHeard DEF HearInv
  <2>2. ASSUME NEW t \in Tracks, StreamEnds(s, t)
        PROVE  HearInv'
    <3>1. desc' = DescWithout({<<s, t>>}) /\ reader' = ReaderWithout({<<s, t>>}) /\ UNCHANGED conn
      BY <2>2 DEF StreamEnds
    <3>2. Homely'
      BY <1>1, <2>2, <3>1, StreamEndsLinks, HomelyStays
    <3>3. ReadRight'
      BY <1>1, <3>1, ReadingStays
    <3>4. QED
      BY <1>1, <3>2, <3>3 DEF HearInv
  <2>3. QED
    BY <1>7, <2>1, <2>2
<1>8. ASSUME NEW n \in Names, FileChanges(n)
      PROVE  HearInv'
  BY <1>8, HearingStays DEF FileChanges
<1>9. QED
  BY <1>2, <1>3, <1>4, <1>5, <1>6, <1>7, <1>8 DEF Next

-----------------------------------------------------------------------------
(* Every object the server keeps has the fields and the values its type     *)
(* allows, whatever requests, timeouts and lost connections do.            *)
THEOREM TypeCorrect == Spec => []TypeOK
<1>1. IInv => TypeOK
  BY DEF IInv
<1>2. QED
  BY <1>1, InitKeeps, NextKeeps, PTL DEF Spec

(* No session, no DESCRIBE that waits in a nested event loop and no entry   *)
(* of the table points to a ServerMediaSession that was deleted: its       *)
(* reference count is the number of its holders                            *)
(* (GenericMediaServer.cpp:46-55, :265-285).                               *)
THEOREM NoneDangling == Spec => []NoDanglingSession
<1>1. IInv => NoDanglingSession
  BY DEF IInv, TableSound, Counted, Held, NoDanglingSession
<1>2. QED
  BY <1>1, InitKeeps, NextKeeps, PTL DEF Spec

(* While no client sets a track up again over the other transport or drops  *)
(* its connection during its DESCRIBE, the database of streams over TCP is *)
(* exact: what SETUP put on a socket is recorded under it, and nothing     *)
(* else, whatever ends, times out, fails or is accepted again              *)
(* (RTSPServer.cpp:200-265, :1317-1370).                                   *)
THEOREM TcpExact == Ordinary => (Spec => []TcpStreamsKnown)
<1> SUFFICES ASSUME Ordinary PROVE Spec => []TcpStreamsKnown
  OBVIOUS
<1>1. LinkInv => TcpStreamsKnown
  BY DEF LinkInv, Noted, RunsOver, TcpStreamsKnown
<1>2. IInv /\ LinkInv /\ [Next]_vars => (IInv /\ LinkInv)'
  BY NextKeeps, NextLinks
<1>3. QED
  BY <1>1, <1>2, InitKeeps, InitLinks, PTL DEF Spec

(* And a socket descriptor belongs to an open socket and to streams that    *)
(* are recorded on it (RTPInterface.cpp:398-470).                          *)
THEOREM NoDeadDescriptor == Ordinary => (Spec => []DescriptorsLive)
<1> SUFFICES ASSUME Ordinary PROVE Spec => []DescriptorsLive
  OBVIOUS
<1>1. LinkInv => DescriptorsLive
  BY DEF LinkInv
<1>2. IInv /\ LinkInv /\ [Next]_vars => (IInv /\ LinkInv)'
  BY NextKeeps, NextLinks
<1>3. QED
  BY <1>1, <1>2, InitKeeps, InitLinks, PTL DEF Spec

(* When clients use a session only from the connection it was set up on as  *)
(* well, every connection gets what its client sends: its socket calls it, *)
(* or calls the descriptor that hands it the bytes between packets         *)
(* (RTPInterface.cpp:422-428, RTSPServer.cpp:591-605).                     *)
THEOREM AllHeard == Moves = {} => (Spec => []NeverDeaf)
<1> SUFFICES ASSUME Moves = {} PROVE Spec => []NeverDeaf
  OBVIOUS
<1>1. Init => HearInv
  BY InitLinks DEF Init, HearInv, Homely, RunsOver, ReadRight
<1>2. IInv /\ HearInv => NeverDeaf
  <2> SUFFICES ASSUME IInv, HearInv, NEW c \in Conns, conn[c] # NULL
               PROVE  /\ conn[c].in \in open
                      /\ HandlerOf(conn[c].in) = c
                      /\ \A d \in Conns \ {c} : conn[d] # NULL => conn[d].in # conn[c].in
    BY DEF NeverDeaf
  <2> DEFINE k == conn[c].in
  <2>1. k \in open /\ k \in Socks
    BY DEF IInv, TypeOK, HearInv, LinkInv, Wired
  <2>2. \A d \in Conns : conn[d] # NULL /\ conn[d].in = k => d = c
    BY DEF HearInv, LinkInv, Wired
  <2>3. reader[k] = IF desc[k] = NULL THEN c ELSE InDesc
    BY DEF HearInv, ReadRight
  <2>4. CASE desc[k] = NULL
    BY <2>1, <2>2, <2>3, <2>4, ServerAssumption DEF HandlerOf
  <2>5. CASE desc[k] # NULL
    <3>1. desc[k].handler = c
      BY <2>1, <2>2, <2>5 DEF HearInv, ReadRight, IInv, TypeOK, DescObject
    <3>2. QED
      BY <2>1, <2>2, <2>3, <2>5, <3>1 DEF HandlerOf
  <2>6. QED
    BY <2>4, <2>5
<1>3. IInv /\ HearInv /\ [Next]_vars => (IInv /\ HearInv)'
  BY NextKeeps, NextHeard
<1>4. QED
  BY <1>1, <1>2, <1>3, InitKeeps, PTL DEF Spec
=============================================================================
