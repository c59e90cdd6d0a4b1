----------------------------- MODULE RtspServer -----------------------------
(***************************************************************************)
(* The RTSP server of projects/RTSPServer: DynamicRTSPServer and the parts *)
(* of live555 whose objects it keeps alive and deletes:                    *)
(*                                                                         *)
(*   - the table of ServerMediaSessions, their reference counts, and their *)
(*     replacement when a client looks up a file (sms, table);             *)
(*   - client sessions with one stream per track (sess);                   *)
(*   - client connections and their sockets (conn, open), and the database *)
(*     of streams that run over them (tcpdb);                              *)
(*   - the socket descriptors that take over the reading of a connection   *)
(*     while media is interleaved on it (desc), and who is called when a   *)
(*     socket is readable (reader).                                        *)
(*                                                                         *)
(* The server has one thread.  A handler is one step, but DESCRIBE may run *)
(* the event loop inside (to wait for the SDP of an H.264 file), so that   *)
(* other handlers run before it ends: loops is the stack of such calls.    *)
(*                                                                         *)
(* A pointer to an object that was deleted is a pointer to NULL here: an   *)
(* entry of sms, sess or conn is NULL when there is no object.             *)
(***************************************************************************)
EXTENDS Integers, Sequences, FiniteSets

CONSTANTS
    Names,     \* files (a stream is named after its file)
    Sms,       \* ServerMediaSession objects that may exist at a time
    Ids,       \* client session ids
    Conns,     \* client connection objects
    Socks,     \* socket numbers
    Tracks,    \* subsessions of a file
    Moves,     \* what clients may do besides the ordinary, see AllMoves
    MaxLoops,  \* bound on nested event loops
    NULL

(* "switch": SETUP a track again, over UDP after TCP or the other way;     *)
(* "elsewhere": use a session from a connection it was not set up on;      *)
(* "dropInLoop": close a connection while its DESCRIBE is being answered.  *)
AllMoves == {"switch", "elsewhere", "dropInLoop"}

UDP == "udp"
InDesc == "descriptor"

(* The objects the server allocates.  sms: a ServerMediaSession; track: a    *)
(* struct streamState, with the Destinations and the StreamState that its  *)
(* subsession keeps for it; desc: a SocketDescriptor.                      *)
Streams == Ids \X Tracks
SmsObject   == [name : Names, refs : Nat, dwu : BOOLEAN]
TrackObject == [sub : BOOLEAN, sock : Socks \cup {NULL}, dest : Socks \cup {UDP, NULL},
                st : {"none", "ready", "playing", "paused", "ended"}]
SessObject  == [sms : Sms \cup {NULL}, home : Conns, track : [Tracks -> TrackObject]]
ConnObject  == [in : Socks \cup {NULL}, out : Socks, active : BOOLEAN]
DescObject  == [chan : SUBSET Streams, handler : Conns]

ASSUME ServerAssumption ==
    /\ IsFiniteSet(Ids)
    /\ Moves \subseteq AllMoves
    /\ MaxLoops \in Nat
    /\ NULL \notin Names \cup Sms \cup Conns \cup Socks
    /\ UDP \notin Socks \cup {NULL}
    /\ InDesc \notin Conns \cup {NULL}

ASSUME NoObject ==
    NULL \notin SmsObject \cup SessObject \cup ConnObject \cup DescObject

VARIABLES
    file,    \* [Names -> BOOLEAN]: can the file be opened
    table,   \* fServerMediaSessions
    sms,     \* the ServerMediaSession objects
    sess,    \* fClientSessions, and what the sessions hold
    conn,    \* the client connections
    open,    \* the sockets that are open
    desc,    \* the socket table of RTPInterface
    tcpdb,   \* fTCPStreamingDatabase
    reader,  \* [Socks -> ...]: the background handler of a socket
    loops    \* the DESCRIBE calls that are in an event loop, outermost first

vars == <<file, table, sms, sess, conn, open, desc, tcpdb, reader, loops>>

-----------------------------------------------------------------------------
(* What the objects are. *)

(* ServerMediaSession, ServerMediaSession.cpp. *)
NewSms(n) == [name |-> n, refs |-> 0, dwu |-> FALSE]

(* struct streamState.  sub: subsession is not NULL; sock: tcpSocketNum;    *)
(* dest: the Destinations recorded for the session; st: the StreamState    *)
(* ("none" while streamToken is NULL, "ended" once it has been reclaimed). *)
NewTrack == [sub |-> TRUE, sock |-> NULL, dest |-> NULL, st |-> "none"]

(* RTSPClientSession.  It has no stream states before its first SETUP has   *)
(* found a stream.  home is history: the connection of that SETUP.         *)
NewSession(c) ==
    [sms |-> NULL, home |-> c, track |-> [t \in Tracks |-> [NewTrack EXCEPT !.sub = FALSE]]]

NewConn(k) == [in |-> k, out |-> k, active |-> TRUE]

Init ==
    /\ file \in [Names -> BOOLEAN]
    /\ table = [n \in Names |-> NULL]
    /\ sms = [m \in Sms |-> NULL]
    /\ sess = [s \in Ids |-> NULL]
    /\ conn = [c \in Conns |-> NULL]
    /\ open = {}
    /\ desc = [k \in Socks |-> NULL]
    /\ tcpdb = [k \in Socks |-> {}]
    /\ reader = [k \in Socks |-> NULL]
    /\ loops = <<>>

(* The connection that a byte from socket k reaches: the reader of the      *)
(* socket, or the alternative byte handler of its descriptor.              *)
HandlerOf(k) ==
    IF reader[k] = InDesc
    THEN IF desc[k] = NULL THEN NULL ELSE desc[k].handler
    ELSE reader[k]

(* Whether handleRequestBytes of connection c is on the stack (its          *)
(* fRecursionCount is not zero).                                           *)
InLoop(c) == \E i \in 1..Len(loops) : loops[i].conn = c

-----------------------------------------------------------------------------
(* ServerMediaSessions. *)

(* Mutant: the object goes without a look at its reference count. *)
RemovedAtOnce(S, m) == [S EXCEPT ![m] = NULL]

(* removeServerMediaSession: the entry goes by name, the object goes when   *)
(* nobody holds it, and later otherwise.                                   *)
TableWithout(T, S, m) == [T EXCEPT ![S[m].name] = NULL]
SmsWithout(S, m) ==
    IF S[m].refs = 0 THEN [S EXCEPT ![m] = NULL] ELSE [S EXCEPT ![m].dwu = TRUE]

(* DynamicRTSPServer::lookupServerMediaSession: the outcomes, one for every *)
(* object that may be allocated.                                           *)
Lookups(n, isFirst) ==
    LET old  == table[n]
        gone == old # NULL /\ (~file[n] \/ isFirst)
        T    == IF gone THEN TableWithout(table, sms, old) ELSE table
        S    == IF gone THEN SmsWithout(sms, old) ELSE sms
    IN  IF file[n] /\ T[n] = NULL
        THEN {[table |-> [T EXCEPT ![n] = m], sms |-> [S EXCEPT ![m] = NewSms(n)], found |-> m]
                 : m \in {x \in Sms : S[x] = NULL}}
        ELSE {[table |-> T, sms |-> S, found |-> T[n]]}

(* The end of the client sessions E (~ClientSession) or of DESCRIBE calls:  *)
(* uses[m] references to m go; what is due for deletion is removed.        *)
Dropped(uses) ==
    [m \in Sms |-> IF sms[m] = NULL THEN NULL
                   ELSE [sms[m] EXCEPT !.refs = IF @ > uses[m] THEN @ - uses[m] ELSE 0]]
Due(uses) ==
    {m \in Sms : /\ sms[m] # NULL /\ uses[m] > 0
                 /\ Dropped(uses)[m].refs = 0 /\ sms[m].dwu}
Release(uses) ==
    /\ sms' = [m \in Sms |-> IF m \in Due(uses) THEN NULL ELSE Dropped(uses)[m]]
    /\ table' = [n \in Names |-> IF \E m \in Due(uses) : sms[m].name = n THEN NULL ELSE table[n]]

UsesOf(E) == [m \in Sms |-> Cardinality({s \in E : sess[s].sms = m})]

-----------------------------------------------------------------------------
(* Streams over TCP. *)

(* Mutant: a descriptor without channels stays. *)
DescEmptied(D) ==
    [k \in Socks |-> IF desc[k] = NULL THEN NULL ELSE [desc[k] EXCEPT !.chan = @ \ D]]

(* deregisterRTPInterface for the streams D: a descriptor without channels  *)
(* is deleted; it tells its handler, which takes the reading back.         *)
DescWithout(D) ==
    [k \in Socks |-> IF desc[k] = NULL \/ desc[k].chan \subseteq D THEN NULL
                     ELSE [desc[k] EXCEPT !.chan = @ \ D]]
Freed(D) == {k \in Socks : desc[k] # NULL /\ DescWithout(D)[k] = NULL}
HandedBack(D) == {desc[k].handler : k \in Freed(D)}

(* Mutant: the handler is not told that the descriptor has gone. *)
ReaderLost(D) == [k \in Socks |-> IF k \in Freed(D) THEN NULL ELSE reader[k]]

ReaderWithout(D) ==
    [k \in Socks |->
        IF \E c \in HandedBack(D) : conn[c] # NULL /\ conn[c].in = k
        THEN CHOOSE c \in HandedBack(D) : conn[c] # NULL /\ conn[c].in = k
        ELSE IF k \in Freed(D) THEN NULL ELSE reader[k]]

(* Mutant: the database keeps the streams that were torn down. *)
StillNoted(D) == tcpdb

(* unnoteTCPStreamingOnSocket for the streams D, each on the socket that    *)
(* its session remembers.                                                  *)
Unnoted(D) == [k \in Socks |-> tcpdb[k] \ {x \in D : sess[x[1]].track[x[2]].sock = k}]

(* deleteStream, and the subsession pointer set to NULL. *)
Deleted(track, T) ==
    [t \in Tracks |-> IF t \in T THEN [track[t] EXCEPT !.sub = FALSE, !.dest = NULL, !.st = "none"]
                      ELSE track[t]]
NoTrackLeft(track) == \A t \in Tracks : ~track[t].sub

LiveTracks(s) == {t \in Tracks : sess[s].track[t].sub}

-----------------------------------------------------------------------------
(* Connections. *)

(* incomingConnectionHandlerOnSocket; a socket number is used again. *)
Accept(c, k) ==
    /\ conn[c] = NULL /\ k \notin open
    /\ conn' = [conn EXCEPT ![c] = NewConn(k)]
    /\ open' = open \cup {k}
    /\ reader' = [reader EXCEPT ![k] = c]
    /\ UNCHANGED <<file, table, sms, sess, desc, tcpdb, loops>>

(* ~RTSPClientConnection: stopTCPStreamingOnSocket deletes the streams that *)
(* run over the output socket, and the sessions left without any; then the *)
(* sockets are closed.  released[m] more references go in the same step.   *)
DeleteConn(c, released) ==
    LET k     == conn[c].out
        D     == tcpdb[k]
        ended == {s \in Ids : /\ sess[s] # NULL /\ \E x \in D : x[1] = s
                              /\ \A t \in LiveTracks(s) : <<s, t>> \in D}
        mine  == {conn[c].in, k}
    IN  /\ sess' = [s \in Ids |->
                      IF s \in ended THEN NULL
                      ELSE IF sess[s] = NULL THEN NULL
                      ELSE [sess[s] EXCEPT !.track = Deleted(@, {t \in Tracks : <<s, t>> \in D})]]
        /\ Release([m \in Sms |-> UsesOf(ended)[m] + released[m]])
        /\ desc' = DescWithout(D)
        /\ reader' = [j \in Socks |-> IF j \in mine THEN NULL ELSE ReaderWithout(D)[j]]
        /\ tcpdb' = [tcpdb EXCEPT ![k] = {}]
        /\ open' = open \ mine
        /\ conn' = [conn EXCEPT ![c] = NULL]

NoUses == [m \in Sms |-> 0]

(* The client closed its end of socket k, or reading failed: the reader of  *)
(* the socket, or the descriptor's handler, gets -1 bytes.  A connection   *)
(* that is in a nested loop only closes its socket.                        *)
ReadError(k) ==
    LET c == HandlerOf(k) IN
    /\ k \in open /\ c # NULL /\ conn[c] # NULL /\ conn[c].active
    /\ IF InLoop(c)
       THEN /\ "dropInLoop" \in Moves
            /\ conn' = [conn EXCEPT ![c].in = NULL, ![c].active = FALSE]
            /\ open' = open \ {conn[c].in}
            /\ desc' = [desc EXCEPT ![k] = NULL]
            /\ reader' = [reader EXCEPT ![k] = NULL]
            /\ UNCHANGED <<table, sms, sess, tcpdb>>
       ELSE DeleteConn(c, NoUses)
    /\ UNCHANGED <<file, loops>>

-----------------------------------------------------------------------------
(* Requests.  A request comes over socket k and is handled by c; a client   *)
(* waits for the answer of its DESCRIBE before it asks for anything else.  *)

Reaches(k, c) ==
    /\ k \in open /\ c = HandlerOf(k)
    /\ c # NULL /\ conn[c] # NULL /\ conn[c].active /\ ~InLoop(c)

(* handleCmd_DESCRIBE up to the event loop that waits for the SDP.  The     *)
(* connection carries no media: inside the loop a descriptor would put off *)
(* its own deletion until the outer read handler has returned.             *)
Describe(k, n) == \E c \in Conns :
    /\ reader[k] = c /\ Reaches(k, c) /\ Len(loops) < MaxLoops
    /\ \E l \in Lookups(n, TRUE) :
         /\ table' = l.table
         /\ IF l.found = NULL THEN sms' = l.sms /\ UNCHANGED loops
            ELSE /\ sms' = [l.sms EXCEPT ![l.found].refs = @ + 1]
                 /\ loops' = Append(loops, [conn |-> c, sms |-> l.found])
    /\ UNCHANGED <<file, sess, conn, open, desc, tcpdb, reader>>

(* The rest of handleCmd_DESCRIBE, with or without an SDP, and the end of   *)
(* handleRequestBytes.  Only the innermost loop can end.                   *)
DescribeEnd ==
    LET top  == loops[Len(loops)]
        rest == SubSeq(loops, 1, Len(loops) - 1)
        uses == [NoUses EXCEPT ![top.sms] = 1]
    IN  /\ loops # <<>>
        /\ loops' = rest
        /\ IF ~conn[top.conn].active /\ \A i \in 1..Len(rest) : rest[i].conn # top.conn
           THEN DeleteConn(top.conn, uses)
           ELSE Release(uses) /\ UNCHANGED <<sess, conn, open, desc, tcpdb, reader>>
        /\ UNCHANGED <<file>>

(* handleCmd_SETUP of track t of stream n, in a new session or an old one. *)
SetUp(k, s, n, t, mode) == \E c \in Conns :
    LET isNew == sess[s] = NULL
        old   == IF isNew THEN NewSession(c) ELSE sess[s]
        had   == old.track[t]
    IN
    /\ Reaches(k, c)
    /\ isNew \/ (old.sms # NULL /\ (old.home = c \/ "elsewhere" \in Moves))
    /\ \E l \in Lookups(n, isNew) :
         /\ table' = l.table
         /\ IF l.found = NULL \/ (~isNew /\ l.found # old.sms)
            THEN \* not found, or "bad": not the stream of this session
                 /\ sms' = l.sms
                 /\ sess' = [sess EXCEPT ![s] = old]
                 /\ UNCHANGED <<desc, tcpdb, reader>>
            ELSE /\ sms' = IF isNew THEN [l.sms EXCEPT ![l.found].refs = @ + 1] ELSE l.sms
                 /\ IF ~isNew /\ ~had.sub
                    THEN UNCHANGED <<sess, desc, tcpdb, reader>>    \* no such track any more
                    ELSE LET again == had.st # "none"
                             D     == IF again THEN {<<s, t>>} ELSE {}
                             sock  == IF mode = "tcp" THEN conn[c].out ELSE had.sock
                             T     == IF isNew THEN [x \in Tracks |-> NewTrack] ELSE old.track
                         IN  /\ (again /\ "switch" \notin Moves) => ((mode = "tcp") <=> (had.sock # NULL))
                             /\ sess' = [sess EXCEPT ![s] =
                                   [old EXCEPT !.sms = l.found,
                                               !.track = [T EXCEPT ![t] =
                                                  [sub |-> TRUE, sock |-> sock, st |-> "ready",
                                                   dest |-> IF sock = NULL THEN UDP ELSE sock]]]]
                             /\ tcpdb' = [j \in Socks |->
                                   (tcpdb[j] \ (IF j = had.sock THEN D ELSE {}))
                                     \cup (IF mode = "tcp" /\ j = sock THEN {<<s, t>>} ELSE {})]
                             /\ desc' = DescWithout(D)
                             /\ reader' = ReaderWithout(D)
    /\ UNCHANGED <<file, conn, open, loops>>

(* A request within a session: on the whole stream, or on one track. *)
InSession(k, c, s, T) ==
    /\ Reaches(k, c)
    /\ sess[s] # NULL /\ sess[s].sms # NULL
    /\ sess[s].home = c \/ "elsewhere" \in Moves
    /\ T = Tracks \/ \E t \in Tracks : T = {t}

(* handleCmd_PLAY, StreamState::startPlaying: streams over TCP register     *)
(* with the descriptor of their socket, which then reads it, and hand the  *)
(* bytes between packets to the connection that sent this PLAY.            *)
Play(k, s, T) == \E c \in Conns :
    LET can == {t \in T : sess[s].track[t].sub /\ sess[s].track[t].st \in {"ready", "paused", "playing"}}
        On(j) == {<<s, t>> : t \in {x \in can : sess[s].track[x].dest = j}}
    IN
    /\ InSession(k, c, s, T)
    /\ sess' = [sess EXCEPT ![s].track =
                  [t \in Tracks |-> IF t \in can THEN [@[t] EXCEPT !.st = "playing"] ELSE @[t]]]
    /\ desc' = [j \in Socks |->
                  IF On(j) = {} THEN desc[j]
                  ELSE [chan |-> On(j) \cup (IF desc[j] = NULL THEN {} ELSE desc[j].chan),
                        handler |-> c]]
    /\ reader' = [j \in Socks |-> IF On(j) # {} /\ desc[j] = NULL THEN InDesc ELSE reader[j]]
    /\ UNCHANGED <<file, table, sms, conn, open, tcpdb, loops>>

(* handleCmd_PAUSE. *)
Pause(k, s, T) == \E c \in Conns :
    /\ InSession(k, c, s, T)
    /\ sess' = [sess EXCEPT ![s].track =
                  [t \in Tracks |-> IF t \in T /\ @[t].st = "playing"
                                    THEN [@[t] EXCEPT !.st = "paused"] ELSE @[t]]]
    /\ UNCHANGED <<file, table, sms, conn, open, desc, tcpdb, reader, loops>>

(* The streams of the tracks T of session s are deleted; the session too,   *)
(* when it has no other (handleCmd_TEARDOWN), or anyway.                   *)
EndStreams(s, T, anyway) ==
    LET D    == {<<s, t>> : t \in T \cap LiveTracks(s)}
        left == Deleted(sess[s].track, T)
        E    == IF anyway \/ NoTrackLeft(left) THEN {s} ELSE {}
    IN  /\ sess' = [sess EXCEPT ![s] = IF E # {} THEN NULL ELSE [@ EXCEPT !.track = left]]
        /\ Release(UsesOf(E))
        /\ desc' = DescWithout(D)
        /\ reader' = ReaderWithout(D)
        /\ tcpdb' = Unnoted(D)

TearDown(k, s, T) == \E c \in Conns :
    /\ InSession(k, c, s, T)
    /\ EndStreams(s, T, FALSE)
    /\ UNCHANGED <<file, conn, open, loops>>

-----------------------------------------------------------------------------
(* What happens without a request. *)

(* livenessTimeoutTask: no request and no receiver report for a while. *)
Timeout(s) ==
    /\ sess[s] # NULL
    /\ EndStreams(s, Tracks, TRUE)
    /\ UNCHANGED <<file, conn, open, loops>>

(* afterPlayingStreamState: the file has no more data; the sink and its     *)
(* interface are closed, the StreamState stays.                            *)
StreamEnds(s, t) ==
    /\ sess[s] # NULL /\ sess[s].track[t].st = "playing"
    /\ sess' = [sess EXCEPT ![s].track[t].st = "ended"]
    /\ desc' = DescWithout({<<s, t>>})
    /\ reader' = ReaderWithout({<<s, t>>})
    /\ UNCHANGED <<file, table, sms, conn, open, tcpdb, loops>>

(* sendDataOverTCP fails on socket k: removeStreamSocket(k, 0xFF) deletes   *)
(* the whole descriptor.                                                   *)
SendFails(k) ==
    /\ desc[k] # NULL
    /\ \E x \in desc[k].chan : sess[x[1]] # NULL /\ sess[x[1]].track[x[2]].st = "playing"
    /\ desc' = [desc EXCEPT ![k] = NULL]
    /\ reader' = LET h == desc[k].handler IN
                 [j \in Socks |-> IF conn[h] # NULL /\ conn[h].in = j THEN h
                                  ELSE IF j = k THEN NULL ELSE reader[j]]
    /\ UNCHANGED <<file, table, sms, sess, conn, open, tcpdb, loops>>

(* Files come and go. *)
FileChanges(n) ==
    /\ file' = [file EXCEPT ![n] = ~@]
    /\ UNCHANGED <<table, sms, sess, conn, open, desc, tcpdb, reader, loops>>

Request ==
    \/ \E k \in Socks, n \in Names : Describe(k, n)
    \/ \E k \in Socks, s \in Ids, n \in Names, t \in Tracks, mode \in {"tcp", UDP} :
          SetUp(k, s, n, t, mode)
    \/ \E k \in Socks, s \in Ids : \E T \in {Tracks} \cup {{t} : t \in Tracks} :
          Play(k, s, T) \/ Pause(k, s, T) \/ TearDown(k, s, T)

Next ==
    \/ Request
    \/ DescribeEnd
    \/ \E c \in Conns, k \in Socks : Accept(c, k)
    \/ \E k \in Socks : ReadError(k) \/ SendFails(k)
    \/ \E s \in Ids : Timeout(s) \/ \E t \in Tracks : StreamEnds(s, t)
    \/ \E n \in Names : FileChanges(n)

Spec == Init /\ [][Next]_vars

-----------------------------------------------------------------------------
(* Properties. *)

(* Types of everything the server keeps. *)
TypeOK ==
    /\ file \in [Names -> BOOLEAN]
    /\ table \in [Names -> Sms \cup {NULL}]
    /\ sms \in [Sms -> SmsObject \cup {NULL}]
    /\ sess \in [Ids -> SessObject \cup {NULL}]
    /\ conn \in [Conns -> ConnObject \cup {NULL}]
    /\ open \subseteq Socks
    /\ desc \in [Socks -> DescObject \cup {NULL}]
    /\ tcpdb \in [Socks -> SUBSET Streams]
    /\ reader \in [Socks -> Conns \cup {InDesc, NULL}]
    /\ loops \in Seq([conn : Conns, sms : Sms])

(* Who holds a ServerMediaSession: client sessions, and DESCRIBE calls that *)
(* are waiting in an event loop.                                           *)
SessionsOf(m) == {s \in Ids : sess[s] # NULL /\ sess[s].sms = m}
CallsOf(m)    == {i \in 1..Len(loops) : loops[i].sms = m}
Holders(m)    == Cardinality(SessionsOf(m)) + Cardinality(CallsOf(m))

(* No ServerMediaSession is deleted while a client session, a waiting       *)
(* DESCRIBE or the table still points to it, whatever clients, timeouts    *)
(* and nested loops do: its count is the number of its holders             *)
(* (GenericMediaServer.cpp:46-55, :265-285, RTSPServer.cpp:338-373).       *)
NoDanglingSession ==
    /\ \A n \in Names : table[n] # NULL => sms[table[n]] # NULL /\ sms[table[n]].name = n
    /\ \A m \in Sms : sms[m] = NULL => Holders(m) = 0
    /\ \A m \in Sms : sms[m] # NULL => sms[m].refs = Holders(m)

(* The database of streams over TCP is exact: a stream that a client's      *)
(* SETUP put on a socket is recorded under that socket while it is open,   *)
(* and nothing else is (RTSPServer.cpp:200-265, :1317-1370).  So closing a *)
(* connection ends its streams and no other's.                             *)
TcpStreamsKnown ==
    \A s \in Ids, t \in Tracks, k \in Socks :
        (<<s, t>> \in tcpdb[k]) <=>
            (sess[s] # NULL /\ sess[s].track[t].sub /\ sess[s].track[t].dest = k /\ k \in open)

(* A descriptor belongs to an open socket, and its channels to streams that *)
(* exist: nothing is sent to, or read from, a socket that was closed or    *)
(* belongs to another client (RTPInterface.cpp:398-470).                   *)
DescriptorsLive ==
    \A k \in Socks : desc[k] # NULL =>
        /\ k \in open
        /\ desc[k].chan # {}
        /\ desc[k].chan \subseteq tcpdb[k]

(* A connection is never deaf: while it exists, a request that its client   *)
(* sends reaches it, also before, while and after media is interleaved on  *)
(* its socket (RTPInterface.cpp:422-428, RTSPServer.cpp:591-605).          *)
NeverDeaf ==
    \A c \in Conns : conn[c] # NULL /\ conn[c].active =>
        /\ conn[c].in \in open
        /\ HandlerOf(conn[c].in) = c
        /\ \A d \in Conns \ {c} : conn[d] # NULL => conn[d].in # conn[c].in
=============================================================================
