----------------------------- MODULE RtspSession -----------------------------
(***************************************************************************)
(* How the RTSP client sets up its session (mt_rtsp::rtsp_loop of           *)
(* src/projects/RTSPClient2/MTRtsp.cpp, lines 500-533, and its commands):   *)
(* OPTIONS, DESCRIBE, SETUP and PLAY over one TCP connection, each one send *)
(* and one recv.  A recv returns what has come, so it may bring a part of   *)
(* an answer, the rest of an earlier one, or the first bytes of the stream  *)
(* behind the answer; the client looks at the first bytes for the status    *)
(* and searches the rest for the words it wants.                            *)
(*                                                                         *)
(* The stream is a sequence of pieces: the status line of an answer, its    *)
(* headers, and of DESCRIBE's answer the SDP, up to and behind the key      *)
(* "sprop-parameter-sets"; then the frames of the media, of two pieces.     *)
(* Interleave is what follows: the reader of the frames.                    *)
(***************************************************************************)
EXTENDS Integers, Sequences

CONSTANTS
  Kinds,        \* the answers the server may give, see AllKinds
  SessionFrames \* bound on the frames of the session

Commands == <<"OPTIONS", "DESCRIBE", "SETUP", "PLAY">>

(* An answer refuses, or is complete.  DESCRIBE's may lack the sets (no H.264 *)
(* in the SDP); SETUP's may lack the Transport or the Session header, or    *)
(* have a session id that no ";" follows.                                   *)
AllKinds == {"refused", "full", "noSets", "noTransport", "noSession", "noSemicolon"}

ASSUME SessionAssumption == Kinds \subseteq AllKinds /\ SessionFrames \in Nat

Pieces == {"line", "headers", "sdp", "sets", "rest", "head", "data"}
Piece == [of : 1..4, part : Pieces, kind : AllKinds]
Request == [cmd : 1..4, id : {"none", "given"}]

VARIABLES
  at,       \* the command the client is at, 5 when it reads frames
  stage,    \* "send", "recv"; or "stream", "stopped", "crashed"
  cseq,     \* rtsp_cseq
  params,   \* whether DESCRIBE has stored the parameter sets
  id,       \* session_id: "none" before SETUP has stored one, or "given"
  asked,    \* requests the server has not read yet
  net,      \* bytes sent by the server and not yet received
  closed,   \* the server has closed the connection
  playing,  \* the server has accepted PLAY
  frames,   \* frames sent
  cut       \* a recv took a part of an answer or a frame (history)

session_vars == <<at, stage, cseq, params, id, asked, net, closed, playing, frames, cut>>
server == <<closed, playing, frames>>

\* What the client keeps, and what is on the way.
SessionTypeOK ==
  /\ at \in 1..5 /\ stage \in {"send", "recv", "stream", "stopped", "crashed"}
  /\ cseq \in 0..4 /\ params \in BOOLEAN /\ id \in {"none", "given"}
  /\ asked \in Seq(Request)
  /\ net \in Seq(Piece)
  /\ closed \in BOOLEAN /\ playing \in BOOLEAN /\ frames \in 0..SessionFrames
  /\ cut \in BOOLEAN

SessionInit ==
  /\ at = 1 /\ stage = "send" /\ cseq = 0 /\ params = FALSE /\ id = "none"
  /\ asked = <<>> /\ net = <<>> /\ closed = FALSE /\ playing = FALSE /\ frames = 0
  /\ cut = FALSE

-----------------------------------------------------------------------------
(* The server.                                                              *)

KindsOf(cmd) ==
  CASE Commands[cmd] = "DESCRIBE" -> Kinds \cap {"refused", "full", "noSets"}
    [] Commands[cmd] = "SETUP" -> Kinds \ {"noSets"}
    [] OTHER -> Kinds \cap {"refused", "full"}

PartsOf(cmd, kind) ==
  IF Commands[cmd] # "DESCRIBE" \/ kind = "refused" THEN <<"line", "headers">>
  ELSE IF kind = "full" THEN <<"line", "headers", "sets", "rest">>
  ELSE <<"line", "headers", "sdp">>

AnswerTo(cmd, kind) ==
  [i \in 1..Len(PartsOf(cmd, kind)) |-> [of |-> cmd, part |-> PartsOf(cmd, kind)[i], kind |-> kind]]

\* The next request is answered.  PLAY needs the id of a session.
Answer ==
  /\ asked # <<>> /\ ~closed
  /\ \E kind \in KindsOf(Head(asked).cmd) :
       /\ Head(asked).cmd = 4 /\ Head(asked).id = "none" => kind = "refused"
       /\ net' = net \o AnswerTo(Head(asked).cmd, kind)
       /\ playing' = (Head(asked).cmd = 4 /\ kind = "full")
  /\ asked' = Tail(asked)
  /\ UNCHANGED <<at, stage, cseq, params, id, closed, frames, cut>>

MediaFrame == <<[of |-> 4, part |-> "head", kind |-> "full"], [of |-> 4, part |-> "data", kind |-> "full"]>>

SendFrame ==
  /\ playing /\ ~closed /\ frames < SessionFrames
  /\ frames' = frames + 1
  /\ net' = net \o MediaFrame
  /\ UNCHANGED <<at, stage, cseq, params, id, asked, closed, playing, cut>>

Close ==
  /\ ~closed /\ closed' = TRUE
  /\ UNCHANGED <<at, stage, cseq, params, id, asked, net, playing, frames, cut>>

-----------------------------------------------------------------------------
(* What the client makes of the bytes of one recv.                          *)

\* rtsp_response_status
Accepted(got) == got[1].part = "line" /\ got[1].kind # "refused"

\* The position of the first blank line, which ends the headers of an answer.
Blank(got) == {i \in 1..Len(got) : got[i].part = "headers"}
FirstBlank(got) == CHOOSE i \in Blank(got) : \A j \in Blank(got) : i <= j

\* Whether the SDP, which is what follows the first blank line, has the sets.
HasSets(got) == \E i \in 1..Len(got) : got[i].part = "sets" /\ i > FirstBlank(got)

\* The line of the sets ends with the piece after them.
SetsEnd(got) == \E i \in 1..Len(got) : got[i].part = "rest"

(* What each command returns and stores.  A command that returns early has   *)
(* not counted its request.                                                 *)
Failed == [ret |-> -1, counted |-> 1, params |-> params, id |-> id]
Done   == [Failed EXCEPT !.ret = 0]

Options(got) == IF Accepted(got) THEN Done ELSE Failed

\* Without an SDP, or without the sets, the result is 0 whatever the status was.
Describe(got) ==
  IF Blank(got) = {} \/ ~HasSets(got) THEN Done
  ELSE IF ~SetsEnd(got) THEN Failed
  ELSE [Done EXCEPT !.params = TRUE, !.ret = IF Accepted(got) THEN 0 ELSE -1]

Has(got, kinds) == \E i \in 1..Len(got) : got[i].of = 3 /\ got[i].part = "headers" /\ got[i].kind \in kinds

SetUp(got) ==
  IF ~Accepted(got) \/ ~Has(got, {"full", "noSession", "noSemicolon"})
       \/ ~Has(got, {"full", "noTransport", "noSemicolon"})
  THEN [Failed EXCEPT !.counted = 0]
  ELSE [Done EXCEPT !.id = "given"]

Play(got) == IF Accepted(got) THEN Done ELSE Failed

Outcome(got) ==
  CASE Commands[at] = "OPTIONS"  -> Options(got)
    [] Commands[at] = "DESCRIBE" -> Describe(got)
    [] Commands[at] = "SETUP"    -> SetUp(got)
    [] Commands[at] = "PLAY"     -> Play(got)

\* The copy of a session id that no ";" follows runs away.
RunsAway(got) ==
  Commands[at] = "SETUP" /\ Accepted(got) /\ Has(got, {"noSemicolon"})

\* The results of OPTIONS and DESCRIBE are looked at, those of SETUP and PLAY are not.
Checked == Commands[at] \in {"OPTIONS", "DESCRIBE"}

-----------------------------------------------------------------------------
(* The client.                                                              *)

SendRequest ==
  /\ stage = "send"
  /\ asked' = Append(asked, [cmd |-> at, id |-> id])
  /\ stage' = "recv"
  /\ UNCHANGED <<at, cseq, params, id, net, server, cut>>

\* After PLAY the sets are decoded, from wherever params points to, the dump
\* file is written and the streamer is started, which may fail.
Started == IF params THEN {"stream", "stopped"} ELSE {"stream", "stopped", "crashed"}

\* A recv ends in the middle of an answer or of a frame.
Cuts(n) == n < Len(net) /\ net[n + 1].part \notin {"line", "head"}

\* Mutant: a recv waits for the end of an SDP, as one with MSG_WAITALL would.
WaitsForSets(got) == Commands[at] = "DESCRIBE" => SetsEnd(got)
Returns(got) == TRUE

\* Mutant: a recv with MSG_PEEK leaves the bytes it returns.
Peeked(n) == net
Left(n) == SubSeq(net, n + 1, Len(net))

RecvAnswer ==
  /\ stage = "recv"
  /\ \E n \in 1..Len(net) :
       LET got == SubSeq(net, 1, n)
           out == Outcome(got)
       IN  /\ Returns(got)
           /\ net' = Left(n)
           /\ cut' = (cut \/ Cuts(n))
           /\ IF RunsAway(got)
              THEN stage' = "crashed" /\ UNCHANGED <<at, cseq, params, id>>
              ELSE /\ cseq' = cseq + out.counted
                   /\ params' = out.params
                   /\ id' = out.id
                   /\ IF Checked /\ out.ret # 0 THEN stage' = "stopped" /\ UNCHANGED at
                      ELSE /\ at' = at + 1
                           /\ stage' \in IF at = 4 THEN Started ELSE {"send"}
  /\ UNCHANGED <<asked, server>>

\* recv gives nothing: the server has closed.
ServerGone ==
  /\ stage = "recv" /\ net = <<>> /\ closed
  /\ stage' = "stopped"
  /\ UNCHANGED <<at, cseq, params, id, asked, net, server, cut>>

Client == SendRequest \/ RecvAnswer \/ ServerGone

SessionNext == Client \/ Answer \/ SendFrame \/ Close

SessionSpec == SessionInit /\ [][SessionNext]_session_vars

\* The client runs on; the server answers what it is asked, or closes.
SessionFairSpec == SessionSpec /\ WF_session_vars(Client) /\ WF_session_vars(Answer)

-----------------------------------------------------------------------------
\* Lines 143-446: the client never compares a CSeq, and yet, as long as no recv
\* has split an answer or a frame, the status it looks at is that of the request
\* it has just sent, nothing is left over when it sends the next, and the reader
\* of frames starts where a frame begins, whatever the server refuses.
InStep ==
  SessionTypeOK /\ (~cut =>
    /\ stage = "send" => asked = <<>> /\ net = <<>>
    /\ stage = "recv" => (\A i \in 1..Len(asked) : asked[i].cmd = at) /\ (\A i \in 1..Len(net) : net[i].of = at)
    /\ stage \in {"recv", "stream"} /\ net # <<>> => net[1].part \in {"line", "head"})

\* Lines 143-436, before the socket has a timeout: when the server answers each
\* request or closes, no recv waits for ever, although a recv may have taken what
\* a later one is for.
Progress == <>(stage \in {"stream", "stopped", "crashed"})
=============================================================================
