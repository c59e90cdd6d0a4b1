------------------------------ MODULE RtspClient ------------------------------
(***************************************************************************)
(* The client of live555 (liveMedia/RTSPClient.cpp), with which openRTSP     *)
(* sends its requests: it opens a connection when a request needs one, sets  *)
(* up a tunnel over HTTP when it is asked to, keeps the requests in three    *)
(* queues, matches the responses with them by their CSeq, sends requests     *)
(* again that were redirected or refused for want of authorization, and      *)
(* calls the response handlers.                                             *)
(*                                                                         *)
(* All of it runs in one thread.  A handler may send requests, and may run   *)
(* the event loop: frames is the stack of what is under way, innermost       *)
(* first.  A response is a header and perhaps a body, which TCP may split;   *)
(* of its headers only those are kept that change what the client does.      *)
(* The server answers in the order in which it is asked.                    *)
(***************************************************************************)
EXTENDS Integers, Sequences, FiniteSets, FiniteSetsExt

CONSTANTS
  MaxRequests,  \* how many requests the program makes
  Tunnels,      \* the values of "is fTunnelOverHTTPPortNum set"
  MaxOdd,       \* how often the server does something of Odd
  Odd,          \* what the server does besides answering, see AllOdd
  MaxFrames,    \* bound on the stack: loops within loops
  MaxGets       \* bound on the GETs that await their response

(* "again": 401, and the client has what it takes; "moved": 301 or 302; "bad": *)
(* 200 with headers the client cannot use; "skip": no answer to one request;   *)
(* "ask": a request of its own; "close": Connection: Close.                 *)
AllOdd == {"again", "moved", "bad", "skip", "ask", "close"}

ASSUME ClientAssumption ==
  /\ MaxRequests \in Nat /\ MaxOdd \in Nat /\ MaxFrames \in Nat /\ MaxGets \in Nat
  /\ Tunnels \subseteq BOOLEAN /\ Odd \subseteq AllOdd

Requests == 1..MaxRequests
HTTP == 0  \* stands for the client's own GET

VARIABLES
  tunnel,      \* fTunnelOverHTTPPortNum is set
  fCSeq,
  in, out,     \* fInputSocketNum, fOutputSocketNum: 0 is none, 2 the tunnel's second one
  connecting,  \* the socket whose connection is pending
  tunneling,   \* fHTTPTunnelingConnectionIsPending
  conn,        \* fRequestsAwaitingConnection
  tun,         \* fRequestsAwaitingHTTPTunneling
  resp,        \* fRequestsAwaitingResponse
  buffer,      \* fResponseBuffer
  frames,      \* what is under way
  asked,       \* the requests on their way to the server
  wire,        \* what is on the way to the client
  closed,      \* the server has closed the connection
  odd,         \* how often the server may still do something of Odd
  sent,        \* history: the requests made
  answered,    \* history: what the server has answered to them, or "skip"
  told,        \* history: what their handlers were told
  forgot,      \* history: one of the branches was taken that lose requests
  astray       \* history: a response was taken for another request's

socks == <<in, out, connecting, asked, wire, closed>>
queues == <<conn, tun, resp>>
history == <<sent, answered, told>>
flaws == <<forgot, astray>>
vars == <<tunnel, fCSeq, socks, tunneling, queues, buffer, frames, odd, history, flaws>>

Record == [id : {HTTP} \cup Requests, cseq : Nat]
GET == [id |-> HTTP, cseq |-> 1]
Head1(kind, r, close, body) ==
  [what |-> kind, id |-> r.id, cseq |-> IF r.id = HTTP THEN 0 ELSE r.cseq,
   close |-> close, body |-> body]
Body == [what |-> "body"]
Ask == [what |-> "ask"]
IsHead(b) == b.what \notin {"body", "ask"}

(* The frames: loops that send or tell a list of requests, a handler that is *)
(* about to be called, one that is running, and the parsing of the buffer,   *)
(* where extra is numExtraBytesAfterResponse of the response before.        *)
Resume(todo) == [k |-> "resume", todo |-> todo]
TellAll(todo) == [k |-> "tell", todo |-> todo]
Drain == [k |-> "drain"]
Parse(extra) == [k |-> "parse", extra |-> extra]
Resend(r) == [k |-> "resend", todo |-> <<r>>]
Call(r, how) == [k |-> "call", todo |-> <<r>>, how |-> how]
Handler == [k |-> "handler"]

Ids(q) == {q[i].id : i \in 1..Len(q)} \ {HTTP}

Init ==
  /\ tunnel \in Tunnels
  /\ fCSeq = 1
  /\ in = 0 /\ out = 0 /\ connecting = 0 /\ tunneling = FALSE
  /\ conn = <<>> /\ tun = <<>> /\ resp = <<>>
  /\ buffer = <<>> /\ frames = <<>>
  /\ asked = <<>> /\ wire = <<>> /\ closed = FALSE /\ odd = MaxOdd
  /\ sent = {}
  /\ answered = [r \in Requests |-> "none"]
  /\ told = [r \in Requests |-> <<>>]
  /\ forgot = FALSE /\ astray = FALSE

Top(k) == frames # <<>> /\ Head(frames).k = k
Below == Tail(frames)

\* The event loop may run: nothing is under way, or a handler runs it.
InLoop == frames = <<>> \/ (Top("handler") /\ Len(frames) < MaxFrames)

-----------------------------------------------------------------------------
(* Sockets.                                                                 *)

\* resetTCPSockets.  Whoever still waits for a connection or a response on these
\* sockets, and is not told, is forgotten.
ResetSockets ==
  /\ in' = 0 /\ out' = 0 /\ connecting' = 0
  /\ asked' = <<>> /\ wire' = <<>> /\ closed' = FALSE
Forget(lost) == forgot' = (forgot \/ conn' # <<>> \/ resp' # <<>> \/ lost # <<>>)
ForgetThem == Forget(<<>>) /\ UNCHANGED astray

\* The request is sent: the server will see it.
Transmit(r) == asked' = Append(asked, r) /\ resp' = Append(resp, r)

-----------------------------------------------------------------------------
(* sendRequest.  t is fRequestsAwaitingHTTPTunneling, rest what goes on      *)
(* afterwards.                                                              *)

Fail(r, t, rest) ==
  /\ frames' = <<Call(r, "error")>> \o rest
  /\ tun' = t

\* A connection is pending already.
Enqueue(r, t, rest) ==
  /\ conn # <<>>
  /\ conn' = Append(conn, r) /\ tun' = t
  /\ frames' = rest
  /\ UNCHANGED <<socks, tunneling, resp, flaws>>

\* openConnection: it fails, or the connection is pending, ...
Open(r, t, rest) ==
  /\ conn = <<>> /\ in = 0
  /\ \/ /\ Fail(r, t, rest)
        /\ UNCHANGED <<socks, conn>>
     \/ /\ in' = 1 /\ out' = 1 /\ connecting' = 1
        /\ conn' = <<r>> /\ tun' = t
        /\ frames' = rest
        /\ UNCHANGED <<asked, wire, closed>>
  /\ UNCHANGED <<tunneling, resp, flaws>>

\* ... or it is there at once.
Opened ==
  /\ conn = <<>>
  /\ in' = (IF in = 0 THEN 1 ELSE in) /\ out' = (IF in = 0 THEN 1 ELSE out)
  /\ UNCHANGED <<connecting, wire, closed, conn>>

NeedsTunnel(r) == tunnel /\ r.id # HTTP /\ out' = in'

\* setupHTTPTunneling1: the GET is sent first.  When it cannot be sent, its own
\* handler (responseHandlerForHTTP_GET1) tells those that wait for the tunnel.
Tunnel(r, t, rest) ==
  /\ Opened /\ NeedsTunnel(r)
  /\ Quantify(1..Len(resp), LAMBDA i : resp[i].id = HTTP) < MaxGets
  /\ Transmit(GET) /\ tun' = Append(t, r)
  /\ frames' = rest
  /\ UNCHANGED <<tunneling, flaws>>

TunnelFails(r, t, rest) ==
  /\ conn = <<>> /\ conn' = conn
  /\ tunnel /\ r.id # HTTP /\ out = in
  /\ frames' = <<TellAll(t), Call(r, "error")>> \o rest
  /\ tun' = <<>> /\ resp' = resp
  /\ ResetSockets /\ tunneling' = FALSE /\ ForgetThem

\* The command is constructed and sent, or cannot be: there is no session, or
\* the socket does not take it.
Emit(r, t, rest) ==
  /\ Opened /\ ~NeedsTunnel(r)
  /\ \/ Transmit(r) /\ frames' = rest /\ tun' = t
     \/ Fail(r, t, rest) /\ UNCHANGED <<asked, resp>>
  /\ UNCHANGED <<tunneling, flaws>>

SendRequest(r, t, rest) ==
  \/ Enqueue(r, t, rest) \/ Open(r, t, rest)
  \/ Tunnel(r, t, rest) \/ TunnelFails(r, t, rest)
  \/ Emit(r, t, rest)

-----------------------------------------------------------------------------
(* The program: it makes its requests in handlers and out of timers, and its *)
(* handlers return.                                                         *)

Make(r) ==
  /\ frames = <<>> \/ Top("handler")
  /\ r = Cardinality(sent) + 1
  /\ fCSeq' = fCSeq + 1
  /\ SendRequest([id |-> r, cseq |-> fCSeq + 1], tun, frames)
  /\ sent' = sent \cup {r}
  /\ UNCHANGED <<tunnel, buffer, odd, answered, told>>

Return ==
  /\ Top("handler")
  /\ frames' = Below
  /\ UNCHANGED <<tunnel, fCSeq, socks, tunneling, queues, buffer, odd, history, flaws>>

-----------------------------------------------------------------------------
(* What is under way.                                                       *)

\* A frame that goes through a list: the one for the next of it, and the rest.
Step(f) == IF f.todo = <<>> THEN <<>> ELSE <<f>>

\* while ((request = queue.dequeue()) != NULL) sendRequest(request)
ResumeNext ==
  /\ Top("resume")
  /\ LET todo == Head(frames).todo
     IN  SendRequest(Head(todo), tun, Step(Resume(Tail(todo))) \o Below)
  /\ UNCHANGED <<tunnel, fCSeq, buffer, odd, history>>

\* The same with the queue itself, when the tunnel is set up.
DrainNext ==
  /\ Top("drain")
  /\ \/ /\ tun # <<>>
        /\ SendRequest(Head(tun), Tail(tun), frames)
     \/ /\ tun = <<>> /\ frames' = Below
        /\ UNCHANGED <<socks, tunneling, queues, flaws>>
  /\ UNCHANGED <<tunnel, fCSeq, buffer, odd, history>>

\* while ((request = queue.dequeue()) != NULL) handleRequestError(request)
TellNext ==
  /\ Top("tell")
  /\ LET todo == Head(frames).todo
     IN  frames' = IF todo = <<>> THEN Below
                   ELSE <<Call(Head(todo), "error")>> \o Step(TellAll(Tail(todo))) \o Below
  /\ UNCHANGED <<tunnel, fCSeq, socks, tunneling, queues, buffer, odd, history, flaws>>

\* resendCommand: a GET keeps its number.
Renumbered(r) == IF r.id = HTTP THEN r ELSE [r EXCEPT !.cseq = fCSeq + 1]

ResendCommand ==
  /\ Top("resend")
  /\ LET r == Head(Head(frames).todo)
     IN  /\ fCSeq' = (IF r.id = HTTP THEN fCSeq ELSE fCSeq + 1)
         /\ SendRequest(Renumbered(r), tun, Below)
  /\ UNCHANGED <<tunnel, buffer, odd, history>>

CallHandler ==
  /\ Top("call")
  /\ LET f == Head(frames)
     IN  /\ Head(f.todo).id # HTTP
         /\ told' = [told EXCEPT ![Head(f.todo).id] = Append(@, f.how)]
  /\ frames' = <<Handler>> \o Below
  /\ UNCHANGED <<tunnel, fCSeq, socks, tunneling, queues, buffer, odd, sent, answered, flaws>>

-----------------------------------------------------------------------------
(* responseHandlerForHTTP_GET1: the tunnel's second connection.              *)

TunnelError ==
  /\ ResetSockets /\ tunneling' = FALSE
  /\ tun' = <<>> /\ UNCHANGED <<conn, resp>> /\ ForgetThem
  /\ frames' = <<TellAll(tun)>> \o Below

TunnelPending ==
  /\ out' = 2 /\ connecting' = 2 /\ tunneling' = TRUE
  /\ conn' = conn \o tun /\ tun' = <<>>
  /\ frames' = Below
  /\ UNCHANGED <<in, asked, wire, closed, resp, flaws>>

TunnelOpen ==
  /\ out' = 2 /\ tunneling' = FALSE
  /\ frames' = <<Drain>> \o Below
  /\ UNCHANGED <<in, connecting, asked, wire, closed, queues, flaws>>

HandleGET ==
  /\ Top("call") /\ Head(Head(frames).todo).id = HTTP
  /\ TunnelError \/ (Head(frames).how = "ok" /\ (TunnelPending \/ TunnelOpen))
  /\ UNCHANGED <<tunnel, fCSeq, buffer, odd, history>>

-----------------------------------------------------------------------------
(* connectionHandler1.  It looks at the error of the input socket, also when *)
(* it is the tunnel's second connection that was pending.                   *)

Connected ==
  /\ InLoop /\ connecting # 0
  /\ conn' = <<>> /\ connecting' = 0
  /\ tunneling' = FALSE
  /\ frames' = Step(Resume(conn)) \o frames
  /\ UNCHANGED <<tunnel, fCSeq, in, out, asked, wire, closed, tun, resp, buffer, odd, history, flaws>>

ConnectionFails ==
  /\ InLoop /\ connecting # 0
  /\ conn' = <<>>
  /\ \/ tunneling /\ tunneling' = FALSE                       \* no POST can be sent
     \/ (connecting = 1 \/ closed) /\ tunneling' = tunneling
  /\ ResetSockets /\ UNCHANGED <<tun, resp>> /\ ForgetThem
  /\ frames' = Step(TellAll(conn)) \o frames
  /\ UNCHANGED <<tunnel, fCSeq, buffer, odd, history>>

-----------------------------------------------------------------------------
(* handleResponseBytes.                                                     *)

Reads == InLoop /\ in # 0 /\ connecting # 1

\* Mutant: the requests are told of the error and stay in the queue.
ReadErrorKeepsQueue ==
  /\ Reads /\ closed
  /\ buffer' = <<>> /\ resp' = resp
  /\ ResetSockets /\ UNCHANGED <<conn, tun>> /\ ForgetThem
  /\ frames' = Step(TellAll(resp)) \o frames
  /\ UNCHANGED <<tunnel, fCSeq, tunneling, odd, history>>

ReadError ==
  /\ Reads /\ closed
  /\ buffer' = <<>> /\ resp' = <<>>
  /\ ResetSockets /\ UNCHANGED <<conn, tun>> /\ ForgetThem
  /\ frames' = Step(TellAll(resp)) \o frames
  /\ UNCHANGED <<tunnel, fCSeq, tunneling, odd, history>>

Recv ==
  /\ Reads
  /\ \E n \in 1..Len(wire) :
       /\ buffer' = buffer \o SubSeq(wire, 1, n)
       /\ wire' = SubSeq(wire, n + 1, Len(wire))
  /\ frames' = <<Parse(0)>> \o frames
  /\ UNCHANGED <<tunnel, fCSeq, in, out, connecting, asked, closed, tunneling, queues, odd,
                 history, flaws>>

\* No response is there with all its headers.
Incomplete ==
  /\ Top("parse") /\ \A i \in 1..Len(buffer) : buffer[i] = Body
  /\ frames' = Below
  /\ UNCHANGED <<tunnel, fCSeq, socks, tunneling, queues, buffer, odd, history, flaws>>

\* handleIncomingRequest: what does not begin as a response is taken for a
\* request, and the buffer is emptied, except for as much as was left behind the
\* response before (which is all of it, if the response's handler ran no loop).
IncomingRequest ==
  /\ Top("parse") /\ \E i \in 1..Len(buffer) : buffer[i] # Body
  /\ ~IsHead(Head(buffer))
  /\ LET kept == Head(frames).extra
     IN  /\ buffer' = SubSeq(buffer, Max({1, Len(buffer) - kept + 1}), Len(buffer))
         /\ forgot' = (forgot \/ Len(buffer) > 1) /\ astray' = astray
  /\ frames' = Below
  /\ UNCHANGED <<tunnel, fCSeq, socks, tunneling, queues, odd, history>>

\* Mutant: every response is taken to be for the oldest request.
TakerOldest(c) == 1

\* The place in the queue of the request a response is for: those before it are
\* given up, and so is the next one when its number is higher already.
Taker(c) ==
  LET from == {i \in 1..Len(resp) : resp[i].cseq >= c}
      i == IF from = {} THEN Len(resp) + 1 ELSE Min(from)
  IN  IF c = 0 \/ (i <= Len(resp) /\ resp[i].cseq = c) THEN i ELSE i + 1

Found(h) == IF Taker(h.cseq) \in DOMAIN resp THEN <<resp[Taker(h.cseq)]>> ELSE <<>>
Rest(h) == SubSeq(resp, Taker(h.cseq) + 1, Len(resp))

\* A higher number stands before the one the response is for: that one is not
\* looked for, and the next record is taken as if there were no CSeq.
Astray(h) ==
  \E i, j \in 1..Len(resp) : i < j /\ resp[j].cseq = h.cseq /\ resp[i].cseq > h.cseq

Closes(h) == h.close /\ ~tunnel
SocketsAfter(reset, lost) ==
  IF reset THEN ResetSockets /\ Forget(lost)
  ELSE UNCHANGED socks /\ forgot' = (forgot \/ lost # <<>>)

\* Mutant: the request is not put back while its body is awaited.
AwaitBodyDropped ==
  /\ Top("parse") /\ buffer # <<>> /\ IsHead(Head(buffer))
  /\ UNCHANGED <<tunnel, fCSeq, tunneling, conn, tun, buffer, odd, history>>
  /\ LET h == Head(buffer)
     IN  /\ h.body /\ Len(buffer) = 1
         /\ resp' = Rest(h)
         /\ SocketsAfter(Closes(h), <<>>) /\ astray' = (astray \/ Astray(h))
  /\ frames' = Below

\* The body has not come: the request is put back.
AwaitBody ==
  /\ Top("parse") /\ buffer # <<>> /\ IsHead(Head(buffer))
  /\ UNCHANGED <<tunnel, fCSeq, tunneling, conn, tun, buffer, odd, history>>
  /\ LET h == Head(buffer)
     IN  /\ h.body /\ Len(buffer) = 1
         /\ resp' = Found(h) \o Rest(h)
         /\ SocketsAfter(Closes(h), <<>>) /\ astray' = (astray \/ Astray(h))
  /\ frames' = Below

\* Mutant: what came together with a response waits for the next bytes.
ParseRestLater(h, extra) == <<>>

ParseRest(h, extra) ==
  IF extra = <<>> \/ h.what = "bad" THEN <<>> ELSE <<Parse(Len(extra))>>

\* A whole response.  What is behind it in the buffer is looked at afterwards,
\* unless the response is bad; it is thrown away when the command is sent again.
Response ==
  /\ Top("parse") /\ buffer # <<>> /\ IsHead(Head(buffer))
  /\ LET h     == Head(buffer)
         size  == IF h.body THEN 2 ELSE 1
         extra == SubSeq(buffer, size + 1, Len(buffer))
         found == Found(h)
         again == h.what \in {"again", "moved"} /\ found # <<>>
         next  == ParseRest(h, extra) \o Below
     IN  /\ size <= Len(buffer)
         /\ resp' = Rest(h) /\ astray' = (astray \/ Astray(h))
         /\ UNCHANGED <<conn, tun>>
         /\ IF again
            THEN /\ buffer' = <<>>
                 /\ SocketsAfter(Closes(h) \/ h.what = "moved" \/ Ids(found) = {}, extra)
                 /\ frames' = <<Resend(Head(found))>> \o Below
            ELSE /\ buffer' = extra
                 /\ SocketsAfter(Closes(h), IF h.what = "bad" \/ Closes(h) THEN extra ELSE <<>>)
                 /\ frames' = IF found = <<>> THEN next
                              ELSE <<Call(Head(found), IF h.what = "bad" THEN "error" ELSE h.what)>> \o next
  /\ UNCHANGED <<tunnel, fCSeq, tunneling, odd, history>>

-----------------------------------------------------------------------------
(* The server.                                                              *)

ServerUp == in # 0 /\ connecting # 1 /\ ~closed

Does(o) == o \in Odd /\ odd > 0 /\ odd' = odd - 1

Put(h) == wire' = wire \o (IF h.body THEN <<h, Body>> ELSE <<h>>)

Reply ==
  /\ ServerUp /\ asked # <<>>
  /\ asked' = Tail(asked)
  /\ LET r == Head(asked)
     IN  \E body, close \in BOOLEAN :
           /\ close => Does("close")
           /\ \/ \E kind \in {"ok", "fail"} :
                   /\ Put(Head1(kind, r, close, body))
                   /\ ~close => odd' = odd
                   /\ answered' = IF r.id = HTTP THEN answered ELSE [answered EXCEPT ![r.id] = kind]
              \/ \E kind \in {"again", "moved", "bad"} :
                   /\ kind = "bad" => r.id # HTTP
                   /\ ~close /\ Does(kind)
                   /\ Put(Head1(kind, r, close, body))
                   /\ answered' = answered
  /\ UNCHANGED <<tunnel, fCSeq, in, out, connecting, closed, tunneling, queues, buffer, frames,
                 sent, told, flaws>>

Skip ==
  /\ ServerUp /\ asked # <<>> /\ Head(asked).id # HTTP /\ Does("skip")
  /\ asked' = Tail(asked)
  /\ answered' = [answered EXCEPT ![Head(asked).id] = "skip"]
  /\ UNCHANGED <<tunnel, fCSeq, in, out, connecting, wire, closed, tunneling, queues, buffer,
                 frames, sent, told, flaws>>

AskClient ==
  /\ ServerUp /\ Does("ask")
  /\ wire' = Append(wire, Ask)
  /\ UNCHANGED <<tunnel, fCSeq, in, out, connecting, asked, closed, tunneling, queues, buffer,
                 frames, history, flaws>>

Close ==
  /\ ServerUp /\ closed' = TRUE
  /\ UNCHANGED <<tunnel, fCSeq, in, out, connecting, asked, wire, tunneling, queues, buffer,
                 frames, odd, history, flaws>>

-----------------------------------------------------------------------------
Client ==
  \/ ResumeNext \/ DrainNext \/ TellNext \/ ResendCommand \/ CallHandler \/ HandleGET
  \/ Incomplete \/ IncomingRequest \/ AwaitBody \/ Response

Events == Connected \/ ConnectionFails \/ ReadError \/ Recv
Program == Return \/ \E r \in Requests : Make(r)
Server == Reply \/ Skip \/ AskClient \/ Close

Next == Client \/ Events \/ Program \/ Server

(* The library does what it has begun, the loop handles what is ready, the   *)
(* program's handlers return, and TCP tells how a connection went.  The      *)
(* server answers what reaches it.                                          *)
Fairness ==
  /\ WF_vars(Client) /\ WF_vars(Return)
  /\ WF_vars(Connected \/ ConnectionFails) /\ WF_vars(Recv) /\ WF_vars(ReadError)
  /\ WF_vars(Reply)

Spec == Init /\ [][Next]_vars
FairSpec == Spec /\ Fairness

-----------------------------------------------------------------------------
(* TypeOK: besides the types, only a tunnel has two sockets, and without one   *)
(* both come and go together (resetTCPSockets, openConnection).              *)
Records(q) == {q[i] : i \in 1..Len(q)}
Todo(f) == IF "todo" \in DOMAIN f THEN f.todo ELSE <<>>
InFrames == UNION {Records(Todo(frames[i])) : i \in 1..Len(frames)}

TypeOK ==
  /\ tunnel \in BOOLEAN /\ tunneling \in BOOLEAN /\ closed \in BOOLEAN
  /\ forgot \in BOOLEAN /\ astray \in BOOLEAN
  /\ fCSeq \in Nat /\ odd \in 0..MaxOdd
  /\ in \in 0..1 /\ out \in 0..2 /\ connecting \in 0..2
  /\ in = 0 /\ ~tunnel => out = 0 /\ connecting = 0
  /\ out # in => tunnel
  /\ \A q \in {conn, tun, resp, asked} : Records(q) \subseteq Record
  /\ InFrames \subseteq Record
  /\ sent \subseteq Requests
  /\ answered \in [Requests -> {"none", "ok", "fail", "skip"}]

(* A request that still has to be told to its handler is in the hands of     *)
(* somebody who will: it waits for a connection that is pending, for a tunnel *)
(* that is being set up, for a response that is on its way or a connection    *)
(* that is about to fail, or something under way has taken it.  The server    *)
(* may have left it out, and then nobody will (there is no timeout).         *)
Owed(r) == r \in sent /\ told[r] = <<>> /\ answered[r] # "skip"

OnItsWay(r) ==
  \/ \E i \in 1..Len(asked) : asked[i].id = r
  \/ \E b \in {buffer, wire} : \E i \in 1..Len(b) : IsHead(b[i]) /\ b[i].id = r

InHand(r) ==
  \/ r \in {q.id : q \in InFrames}
  \/ r \in Ids(conn) /\ connecting # 0
  \/ r \in Ids(resp) /\ in # 0 /\ (OnItsWay(r) \/ closed)
  \/ /\ r \in Ids(tun)
     /\ GET \in Records(resp) \cup Records(conn) \cup InFrames \/ Drain \in Records(frames)

NoneForgotten == ~(forgot \/ astray) => \A r \in Requests : Owed(r) => InHand(r)

(* A request's record is in one place only, and nowhere once its handler has  *)
(* been called: whoever takes it from a queue deletes it, and two owners      *)
(* would delete it twice or call a handler that is gone.                     *)
Lists == <<conn, tun, resp>> \o [i \in 1..Len(frames) |-> Todo(frames[i])]
Places(r) ==
  UNION {{<<i, j>> : j \in {k \in 1..Len(Lists[i]) : Lists[i][k].id = r}} : i \in 1..Len(Lists)}

OwnedOnce == TypeOK /\ \A r \in Requests : Cardinality(Places(r)) + Len(told[r]) <= 1

(* Refinement: what RTSPClient.hh promises of the response handlers, as long  *)
(* as no response went astray: that takes four requests, see the README.     *)
(* With a tunnel, the response to a GET has no CSeq and is given to the      *)
(* oldest request, which need not be the GET once requests are forgotten.    *)
Service == INSTANCE RequestService WITH
  answered <- [r \in Requests |-> IF answered[r] = "skip" THEN "none" ELSE answered[r]]

ImplementsService ==
  Service!Init /\ [][astray \/ (tunnel /\ forgot) \/ Service!Next]_<<sent, Service!vars>>

(* Every handler is called in the end, unless a branch was taken that loses   *)
(* requests, a response went astray, or the server left this one out.        *)
Answered == \A r \in Requests : Owed(r) ~> (~Owed(r) \/ forgot \/ astray)
=============================================================================
