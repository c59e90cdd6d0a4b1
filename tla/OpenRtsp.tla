------------------------------- MODULE OpenRtsp -------------------------------
(***************************************************************************)
(* openRTSP (src/projects/RTSPClient/playCommon.cpp): the program that opens *)
(* a stream, sets up its subsessions one after the other, records what it    *)
(* receives, and ends when the streams end, a timer expires, or a signal      *)
(* comes.                                                                   *)
(*                                                                         *)
(* It runs over RequestService, which RtspClient implements: a request may   *)
(* be answered, may fail at any time, or may hang.  One that fails at once is *)
(* the last thing its caller does, so that it makes no difference whether    *)
(* the handler is called now or next; except for TEARDOWN, see Teardown.      *)
(* pc is the stack of the code that still has to run, empty in the loop.      *)
(***************************************************************************)
EXTENDS Integers, Sequences, FiniteSets

CONSTANTS
  NumSubs,     \* how many subsessions a session may have
  Options,     \* the sets of options the program is started with
  MaxRequests  \* bound: the requests of one run

(* -o, -O, -c; -d, or the end of the stream is known; -P, -k, -D, -n, -Q, -r; *)
(* -a or -v; and -q, -4 or -i.                                              *)
AllOptions == {"noOptions", "optionsOnly", "continuous", "duration", "periodic", "keepAlive",
               "gaps", "arrival", "qos", "noReceivers", "single", "composite"}

ASSUME OpenAssumption ==
  /\ MaxRequests \in Nat /\ NumSubs \in Nat
  /\ Options \subseteq SUBSET AllOptions

Requests == 1..MaxRequests
Subs == 1..NumSubs
NoSub == 0

\* sessionTimerTask is "duration"; the others are named as their options.
Timers == {"duration", "periodic", "keepAlive", "arrival", "gaps", "qos"}

VARIABLES
  opt,         \* the options
  pc,
  what,        \* the requests made, in order
  sent, answered, told,  \* of RequestService
  session,     \* there is a MediaSession
  ready,       \* the subsessions with a receiver
  left,        \* what setupIter still has to go through
  iter,        \* setupIter: "none", "live", or "deleted"
  sub,         \* the global subsession
  progress,    \* the global madeProgress
  sinks,       \* the subsessions whose sink is open
  movie,       \* qtOut or aviOut is receiving
  bye,         \* the subsessions with a handler for RTCP BYE
  armed,       \* how many timers of each kind are in the delay queue
  named,       \* the kinds whose global token names one of them
  counted,     \* totNumPacketsReceived # ~0
  closing,     \* areAlreadyShuttingDown
  overlap      \* history: a PLAY was sent while another had no answer

service == <<sent, answered, told>>
setup == <<session, ready, left, iter, sub>>
output == <<sinks, movie, bye>>
timers == <<armed, named, counted>>
vars == <<opt, pc, what, service, setup, progress, output, timers, closing, overlap>>

S == INSTANCE RequestService

Made(k) == {r \in sent : what[r].k = k}
Pending(k) == {r \in Made(k) : told[r] = <<>>}
At(p) == pc # <<>> /\ Head(pc) = p
Rest == Tail(pc)
InLoop == pc = <<>>
Running == ~At("exited") /\ ~At("crashed")

Init ==
  /\ opt \in Options
  /\ pc = <<"start">> /\ what = <<>>
  /\ S!Init
  /\ session = FALSE /\ ready = {} /\ left = {} /\ iter = "none" /\ sub = NoSub
  /\ progress = FALSE
  /\ sinks = {} /\ movie = FALSE /\ bye = {}
  /\ armed = [t \in Timers |-> 0] /\ named = {} /\ counted = FALSE
  /\ closing = FALSE /\ overlap = FALSE

-----------------------------------------------------------------------------
(* Requests and timers.                                                     *)

Send(k, s) ==
  /\ Len(what) < MaxRequests
  /\ S!Make(Len(what) + 1)
  /\ what' = Append(what, [k |-> k, sub |-> s])

\* The handler of a request of kind k is called; Ok says with what.
Handle(r, k) == InLoop /\ r \in Pending(k) /\ S!Tell(r)
Ok(r) == told'[r] = <<"ok">>

\* scheduleDelayedTask into a global token, whatever the token named.
Arm(t) == armed' = [armed EXCEPT ![t] = @ + 1] /\ named' = named \cup {t}

\* unscheduleDelayedTask of all six: what no token names stays.
UnscheduleAll ==
  /\ armed' = [t \in Timers |-> armed[t] - IF t \in named THEN 1 ELSE 0]
  /\ named' = {}

-----------------------------------------------------------------------------
(* From the start to PLAY.                                                  *)

GetOptions ==
  /\ At("start")
  /\ IF "noOptions" \in opt
     THEN pc' = <<"options">> /\ UNCHANGED <<what, service>>
     ELSE pc' = <<>> /\ Send("OPTIONS", NoSub)
  /\ UNCHANGED <<opt, setup, progress, output, timers, closing, overlap>>

OptionsAnswered(r) ==
  /\ Handle(r, "OPTIONS")
  /\ pc' = <<"options">>
  /\ UNCHANGED <<opt, what, setup, progress, output, timers, closing, overlap>>

ContinueAfterOPTIONS ==
  /\ At("options")
  /\ pc' = (IF "optionsOnly" \in opt THEN <<"shutdown">> ELSE <<>>) \o <<"describe">>
  /\ UNCHANGED <<opt, what, service, setup, progress, output, timers, closing, overlap>>

Describe ==
  /\ At("describe") /\ pc' = Rest
  /\ Send("DESCRIBE", NoSub)
  /\ UNCHANGED <<opt, setup, progress, output, timers, closing, overlap>>

\* The subsessions rd get a receiver, or have their port without one. Those are
\* the ones set up, since a receiver that fails takes the port along; but with
\* -a or -v only one is looked at, and the others may have a port of the SDP.
Chosen(rd, ports) ==
  /\ rd \subseteq ports
  /\ IF "single" \in opt THEN \A s, other \in rd : s = other ELSE ports = rd

\* The response is an SDP or not, and there are subsessions in it or not.
ContinueAfterDESCRIBE(r) ==
  /\ Handle(r, "DESCRIBE")
  /\ \/ pc' = <<"shutdown">> /\ UNCHANGED setup
     \/ /\ Ok(r) /\ session' = TRUE
        /\ \E rd, ports \in SUBSET Subs :
             /\ Chosen(rd, ports) /\ ready' = rd /\ left' = ports
             /\ pc' = IF rd = {} THEN <<"shutdown", "setup">> ELSE <<"setup">>
        /\ iter' = "live" /\ sub' = sub
  /\ UNCHANGED <<opt, what, progress, output, timers, closing, overlap>>

\* setupIter->next()
First(s) == s \in left /\ \A other \in left : s <= other

\* Mutant: all SETUPs are sent without waiting.
SetupAll ==
  /\ At("setup")
  /\ \E s \in Subs : First(s) /\ sub' = s /\ left' = left \ {s} /\ Send("SETUP", s)
  /\ pc' = IF left' = {} THEN Rest ELSE pc
  /\ UNCHANGED <<opt, session, ready, iter, progress, output, timers, closing, overlap>>

SetupNext ==
  /\ At("setup")
  /\ \E s \in Subs : First(s) /\ sub' = s /\ left' = left \ {s} /\ Send("SETUP", s)
  /\ pc' = Rest
  /\ UNCHANGED <<opt, session, ready, iter, progress, output, timers, closing, overlap>>

ContinueAfterSETUP(r) ==
  /\ Handle(r, "SETUP")
  /\ progress' = (progress \/ Ok(r))
  /\ pc' = <<"setup">>
  /\ UNCHANGED <<opt, what, setup, output, timers, closing, overlap>>

SetupDone ==
  /\ At("setup") /\ left = {}
  /\ iter' = "deleted" /\ sub' = NoSub
  /\ pc' = (IF progress THEN <<>> ELSE <<"shutdown">>)
           \o (IF "noReceivers" \in opt THEN <<>> ELSE <<"files">>) \o <<"play">> \o Rest
  /\ UNCHANGED <<opt, what, service, session, ready, left, progress, output, timers, closing,
                 overlap>>

\* createOutputFiles, and createPeriodicOutputFiles around it.
AfterFiles == (IF "periodic" \in opt THEN <<"schedule">> ELSE <<>>) \o Rest

CreateSinks ==
  /\ At("files") /\ "composite" \notin opt
  /\ \E made \in SUBSET ready :
       /\ sinks' = made /\ bye' = bye \cup made
       /\ progress' = (made # {})
       /\ pc' = (IF made = {} THEN <<"shutdown">> ELSE <<>>) \o AfterFiles
  /\ sub' = NoSub
  /\ UNCHANGED <<opt, what, service, session, ready, left, iter, movie, timers, closing, overlap>>

\* When there is no file, it is used after shutdown has returned.
CreateMovie ==
  /\ At("files") /\ "composite" \in opt
  /\ \/ movie' = TRUE /\ pc' = AfterFiles
     \/ movie' = FALSE /\ pc' = <<"shutdown", "crashed">>
  /\ UNCHANGED <<opt, what, service, setup, progress, sinks, bye, timers, closing, overlap>>

SchedulePeriodic ==
  /\ At("schedule") /\ Arm("periodic")
  /\ pc' = Rest
  /\ UNCHANGED <<opt, what, service, setup, progress, output, counted, closing, overlap>>

StartPlaying ==
  /\ At("play") /\ Len(what) < MaxRequests - 1
  /\ Send("PLAY", NoSub)
  /\ overlap' = (overlap \/ Pending("PLAY") # {})
  /\ pc' = Rest
  /\ UNCHANGED <<opt, setup, progress, output, timers, closing>>

-----------------------------------------------------------------------------
(* While it plays.                                                          *)

\* Mutant: the timer of the session's duration is forgotten.
PlaysForEver(r) ==
  /\ Handle(r, "PLAY")
  /\ pc' = IF Ok(r) THEN <<"qos", "arrival", "gaps", "keepAlive">> ELSE <<"shutdown">>
  /\ named' = IF Ok(r) THEN named \ {"keepAlive"} ELSE named
  /\ UNCHANGED <<opt, what, setup, progress, output, armed, counted, closing, overlap>>

\* The token of the keep-alive timer is reset before it is scheduled.
ContinueAfterPLAY(r) ==
  /\ Handle(r, "PLAY")
  /\ pc' = IF Ok(r) THEN <<"qos", "duration", "arrival", "gaps", "keepAlive">> ELSE <<"shutdown">>
  /\ named' = IF Ok(r) THEN named \ {"keepAlive"} ELSE named
  /\ UNCHANGED <<opt, what, setup, progress, output, armed, counted, closing, overlap>>

\* beginQOSMeasurement and its timer, the session's timer, checkForPacketArrival
\* (which stops when packets have come), checkSessionTimeoutBrokenServer (whose
\* OPTIONS have no handler).
Watch(t) ==
  /\ t \in {"qos", "duration", "arrival", "keepAlive"} /\ At(t)
  /\ \/ t \in opt /\ Arm(t)
     \/ (t \notin opt \/ t = "arrival") /\ UNCHANGED <<armed, named>>
  /\ pc' = Rest
  /\ UNCHANGED <<opt, what, service, setup, progress, output, counted, closing, overlap>>

CheckInterPacketGaps ==
  /\ At("gaps")
  /\ \/ "gaps" \notin opt /\ pc' = Rest /\ UNCHANGED timers
     \/ /\ "gaps" \in opt                        \* packets have come, or it is the first time
        /\ Arm("gaps") /\ counted' = TRUE /\ pc' = Rest
     \/ /\ "gaps" \in opt /\ counted             \* none since the last time
        /\ named' = named \ {"gaps"} /\ pc' = <<"ended">> \o Rest
        /\ UNCHANGED <<armed, counted>>
  /\ UNCHANGED <<opt, what, service, setup, progress, output, closing, overlap>>

\* A timer expires, the one its token names or one that nothing names.
Expire(t) ==
  /\ InLoop
  /\ \E own \in BOOLEAN :
       /\ IF own THEN t \in named ELSE armed[t] > IF t \in named THEN 1 ELSE 0
       /\ named' = IF own \/ t = "duration" THEN named \ {t} ELSE named
  /\ armed' = [armed EXCEPT ![t] = @ - 1]
  /\ pc' = IF t = "duration" THEN <<"ended">> ELSE IF t = "periodic" THEN <<"rotate">> ELSE <<t>>
  /\ UNCHANGED <<opt, what, service, setup, progress, output, counted, closing, overlap>>

\* periodicFileOutputTimerHandler
Rotate ==
  /\ At("rotate")
  /\ sinks' = {} /\ movie' = FALSE
  /\ pc' = <<"files">>
  /\ UNCHANGED <<opt, what, service, setup, progress, bye, timers, closing, overlap>>

\* subsessionAfterPlaying: is every sink closed now?
LastSink(s) == IF sinks = {s} \/ sinks = {} THEN <<"ended">> ELSE <<>>

\* The source of a sink closes, or an RTCP BYE comes.
SubsessionAfterPlaying(s) ==
  /\ InLoop
  /\ \/ s \in sinks /\ bye' = bye
     \/ s \in bye /\ bye' = bye \ {s}
  /\ sinks' = sinks \ {s}
  /\ pc' = LastSink(s)
  /\ UNCHANGED <<opt, what, service, setup, progress, movie, timers, closing, overlap>>

MovieEnds ==
  /\ InLoop /\ movie /\ movie' = FALSE
  /\ pc' = <<"ended">>
  /\ UNCHANGED <<opt, what, service, setup, progress, sinks, bye, timers, closing, overlap>>

\* Mutant: the timers of the last time are left.
ReplayKeepsTimers ==
  /\ At("ended")
  /\ pc' = <<IF "continuous" \in opt THEN "play" ELSE "shutdown">> \o Rest
  /\ UNCHANGED <<opt, what, service, setup, progress, output, timers, closing, overlap>>

\* sessionAfterPlaying
SessionAfterPlaying ==
  /\ At("ended")
  /\ IF "continuous" \in opt
     THEN UnscheduleAll /\ counted' = FALSE /\ pc' = <<"play">> \o Rest
     ELSE pc' = <<"shutdown">> \o Rest /\ UNCHANGED timers
  /\ UNCHANGED <<opt, what, service, setup, progress, output, closing, overlap>>

-----------------------------------------------------------------------------
(* The end.                                                                 *)

\* Mutant: shutdown does not look whether it has begun already.
ShutdownAgain ==
  /\ At("shutdown")
  /\ closing' = TRUE /\ UnscheduleAll
  /\ IF session
     THEN Send("TEARDOWN", NoSub) /\ pc' = <<"teardown">> \o Rest
     ELSE pc' = <<"exited">> /\ UNCHANGED <<what, service>>
  /\ UNCHANGED <<opt, setup, progress, output, counted, overlap>>

Shutdown ==
  /\ At("shutdown")
  /\ IF closing
     THEN pc' = Rest /\ UNCHANGED <<closing, armed, named, what, service>>
     ELSE /\ closing' = TRUE /\ UnscheduleAll
          /\ IF session
             THEN Send("TEARDOWN", NoSub) /\ pc' = <<"teardown">> \o Rest
             ELSE pc' = <<"exited">> /\ UNCHANGED <<what, service>>
  /\ UNCHANGED <<opt, setup, progress, output, counted, overlap>>

\* tearDownSession tells its handler at once that it failed, and the program
\* ends, or it returns and the program goes on where shutdown was called.
Teardown ==
  /\ At("teardown")
  /\ \/ /\ \E r \in Pending("TEARDOWN") : S!Tell(r) /\ ~Ok(r)
        /\ pc' = <<"exited">>
     \/ pc' = Rest /\ UNCHANGED service
  /\ UNCHANGED <<opt, what, setup, progress, output, timers, closing, overlap>>

ContinueAfterTEARDOWN(r) ==
  /\ Handle(r, "TEARDOWN")
  /\ pc' = <<"exited">>
  /\ UNCHANGED <<opt, what, setup, progress, output, timers, closing, overlap>>

\* A signal interrupts whatever runs.  It does not wait for TEARDOWN's response.
\* In the middle of shutdown() it comes to the same: until shutdown looks at
\* waitForResponseToTEARDOWN it sends TEARDOWN and ends, and then it just goes on.
SignalHandlerShutdown ==
  /\ Running /\ ~closing
  /\ closing' = TRUE /\ UnscheduleAll
  /\ IF session THEN Send("TEARDOWN", NoSub) ELSE UNCHANGED <<what, service>>
  /\ pc' = <<"exited">>
  /\ UNCHANGED <<opt, setup, progress, output, counted, overlap>>

\* The service: the server answers (an answer that comes when the handler has
\* been called already changes nothing here).
Answer(r) ==
  /\ Running /\ told[r] = <<>> /\ S!Answer(r)
  /\ UNCHANGED <<opt, pc, what, setup, progress, output, timers, closing, overlap>>

-----------------------------------------------------------------------------
Told(r) ==
  \/ OptionsAnswered(r) \/ ContinueAfterDESCRIBE(r) \/ ContinueAfterSETUP(r)
  \/ ContinueAfterPLAY(r) \/ ContinueAfterTEARDOWN(r)

Code ==
  \/ GetOptions \/ ContinueAfterOPTIONS \/ Describe \/ SetupNext \/ SetupDone
  \/ CreateSinks \/ CreateMovie \/ SchedulePeriodic \/ StartPlaying
  \/ (\E t \in Timers : Watch(t)) \/ CheckInterPacketGaps \/ Rotate
  \/ SessionAfterPlaying \/ Shutdown \/ Teardown

Next ==
  \/ Code
  \/ \E r \in Requests : Told(r) \/ Answer(r)
  \/ \E t \in Timers : Expire(t)
  \/ (\E s \in Subs : SubsessionAfterPlaying(s)) \/ MovieEnds
  \/ SignalHandlerShutdown

Spec == Init /\ [][Next]_vars

(* The event loop calls the session's timer when it is due; other timers and  *)
(* answers come and go meanwhile, hence SF.  That every request is told in the *)
(* end (RtspClient's Answered) takes a server that answers.                  *)
Fairness == WF_vars(Code) /\ SF_vars(Expire("duration"))
EveryRequestTold == SF_vars(\E r \in Requests : Told(r))

FairSpec == Spec /\ Fairness

-----------------------------------------------------------------------------
Kinds == {"OPTIONS", "DESCRIBE", "SETUP", "PLAY", "TEARDOWN"}
Code1 == {"start", "options", "describe", "setup", "files", "schedule", "play", "shutdown",
          "teardown", "rotate", "ended", "exited", "crashed"} \cup Timers

TypeOK ==
  /\ opt \in Options
  /\ pc \in Seq(Code1)
  /\ what \in Seq([k : Kinds, sub : Subs \cup {NoSub}])
  /\ sent = 1..Len(what) /\ sent \subseteq Requests
  /\ answered \in [Requests -> S!Answers \cup {"none"}]
  /\ told \in [Requests -> {<<>>} \cup {<<how>> : how \in S!Answers \cup {"error"}}]
  /\ session \in BOOLEAN /\ ready \subseteq Subs /\ left \subseteq Subs
  /\ iter \in {"none", "live", "deleted"} /\ sub \in Subs \cup {NoSub}
  /\ progress \in BOOLEAN /\ sinks \subseteq ready /\ bye \subseteq ready /\ movie \in BOOLEAN
  /\ armed \in [Timers -> Nat] /\ named \subseteq {t \in Timers : armed[t] > 0}
  /\ counted \in BOOLEAN /\ closing \in BOOLEAN /\ overlap \in BOOLEAN

(* The handler of SETUP finds its subsession in a global, and setupStreams    *)
(* its iterator in a static (lines 782-808, 979-1028): when SETUP is answered,  *)
(* the global still names the subsession it was for, and once the iterator    *)
(* has been deleted nobody comes back for more.                             *)
SetupInTurn ==
  /\ \A r \in Pending("SETUP") : what[r].sub = sub /\ iter = "live" /\ ~At("setup")
  /\ At("setup") => iter = "live"

(* There is at most one timer of each kind, and its token names it, so that    *)
(* shutdown and sessionAfterPlaying can cancel it: except when the session     *)
(* was started again while it was still being started.                      *)
OneTimerEach == ~overlap => \A t \in Timers : armed[t] = IF t \in named THEN 1 ELSE 0

(* Whatever ends the program, it sends TEARDOWN exactly once if there is a     *)
(* session.  What the variables hold is part of it (TypeOK).                   *)
TeardownOnce ==
  /\ TypeOK
  /\ Cardinality(Made("TEARDOWN")) <= 1
  /\ ~Running /\ session => Made("TEARDOWN") # {}

(* A session of known duration that is played once is torn down in the end,    *)
(* also when the server sends nothing any more and answers nothing (lines       *)
(* 1046-1060): the session's timer is there, whatever the other timers do.  And *)
(* the program ends, if it is told what became of every request.            *)
Ends ==
  "continuous" \notin opt =>
    /\ armed["duration"] > 0 ~> Made("TEARDOWN") # {} \/ At("crashed")
    /\ EveryRequestTold => ("duration" \in opt ~> ~Running)
=============================================================================
