---------------------------- MODULE OpenRtspProofs ----------------------------
(***************************************************************************)
(* What TLAPS proves of OpenRtsp, for every set of options, number of         *)
(* subsessions and number of requests: one TEARDOWN, one SETUP at a time, and *)
(* one timer of each kind.                                                  *)
(***************************************************************************)
EXTENDS OpenRtsp, FiniteSetTheorems, SequenceTheorems, TLAPS

-----------------------------------------------------------------------------
(* The inductive invariant.                                                 *)

\* What is on a stack.
Codes(q) == {q[i] : i \in 1..Len(q)}
Todo == Codes(pc)

\* What sets up the session runs last; while it plays, the code runs in this
\* order.
Early == {"start", "options", "describe", "setup"}
Chain == Timers \ {"periodic"}
Late == {"files", "schedule", "play", "rotate", "ended", "crashed"} \cup Timers
Rank(c) ==
  CASE c \in Early -> 20
    [] c \in {"files", "schedule"} -> 3
    [] c = "play" -> 5
    [] c = "qos" -> 6
    [] c = "duration" -> 7
    [] c = "arrival" -> 8
    [] c \in {"gaps", "ended"} -> 9
    [] c = "keepAlive" -> 10
    [] c = "crashed" -> 2
    [] OTHER -> 1

\* Nothing is on the stack twice.
Sorted(q) == \A i, j \in 1..Len(q) : i < j => Rank(q[i]) < Rank(q[j])
Ordered == Sorted(pc)

\* The program is in one place of the setup: it runs, or waits for one response.
Asked == Pending("OPTIONS") \cup Pending("DESCRIBE") \cup Pending("SETUP")
Control ==
  /\ Todo \cap Early # {} => Asked = {}
  /\ \A r1, r2 \in Asked : r1 = r2
  /\ \A r \in Pending("SETUP") : what[r].sub = sub
  /\ session <=> iter # "none"
  /\ iter = "none" => "setup" \notin Todo /\ Pending("SETUP") = {}
  /\ iter = "live" => Todo \cap Early \subseteq {"setup"} /\ Asked = Pending("SETUP")
  /\ iter = "deleted" => Todo \cap Early = {} /\ Asked = {}
  /\ iter # "deleted" => /\ Todo \cap Late = {} /\ Pending("PLAY") = {}
                         /\ armed = [t \in Timers |-> 0] /\ ~counted
                         /\ sinks = {} /\ bye = {} /\ ~movie

\* TEARDOWN goes out with the first shutdown.
Closing ==
  /\ ~closing => Made("TEARDOWN") = {}
  /\ \A r1, r2 \in Made("TEARDOWN") : r1 = r2
  /\ closing /\ session => Made("TEARDOWN") # {}
  /\ closing /\ ~session => "exited" \in Todo
  /\ "exited" \in Todo => closing /\ At("exited")
  /\ "crashed" \in Todo => closing \/ At("shutdown")

\* A timer is scheduled when there is none of its kind.
Alone ==
  /\ \A t \in Timers : armed[t] = IF t \in named THEN 1 ELSE 0
  /\ \A t \in Todo \cap Chain : armed[t] = 0
  /\ Todo \cap {"files", "schedule", "rotate"} # {} => armed["periodic"] = 0
  /\ "play" \in Todo \/ Pending("PLAY") # {} =>
       (\A t \in Chain : armed[t] = 0) /\ Todo \cap Chain = {} /\ ~counted
  /\ \A r1, r2 \in Pending("PLAY") : r1 = r2
  /\ "gaps" \in Todo /\ counted => "keepAlive" \notin Todo
  /\ "ended" \in Todo => Todo \cap Chain = {}

Single == ~overlap => Alone

IInv == TypeOK /\ Ordered /\ Control /\ Closing /\ Single
-----------------------------------------------------------------------------
(* Stacks.                                                                  *)

LEMMA RankNat == \A c \in Code1 : Rank(c) \in 1..20
  BY DEF Rank, Code1, Timers, Early

LEMMA Nothing == <<>> \in Seq(Code1) /\ Codes(<<>>) = {} /\ Sorted(<<>>)
  BY DEF Codes, Sorted

LEMMA Push ==
  ASSUME NEW q \in Seq(Code1), NEW a \in Code1
  PROVE  /\ <<a>> \o q \in Seq(Code1) /\ <<a>> \o q # <<>>
         /\ Head(<<a>> \o q) = a /\ Codes(<<a>> \o q) = {a} \cup Codes(q)
         /\ Sorted(q) /\ (\A c \in Codes(q) : Rank(a) < Rank(c)) => Sorted(<<a>> \o q)
<1>1. PICK s : s = <<a>> \o q
  OBVIOUS
<1>2. Len(q) \in Nat /\ \A i \in 1..Len(q) : q[i] \in Code1
  OBVIOUS
<1>3. /\ s \in Seq(Code1) /\ s # <<>> /\ Head(s) = a
      /\ Len(s) = Len(q) + 1 /\ s[1] = a /\ \A i \in 2..Len(q) + 1 : s[i] = q[i - 1]
  BY <1>1
<1>4. Codes(s) = {a} \cup Codes(q)
  <2>1. ASSUME NEW i \in 1..Len(s)
        PROVE  s[i] \in {a} \cup Codes(q)
    <3>1. CASE i = 1
      BY <1>3, <3>1
    <3>2. CASE i # 1
      <4>1. i \in 2..Len(q) + 1 /\ i - 1 \in 1..Len(q)
        BY <1>2, <1>3, <3>2
      <4> QED BY <1>3, <4>1 DEF Codes
    <3> QED BY <3>1, <3>2
  <2>2. a \in Codes(s)
    <3>1. 1 \in 1..Len(s)
      BY <1>2, <1>3
    <3> QED BY <1>3, <3>1 DEF Codes
  <2>3. ASSUME NEW i \in 1..Len(q)
        PROVE  q[i] \in Codes(s)
    <3>1. i + 1 \in 1..Len(s) /\ i + 1 \in 2..Len(q) + 1 /\ (i + 1) - 1 = i
      BY <1>2, <1>3
    <3>2. s[i + 1] = q[i]
      BY <1>3, <3>1
    <3> QED BY <3>1, <3>2 DEF Codes
  <2> QED BY <2>1, <2>2, <2>3 DEF Codes
<1>5. ASSUME Sorted(q), \A c \in Codes(q) : Rank(a) < Rank(c)
      PROVE  Sorted(s)
  <2> SUFFICES ASSUME NEW i \in 1..Len(s), NEW j \in 1..Len(s), i < j
               PROVE  Rank(s[i]) < Rank(s[j])
    BY DEF Sorted
  <2>1. j \in 2..Len(q) + 1 /\ j - 1 \in 1..Len(q) /\ s[j] = q[j - 1]
    BY <1>2, <1>3
  <2>2. CASE i = 1
    BY <1>3, <1>5, <2>1, <2>2 DEF Codes
  <2>3. CASE i # 1
    <3>1. i - 1 \in 1..Len(q) /\ i - 1 < j - 1 /\ s[i] = q[i - 1]
      BY <1>2, <1>3, <2>3
    <3> QED BY <1>5, <2>1, <3>1 DEF Sorted
  <2> QED BY <2>2, <2>3
<1> QED BY <1>1, <1>3, <1>4, <1>5

LEMMA Pop ==
  ASSUME NEW q \in Seq(Code1), q # <<>>
  PROVE  /\ Head(q) \in Code1 /\ Tail(q) \in Seq(Code1)
         /\ Codes(q) = {Head(q)} \cup Codes(Tail(q))
         /\ Sorted(q) => Sorted(Tail(q)) /\ \A c \in Codes(Tail(q)) : Rank(Head(q)) < Rank(c)
<1>1. PICK s : s = Tail(q)
  OBVIOUS
<1>2. /\ Len(q) \in Nat \ {0} /\ \A i \in 1..Len(q) : q[i] \in Code1
      /\ Head(q) = q[1] /\ s \in Seq(Code1) /\ Len(s) = Len(q) - 1
      /\ \A i \in 1..Len(q) - 1 : s[i] = q[i + 1]
  BY <1>1
<1>3. Codes(q) = {q[1]} \cup Codes(s)
  <2>1. ASSUME NEW i \in 1..Len(q)
        PROVE  q[i] \in {q[1]} \cup Codes(s)
    <3>1. CASE i # 1
      <4>1. i - 1 \in 1..Len(s) /\ (i - 1) + 1 = i
        BY <1>2, <3>1
      <4>2. s[i - 1] = q[i]
        BY <1>2, <4>1
      <4> QED BY <4>1, <4>2 DEF Codes
    <3> QED BY <3>1
  <2>2. ASSUME NEW i \in 1..Len(s)
        PROVE  s[i] \in Codes(q)
    <3>1. i + 1 \in 1..Len(q) /\ s[i] = q[i + 1]
      BY <1>2
    <3> QED BY <3>1 DEF Codes
  <2>3. q[1] \in Codes(q)
    <3>1. 1 \in 1..Len(q)
      BY <1>2
    <3> QED BY <3>1 DEF Codes
  <2> QED BY <2>1, <2>2, <2>3 DEF Codes
<1>4. ASSUME Sorted(q)
      PROVE  Sorted(s) /\ \A c \in Codes(s) : Rank(q[1]) < Rank(c)
  <2>1. ASSUME NEW i \in 1..Len(s)
        PROVE  i + 1 \in 1..Len(q) /\ s[i] = q[i + 1] /\ 1 < i + 1 /\ 1 \in 1..Len(q)
    BY <1>2
  <2>2. ASSUME NEW i \in 1..Len(s), NEW j \in 1..Len(s), i < j
        PROVE  Rank(s[i]) < Rank(s[j])
    <3>1. i + 1 < j + 1
      BY <1>2, <2>2
    <3> QED BY <1>4, <2>1, <3>1 DEF Sorted
  <2>3. ASSUME NEW i \in 1..Len(s)
        PROVE  Rank(q[1]) < Rank(s[i])
    BY <1>4, <2>1 DEF Sorted
  <2> QED BY <2>2, <2>3 DEF Sorted, Codes
<1> QED BY <1>1, <1>2, <1>3, <1>4

\* A stack of one.
LEMMA One ==
  ASSUME NEW a \in Code1
  PROVE  /\ <<a>> \in Seq(Code1) /\ <<a>> # <<>> /\ Head(<<a>>) = a /\ Codes(<<a>>) = {a}
         /\ Sorted(<<a>>)
  BY DEF Codes, Sorted

\* The top of the stack, and what is below it.
LEMMA Top ==
  ASSUME TypeOK, Ordered, NEW p, At(p)
  PROVE  /\ p \in Code1 /\ Rest \in Seq(Code1) /\ Sorted(Rest)
         /\ Todo = {p} \cup Codes(Rest) /\ p \notin Codes(Rest)
         /\ \A c \in Codes(Rest) : c \in Code1 /\ Rank(p) < Rank(c)
<1>1. pc \in Seq(Code1) /\ pc # <<>> /\ Head(pc) = p /\ Sorted(pc)
  BY DEF TypeOK, At, Ordered
<1>2. /\ p \in Code1 /\ Rest \in Seq(Code1) /\ Sorted(Rest)
      /\ Todo = {p} \cup Codes(Rest)
      /\ \A c \in Codes(Rest) : Rank(p) < Rank(c)
  BY <1>1, Pop DEF Rest, Todo
<1>3. \A c \in Codes(Rest) : c \in Code1
  BY <1>2 DEF Codes
<1>4. p \notin Codes(Rest)
  BY <1>2, RankNat
<1> QED BY <1>2, <1>3, <1>4
-----------------------------------------------------------------------------
(* Requests.                                                                *)

\* A request that is sent is a new one.
LEMMA Sent ==
  ASSUME TypeOK, NEW k, k \in Kinds, NEW s, s \in Subs \cup {NoSub}, Send(k, s)
  PROVE  /\ what' \in Seq([k : Kinds, sub : Subs \cup {NoSub}])
         /\ sent' = 1..Len(what') /\ sent' \subseteq Requests
         /\ told' = told /\ answered' = answered
         /\ what'[Len(what')].sub = s /\ \A r \in sent : what'[r] = what[r]
         /\ Made(k)' = Made(k) \cup {Len(what')}
         /\ Pending(k)' \subseteq Pending(k) \cup {Len(what')}
         /\ \A j : j # k => Made(j)' = Made(j) /\ Pending(j)' = Pending(j)
<1> DEFINE e == [k |-> k, sub |-> s]
<1>1. /\ what' = Append(what, e) /\ sent' = sent \cup {Len(what) + 1}
      /\ told' = told /\ answered' = answered /\ Len(what) < MaxRequests
  BY DEF Send, S!Make
<1>2. /\ what \in Seq([k : Kinds, sub : Subs \cup {NoSub}]) /\ sent = 1..Len(what)
      /\ Len(what) \in Nat /\ sent \subseteq Requests /\ Requests = 1..MaxRequests
      /\ MaxRequests \in Nat
  BY OpenAssumption DEF TypeOK, Requests
<1>3. e \in [k : Kinds, sub : Subs \cup {NoSub}] /\ e.k = k /\ e.sub = s
  OBVIOUS
<1>4. PICK n \in Nat : n = Len(what) + 1
  BY <1>2
<1>5. /\ what' \in Seq([k : Kinds, sub : Subs \cup {NoSub}]) /\ Len(what') = n
      /\ what'[n] = e /\ \A r \in 1..Len(what) : what'[r] = what[r]
  BY <1>1, <1>2, <1>3, <1>4
<1>6. sent' = 1..Len(what') /\ sent' \subseteq Requests /\ n \notin sent /\ sent' = sent \cup {n}
  BY <1>1, <1>2, <1>4, <1>5
<1>7. \A r \in sent : what'[r] = what[r]
  BY <1>2, <1>5
<1>8. Made(k)' = Made(k) \cup {n}
  BY <1>3, <1>5, <1>6, <1>7 DEF Made
<1>9. Pending(k)' \subseteq Pending(k) \cup {n}
  BY <1>1, <1>8 DEF Pending
<1>10. ASSUME NEW j, j # k
       PROVE  Made(j)' = Made(j) /\ Pending(j)' = Pending(j)
  <2>1. Made(j)' = Made(j)
    BY <1>3, <1>5, <1>6, <1>7, <1>10 DEF Made
  <2> QED BY <1>1, <2>1 DEF Pending
<1> QED BY <1>1, <1>3, <1>5, <1>6, <1>7, <1>8, <1>9, <1>10

\* A handler that is called does not wait any more.
LEMMA ToldOnce ==
  ASSUME TypeOK, NEW r, S!Tell(r), what' = what
  PROVE  /\ sent' = sent /\ answered' = answered
         /\ told' \in [Requests -> {<<>>} \cup {<<how>> : how \in S!Answers \cup {"error"}}]
         /\ \A j : Made(j)' = Made(j) /\ Pending(j)' = Pending(j) \ {r}
<1>1. /\ r \in sent /\ sent' = sent /\ answered' = answered
      /\ \E how \in {answered[r], "error"} \ {"none"} : told' = [told EXCEPT ![r] = <<how>>]
  BY DEF S!Tell
<1>2. /\ r \in Requests /\ sent \subseteq Requests
      /\ answered[r] \in S!Answers \cup {"none"}
      /\ told \in [Requests -> {<<>>} \cup {<<how>> : how \in S!Answers \cup {"error"}}]
  BY <1>1 DEF TypeOK
<1>3. PICK how \in S!Answers \cup {"error"} : told' = [told EXCEPT ![r] = <<how>>]
  BY <1>1, <1>2
<1>4. told' \in [Requests -> {<<>>} \cup {<<h>> : h \in S!Answers \cup {"error"}}]
  BY <1>2, <1>3
<1>5. told'[r] # <<>> /\ \A q \in sent \ {r} : told'[q] = told[q]
  BY <1>2, <1>3
<1>6. ASSUME NEW j
      PROVE  Made(j)' = Made(j) /\ Pending(j)' = Pending(j) \ {r}
  <2>1. Made(j)' = Made(j) /\ Made(j) \subseteq sent
    BY <1>1 DEF Made
  <2> QED BY <1>5, <2>1 DEF Pending
<1> QED BY <1>1, <1>4, <1>6

LEMMA AnsweredOnly ==
  ASSUME TypeOK, NEW r, S!Answer(r), what' = what
  PROVE  /\ sent' = sent /\ told' = told
         /\ answered' \in [Requests -> S!Answers \cup {"none"}]
         /\ \A j : Made(j)' = Made(j) /\ Pending(j)' = Pending(j)
<1>1. sent' = sent /\ told' = told
  BY DEF S!Answer
<1>2. answered' \in [Requests -> S!Answers \cup {"none"}]
  BY DEF S!Answer, TypeOK
<1> QED BY <1>1, <1>2 DEF Made, Pending

LEMMA SameRequests ==
  ASSUME UNCHANGED <<what, service>>
  PROVE  \A j : Made(j)' = Made(j) /\ Pending(j)' = Pending(j)
  BY DEF service, Made, Pending
-----------------------------------------------------------------------------
(* The stack after each action.                                             *)

Becomes(codes) == pc' \in Seq(Code1) /\ Sorted(pc') /\ Codes(pc') \subseteq codes

\* An alternative of one code before a stack.
LEMMA PushIf ==
  ASSUME NEW q \in Seq(Code1), Sorted(q), NEW a \in Code1, NEW b,
         \A c \in Codes(q) : Rank(a) < Rank(c)
  PROVE  LET s == (IF b THEN <<a>> ELSE <<>>) \o q
         IN  s \in Seq(Code1) /\ Sorted(s) /\ Codes(s) \subseteq {a} \cup Codes(q)
<1>1. CASE b
  BY <1>1, Push
<1>2. CASE ~b
  <2>1. <<>> \o q = q
    OBVIOUS
  <2> QED BY <1>2, <2>1
<1> QED BY <1>1, <1>2

LEMMA BecomesOne ==
  ASSUME NEW a \in Code1, pc' = <<a>>
  PROVE  Becomes({a}) /\ At(a)' /\ Codes(pc') = {a}
<1>1. pc' \in Seq(Code1) /\ pc' # <<>> /\ Head(pc') = a /\ Codes(pc') = {a} /\ Sorted(pc')
  BY One
<1> QED BY <1>1 DEF Becomes, At

LEMMA BecomesRest ==
  ASSUME TypeOK, Ordered, NEW p, At(p), pc' = Rest
  PROVE  Becomes(Codes(Rest)) /\ Codes(pc') = Codes(Rest)
  BY Top DEF Becomes

\* A code before the rest.
LEMMA BecomesBefore ==
  ASSUME TypeOK, Ordered, NEW p, At(p), NEW a \in Code1, Rank(a) <= Rank(p), pc' = <<a>> \o Rest
  PROVE  Becomes({a} \cup Codes(Rest)) /\ At(a)'
<1>1. /\ Rest \in Seq(Code1) /\ Sorted(Rest) /\ p \in Code1
      /\ \A c \in Codes(Rest) : c \in Code1 /\ Rank(p) < Rank(c)
  BY Top
<1>2. ASSUME NEW c \in Codes(Rest)
      PROVE  Rank(a) < Rank(c)
  <2>2. c \in Code1 /\ Rank(p) < Rank(c)
    BY <1>1
  <2>3. Rank(a) \in 1..20 /\ Rank(p) \in 1..20 /\ Rank(c) \in 1..20
    BY <1>1, <2>2, RankNat
  <2>1. Rank(a) \in Nat /\ Rank(p) \in Nat /\ Rank(c) \in Nat /\ Rank(p) < Rank(c)
    BY <2>2, <2>3, SMTT(30)
  <2> QED BY <2>1
<1>3. /\ pc' \in Seq(Code1) /\ pc' # <<>> /\ Head(pc') = a /\ Codes(pc') = {a} \cup Codes(Rest)
      /\ Sorted(pc')
  BY <1>1, <1>2, Push
<1> QED BY <1>3 DEF Becomes, At

LEMMA OptionsStack ==
  ASSUME ContinueAfterOPTIONS
  PROVE  Becomes({"shutdown", "describe"})
<1>1. "shutdown" \in Code1 /\ "describe" \in Code1 /\ Rank("shutdown") < Rank("describe")
  BY DEF Code1, Rank, Early, Timers
<1>2. /\ <<"describe">> \in Seq(Code1) /\ Sorted(<<"describe">>)
      /\ Codes(<<"describe">>) = {"describe"}
  BY <1>1, One
<1>3. pc' = (IF "optionsOnly" \in opt THEN <<"shutdown">> ELSE <<>>) \o <<"describe">>
  BY DEF ContinueAfterOPTIONS
<1>4. \A c \in Codes(<<"describe">>) : Rank("shutdown") < Rank(c)
  BY <1>1, <1>2
<1>5. /\ pc' \in Seq(Code1) /\ Sorted(pc')
      /\ Codes(pc') \subseteq {"shutdown"} \cup Codes(<<"describe">>)
  BY <1>1, <1>2, <1>3, <1>4, PushIf
<1> QED BY <1>2, <1>5 DEF Becomes

LEMMA DescribeStack ==
  ASSUME NEW r, ContinueAfterDESCRIBE(r)
  PROVE  Becomes({"shutdown", "setup"})
<1>1. /\ "shutdown" \in Code1 /\ "setup" \in Code1 /\ Rank("shutdown") < Rank("setup")
  BY DEF Code1, Rank, Early, Timers
<1>2. pc' = <<"shutdown">> \/ pc' = <<"setup">> \/ pc' = <<"shutdown", "setup">>
  BY DEF ContinueAfterDESCRIBE
<1>3. ASSUME pc' = <<"shutdown", "setup">>
      PROVE  Becomes({"shutdown", "setup"})
  <2>1. <<"shutdown", "setup">> = <<"shutdown">> \o <<"setup">>
    OBVIOUS
  <2>2. /\ <<"setup">> \in Seq(Code1) /\ Sorted(<<"setup">>) /\ Codes(<<"setup">>) = {"setup"}
    BY <1>1, One
  <2> QED BY <1>1, <1>3, <2>1, <2>2, Push DEF Becomes
<1>4. pc' = <<"shutdown">> => Becomes({"shutdown"})
  BY <1>1, BecomesOne
<1>5. pc' = <<"setup">> => Becomes({"setup"})
  BY <1>1, BecomesOne
<1> QED BY <1>2, <1>3, <1>4, <1>5 DEF Becomes

\* Nothing is below the setup.
LEMMA SetupStack ==
  ASSUME TypeOK, Ordered, NEW p \in Early, At(p)
  PROVE  Rest = <<>> /\ Codes(Rest) = {}
<1>1. Codes(Rest) = {}
  <2>1. Rank(p) = 20
    BY DEF Rank, Early
  <2> QED BY <2>1, Top, RankNat
<1>2. Rest \in Seq(Code1)
  BY Top
<1>3. Len(Rest) \in Nat /\ Len(Rest) = 0
  <2>1. Len(Rest) \in Nat /\ (Len(Rest) > 0 => 1 \in 1..Len(Rest))
    BY <1>2
  <2>2. Len(Rest) > 0 => Rest[1] \in Codes(Rest)
    BY <2>1 DEF Codes
  <2> QED BY <1>1, <2>1, <2>2
<1> QED BY <1>1, <1>2, <1>3

LEMMA SetupDoneStack ==
  ASSUME TypeOK, Ordered, SetupDone
  PROVE  Becomes({"shutdown", "files", "play"})
<1>1. /\ "shutdown" \in Code1 /\ "files" \in Code1 /\ "play" \in Code1 /\ "setup" \in Early
      /\ Rank("shutdown") < Rank("files") /\ Rank("files") < Rank("play")
      /\ Rank("shutdown") < Rank("play")
  BY DEF Code1, Rank, Early, Timers
<1>2. Rest = <<>> /\ At("setup")
  BY <1>1, SetupStack DEF SetupDone
<1>3. PICK q : q = <<"play">> \o Rest
  OBVIOUS
<1>4. q \in Seq(Code1) /\ Sorted(q) /\ Codes(q) = {"play"}
  <2>1. q = <<"play">>
    BY <1>2, <1>3
  <2> QED BY <1>1, <2>1, One
<1>5. PICK s : s = (IF "noReceivers" \notin opt THEN <<"files">> ELSE <<>>) \o q
  OBVIOUS
<1>6. s \in Seq(Code1) /\ Sorted(s) /\ Codes(s) \subseteq {"files", "play"}
  BY <1>1, <1>4, <1>5, PushIf
<1>7. pc' = (IF ~progress THEN <<"shutdown">> ELSE <<>>) \o s
  <2>1. pc' = (IF progress THEN <<>> ELSE <<"shutdown">>)
              \o (IF "noReceivers" \in opt THEN <<>> ELSE <<"files">>) \o <<"play">> \o Rest
    BY DEF SetupDone
  <2>2. \A a \in Seq(Code1), b \in Seq(Code1), c \in Seq(Code1), d \in Seq(Code1) :
          ((a \o b) \o c) \o d = a \o (b \o (c \o d))
    BY SMTT(30)
  <2>3. <<>> \in Seq(Code1) /\ <<"shutdown">> \in Seq(Code1) /\ <<"files">> \in Seq(Code1)
        /\ <<"play">> \in Seq(Code1) /\ Rest \in Seq(Code1)
    BY <1>1, <1>2
  <2>4. /\ (IF progress THEN <<>> ELSE <<"shutdown">>) = (IF ~progress THEN <<"shutdown">> ELSE <<>>)
        /\ (IF "noReceivers" \in opt THEN <<>> ELSE <<"files">>)
             = (IF "noReceivers" \notin opt THEN <<"files">> ELSE <<>>)
    OBVIOUS
  <2> QED BY <1>3, <1>5, <2>1, <2>2, <2>3, <2>4, SMTT(30)
<1>s. \A c \in Codes(s) : Rank("shutdown") < Rank(c)
  BY <1>1, <1>6
<1>8. pc' \in Seq(Code1) /\ Sorted(pc') /\ Codes(pc') \subseteq {"shutdown"} \cup Codes(s)
  BY <1>1, <1>6, <1>7, <1>s, PushIf
<1> QED BY <1>6, <1>8 DEF Becomes

LEMMA FilesStack ==
  ASSUME TypeOK, Ordered, At("files")
  PROVE  /\ AfterFiles \in Seq(Code1) /\ Sorted(AfterFiles)
         /\ Codes(AfterFiles) \subseteq {"schedule"} \cup Codes(Rest)
         /\ \A c \in Codes(AfterFiles) : Rank("shutdown") < Rank(c)
<1>1. /\ "shutdown" \in Code1 /\ "schedule" \in Code1
      /\ Rank("files") = 3 /\ Rank("shutdown") = 1 /\ Rank("schedule") = 3
  BY DEF Code1, Rank, Early, Timers
<1>2. /\ Rest \in Seq(Code1) /\ Sorted(Rest)
      /\ \A c \in Codes(Rest) : c \in Code1 /\ Rank("files") < Rank(c)
  BY Top
<1>3. \A c \in Codes(Rest) : Rank("schedule") < Rank(c)
  BY <1>1, <1>2
<1>4. /\ AfterFiles \in Seq(Code1) /\ Sorted(AfterFiles)
      /\ Codes(AfterFiles) \subseteq {"schedule"} \cup Codes(Rest)
  BY <1>1, <1>2, <1>3, PushIf DEF AfterFiles
<1>5. ASSUME NEW c \in Codes(AfterFiles)
      PROVE  Rank("shutdown") < Rank(c)
  <2>1. CASE c \in Codes(Rest)
    <3>1. 3 < Rank(c) /\ Rank(c) \in 1..20
      BY <1>1, <1>2, <2>1, RankNat
    <3> QED BY <1>1, <3>1
  <2>2. CASE c = "schedule"
    BY <1>1, <2>2
  <2> QED BY <1>4, <2>1, <2>2
<1> QED BY <1>4, <1>5

LEMMA SinksStack ==
  ASSUME TypeOK, Ordered, CreateSinks
  PROVE  Becomes({"shutdown", "schedule"} \cup Codes(Rest))
<1>1. PICK made \in SUBSET ready : pc' = (IF made = {} THEN <<"shutdown">> ELSE <<>>) \o AfterFiles
  BY DEF CreateSinks
<1>2. /\ AfterFiles \in Seq(Code1) /\ Sorted(AfterFiles)
      /\ Codes(AfterFiles) \subseteq {"schedule"} \cup Codes(Rest)
      /\ \A c \in Codes(AfterFiles) : Rank("shutdown") < Rank(c)
  BY FilesStack DEF CreateSinks
<1>3. "shutdown" \in Code1
  BY DEF Code1
<1>4. /\ pc' \in Seq(Code1) /\ Sorted(pc')
      /\ Codes(pc') \subseteq {"shutdown"} \cup Codes(AfterFiles)
  BY <1>1, <1>2, <1>3, PushIf
<1> QED BY <1>2, <1>4 DEF Becomes

LEMMA MovieStack ==
  ASSUME TypeOK, Ordered, CreateMovie
  PROVE  \/ Becomes({"schedule"} \cup Codes(Rest))
         \/ Becomes({"shutdown", "crashed"}) /\ At("shutdown")'
<1>1. pc' = AfterFiles \/ pc' = <<"shutdown", "crashed">>
  BY DEF CreateMovie
<1>2. CASE pc' = AfterFiles
  BY <1>2, FilesStack DEF CreateMovie, Becomes
<1>3. CASE pc' = <<"shutdown", "crashed">>
  <2>1. /\ "shutdown" \in Code1 /\ "crashed" \in Code1 /\ Rank("shutdown") < Rank("crashed")
    BY DEF Code1, Rank, Early, Timers
  <2>2. pc' = <<"shutdown">> \o <<"crashed">>
    BY <1>3
  <2>3. <<"crashed">> \in Seq(Code1) /\ Sorted(<<"crashed">>) /\ Codes(<<"crashed">>) = {"crashed"}
    BY <2>1, One
  <2>4. /\ pc' \in Seq(Code1) /\ pc' # <<>> /\ Head(pc') = "shutdown" /\ Sorted(pc')
        /\ Codes(pc') = {"shutdown"} \cup Codes(<<"crashed">>)
    BY <2>1, <2>2, <2>3, Push
  <2> QED BY <2>3, <2>4 DEF Becomes, At
<1> QED BY <1>1, <1>2, <1>3

LEMMA PlayStack ==
  ASSUME NEW r, ContinueAfterPLAY(r)
  PROVE  Becomes({"shutdown"}) \/ (Becomes(Chain) /\ Ok(r))
<1>1. \/ pc' = <<"shutdown">>
      \/ pc' = <<"qos", "duration", "arrival", "gaps", "keepAlive">> /\ Ok(r)
  BY DEF ContinueAfterPLAY
<1>2. CASE pc' = <<"shutdown">>
  BY <1>2, BecomesOne DEF Code1
<1>3. CASE pc' = <<"qos", "duration", "arrival", "gaps", "keepAlive">>
  <2>1. /\ {"qos", "duration", "arrival", "gaps", "keepAlive"} \subseteq Code1
        /\ Chain = {"qos", "duration", "arrival", "gaps", "keepAlive"}
        /\ Rank("qos") = 6 /\ Rank("duration") = 7 /\ Rank("arrival") = 8
        /\ Rank("gaps") = 9 /\ Rank("keepAlive") = 10
    BY DEF Code1, Rank, Early, Timers, Chain
  <2>2. /\ pc' \in Seq(Code1) /\ Len(pc') = 5 /\ pc'[1] = "qos" /\ pc'[2] = "duration"
        /\ pc'[3] = "arrival" /\ pc'[4] = "gaps" /\ pc'[5] = "keepAlive"
    BY <1>3, <2>1
  <2>3. \A i \in 1..5 : i = 1 \/ i = 2 \/ i = 3 \/ i = 4 \/ i = 5
    OBVIOUS
  <2>4. Codes(pc') \subseteq Chain
    BY <2>1, <2>2, <2>3 DEF Codes
  <2>5. \A i \in 1..5 : Rank(pc'[i]) = i + 5
    BY <2>1, <2>2, <2>3
  <2>6. Sorted(pc')
    BY <2>2, <2>5 DEF Sorted
  <2> QED BY <1>1, <1>3, <2>2, <2>4, <2>6 DEF Becomes
<1> QED BY <1>1, <1>2, <1>3

LEMMA GapsStack ==
  ASSUME TypeOK, Ordered, CheckInterPacketGaps
  PROVE  \/ pc' = Rest /\ Becomes(Codes(Rest))
         \/ pc' = <<"ended">> \o Rest /\ Becomes({"ended"} \cup Codes(Rest))
<1>1. At("gaps") /\ (pc' = Rest \/ pc' = <<"ended">> \o Rest)
  BY DEF CheckInterPacketGaps
<1>2. "ended" \in Code1 /\ Rank("ended") <= Rank("gaps")
  BY DEF Code1, Rank, Early, Timers
<1> QED BY <1>1, <1>2, BecomesRest, BecomesBefore

LEMMA EndedStack ==
  ASSUME TypeOK, Ordered, SessionAfterPlaying
  PROVE  \/ "continuous" \in opt /\ Becomes({"play"} \cup Codes(Rest))
         \/ "continuous" \notin opt /\ Becomes({"shutdown"} \cup Codes(Rest))
<1>1. /\ At("ended")
      /\ \/ "continuous" \in opt /\ pc' = <<"play">> \o Rest
         \/ "continuous" \notin opt /\ pc' = <<"shutdown">> \o Rest
  BY DEF SessionAfterPlaying
<1>2. /\ "play" \in Code1 /\ Rank("play") <= Rank("ended")
      /\ "shutdown" \in Code1 /\ Rank("shutdown") <= Rank("ended")
  BY DEF Code1, Rank, Early, Timers
<1> QED BY <1>1, <1>2, BecomesBefore

LEMMA ShutdownStack ==
  ASSUME TypeOK, Ordered, Shutdown
  PROVE  IF closing THEN Becomes(Codes(Rest))
         ELSE IF session THEN Becomes({"teardown"} \cup Codes(Rest))
         ELSE Becomes({"exited"}) /\ At("exited")' /\ Codes(pc') = {"exited"}
<1>1. /\ At("shutdown")
      /\ IF closing THEN pc' = Rest
         ELSE IF session THEN pc' = <<"teardown">> \o Rest ELSE pc' = <<"exited">>
  BY DEF Shutdown
<1>2. "teardown" \in Code1 /\ "exited" \in Code1 /\ Rank("teardown") <= Rank("shutdown")
  BY DEF Code1, Rank, Early, Timers
<1> QED BY <1>1, <1>2, BecomesRest, BecomesBefore, BecomesOne

LEMMA ExpireStack ==
  ASSUME NEW t \in Timers, Expire(t)
  PROVE  IF t = "duration" THEN Becomes({"ended"})
         ELSE IF t = "periodic" THEN Becomes({"rotate"}) ELSE Becomes({t})
<1>1. pc' = IF t = "duration" THEN <<"ended">> ELSE IF t = "periodic" THEN <<"rotate">> ELSE <<t>>
  BY DEF Expire
<1>2. "ended" \in Code1 /\ "rotate" \in Code1 /\ t \in Code1
  BY DEF Code1
<1> QED BY <1>1, <1>2, BecomesOne

LEMMA LastSinkStack ==
  ASSUME NEW s \in Subs, SubsessionAfterPlaying(s)
  PROVE  Becomes({"ended"})
<1>1. pc' = <<"ended">> \/ pc' = <<>>
  BY DEF SubsessionAfterPlaying, LastSink
<1>2. "ended" \in Code1
  BY DEF Code1
<1> QED BY <1>1, <1>2, BecomesOne, Nothing DEF Becomes
-----------------------------------------------------------------------------
(* Types.                                                                   *)

LEMMA InitType == Init => TypeOK /\ Ordered
<1> SUFFICES ASSUME Init
             PROVE  TypeOK /\ Ordered
  OBVIOUS
<1>1. pc \in Seq(Code1) /\ Sorted(pc)
  <2>1. "start" \in Code1 /\ pc = <<"start">>
    BY DEF Init, Code1
  <2> QED BY <2>1, One
<1>2. /\ what \in Seq([k : Kinds, sub : Subs \cup {NoSub}])
      /\ sent = 1..Len(what) /\ sent \subseteq Requests
  <2>1. what = <<>> /\ sent = {}
    BY DEF Init, S!Init
  <2> QED BY <2>1
<1>3. /\ answered \in [Requests -> S!Answers \cup {"none"}]
      /\ told \in [Requests -> {<<>>} \cup {<<how>> : how \in S!Answers \cup {"error"}}]
  BY DEF Init, S!Init
<1>4. closing \in BOOLEAN /\ overlap \in BOOLEAN /\ session \in BOOLEAN /\ progress \in BOOLEAN
  BY DEF Init
<1>5. armed \in [Timers -> Nat] /\ named \subseteq {t \in Timers : armed[t] > 0}
  BY DEF Init
<1>6. counted \in BOOLEAN /\ movie \in BOOLEAN
  BY DEF Init
<1> QED BY <1>1, <1>2, <1>3, <1>4, <1>5, <1>6 DEF Init, TypeOK, Ordered

\* Cancelling and scheduling keep the counts natural.
LEMMA UnscheduleType ==
  ASSUME TypeOK, UnscheduleAll
  PROVE  /\ armed' \in [Timers -> Nat] /\ named' \subseteq {t \in Timers : armed'[t] > 0}
         /\ named' = {}
         /\ \A t \in Timers : armed'[t] = armed[t] - IF t \in named THEN 1 ELSE 0
<1>1. armed' = [t \in Timers |-> armed[t] - IF t \in named THEN 1 ELSE 0] /\ named' = {}
  BY DEF UnscheduleAll
<1>2. ASSUME NEW t \in Timers
      PROVE  armed[t] - (IF t \in named THEN 1 ELSE 0) \in Nat
  <2>1. armed[t] \in Nat /\ (t \in named => armed[t] > 0)
    BY DEF TypeOK
  <2> QED BY <2>1
<1> QED BY <1>1, <1>2

LEMMA ArmType ==
  ASSUME TypeOK, NEW t \in Timers, Arm(t)
  PROVE  /\ armed' \in [Timers -> Nat] /\ named' \subseteq {u \in Timers : armed'[u] > 0}
         /\ armed'[t] = armed[t] + 1 /\ named' = named \cup {t}
         /\ \A u \in Timers \ {t} : armed'[u] = armed[u]
<1>1. /\ armed \in [Timers -> Nat] /\ named \subseteq {u \in Timers : armed[u] > 0}
      /\ armed' = [armed EXCEPT ![t] = @ + 1] /\ named' = named \cup {t}
  BY DEF TypeOK, Arm
<1>2. armed[t] \in Nat /\ armed[t] + 1 \in Nat /\ armed[t] + 1 > 0
  BY <1>1
<1> QED BY <1>1, <1>2

LEMMA ExpireType ==
  ASSUME TypeOK, NEW t \in Timers, Expire(t)
  PROVE  /\ armed' \in [Timers -> Nat] /\ named' \subseteq {u \in Timers : armed'[u] > 0}
         /\ armed[t] > 0 /\ armed'[t] = armed[t] - 1
         /\ \A u \in Timers \ {t} : armed'[u] = armed[u]
         /\ named' = named \/ named' = named \ {t}
         /\ named' = named => armed[t] > IF t \in named THEN 1 ELSE 0
<1>1. /\ armed \in [Timers -> Nat] /\ named \subseteq {u \in Timers : armed[u] > 0}
      /\ armed' = [armed EXCEPT ![t] = @ - 1]
  BY DEF TypeOK, Expire
<1>2. PICK own \in BOOLEAN :
        /\ IF own THEN t \in named ELSE armed[t] > IF t \in named THEN 1 ELSE 0
        /\ named' = IF own \/ t = "duration" THEN named \ {t} ELSE named
  BY DEF Expire
<1>3. armed[t] \in Nat /\ armed[t] > 0
  BY <1>1, <1>2
<1>4. armed' \in [Timers -> Nat] /\ armed'[t] = armed[t] - 1
  <2>1. armed[t] - 1 \in Nat
    BY <1>3
  <2> QED BY <1>1, <2>1
<1>5. \A u \in Timers \ {t} : armed'[u] = armed[u]
  BY <1>1
<1>6. named' = named => armed[t] > IF t \in named THEN 1 ELSE 0
  BY <1>2, <1>3
<1>7. named' \subseteq {u \in Timers : armed'[u] > 0}
  <2> SUFFICES ASSUME NEW u \in named'
               PROVE  u \in Timers /\ armed'[u] > 0
    OBVIOUS
  <2>1. u \in named /\ u \in Timers /\ armed[u] > 0
    BY <1>1, <1>2
  <2>2. CASE u = t
    <3>1. named' = named
      BY <1>2, <2>1, <2>2
    <3>2. armed[t] > 1
      BY <1>6, <2>1, <2>2, <3>1
    <3> QED BY <1>3, <1>4, <2>1, <2>2, <3>2
  <2>3. CASE u # t
    BY <1>5, <2>1, <2>3
  <2> QED BY <2>2, <2>3
<1> QED BY <1>2, <1>3, <1>4, <1>5, <1>6, <1>7

\* What the stack and the requests do to the types is known: the rest.
LEMMA Types ==
  ASSUME TypeOK, Becomes(Code1), opt' = opt,
         /\ what' \in Seq([k : Kinds, sub : Subs \cup {NoSub}])
         /\ sent' = 1..Len(what') /\ sent' \subseteq Requests
         /\ answered' \in [Requests -> S!Answers \cup {"none"}]
         /\ told' \in [Requests -> {<<>>} \cup {<<how>> : how \in S!Answers \cup {"error"}}],
         /\ session' \in BOOLEAN /\ ready' \subseteq Subs /\ left' \subseteq Subs
         /\ iter' \in {"none", "live", "deleted"} /\ sub' \in Subs \cup {NoSub},
         /\ progress' \in BOOLEAN /\ sinks' \subseteq ready' /\ bye' \subseteq ready'
         /\ movie' \in BOOLEAN,
         armed' \in [Timers -> Nat] /\ named' \subseteq {t \in Timers : armed'[t] > 0},
         counted' \in BOOLEAN /\ closing' \in BOOLEAN /\ overlap' \in BOOLEAN
  PROVE  TypeOK' /\ Ordered'
<1>1. pc' \in Seq(Code1) /\ Ordered' /\ opt' \in Options
  BY DEF TypeOK, Becomes, Ordered
<1> QED BY <1>1 DEF TypeOK

LEMMA Wider ==
  ASSUME NEW codes, Becomes(codes)
  PROVE  Becomes(Code1)
<1>1. pc' \in Seq(Code1) /\ Sorted(pc')
  BY DEF Becomes
<1>2. Codes(pc') \subseteq Code1
  BY <1>1 DEF Codes
<1> QED BY <1>1, <1>2 DEF Becomes

\* A request that is sent, told, answered, or none of it.
Served ==
  \/ UNCHANGED <<what, service>>
  \/ \E k \in Kinds, s \in Subs \cup {NoSub} : Send(k, s)
  \/ what' = what /\ \E q : S!Tell(q)
  \/ what' = what /\ \E q : S!Answer(q)

LEMMA RequestTypes ==
  ASSUME TypeOK, Served
  PROVE  /\ what' \in Seq([k : Kinds, sub : Subs \cup {NoSub}])
         /\ sent' = 1..Len(what') /\ sent' \subseteq Requests
         /\ answered' \in [Requests -> S!Answers \cup {"none"}]
         /\ told' \in [Requests -> {<<>>} \cup {<<how>> : how \in S!Answers \cup {"error"}}]
<1>t. /\ what \in Seq([k : Kinds, sub : Subs \cup {NoSub}])
      /\ sent = 1..Len(what) /\ sent \subseteq Requests
      /\ answered \in [Requests -> S!Answers \cup {"none"}]
      /\ told \in [Requests -> {<<>>} \cup {<<how>> : how \in S!Answers \cup {"error"}}]
  BY DEF TypeOK
<1>1. CASE UNCHANGED <<what, service>>
  BY <1>t, <1>1 DEF service
<1>2. ASSUME NEW k \in Kinds, NEW s \in Subs \cup {NoSub}, Send(k, s)
      PROVE  /\ what' \in Seq([k : Kinds, sub : Subs \cup {NoSub}])
             /\ sent' = 1..Len(what') /\ sent' \subseteq Requests
             /\ answered' = answered /\ told' = told
  BY <1>2, Sent
<1>3. ASSUME NEW r, what' = what, S!Tell(r)
      PROVE  /\ sent' = sent /\ answered' = answered
             /\ told' \in [Requests -> {<<>>} \cup {<<how>> : how \in S!Answers \cup {"error"}}]
  BY <1>3, ToldOnce
<1>4. ASSUME NEW r, what' = what, S!Answer(r)
      PROVE  /\ sent' = sent /\ told' = told
             /\ answered' \in [Requests -> S!Answers \cup {"none"}]
  BY <1>4, AnsweredOnly
<1> QED BY <1>t, <1>1, <1>2, <1>3, <1>4 DEF Served

\* One step per action.
LEMMA NextType == TypeOK /\ Ordered /\ Control /\ [Next]_vars => TypeOK' /\ Ordered'
<1> SUFFICES ASSUME TypeOK, Ordered, Control, [Next]_vars
             PROVE  TypeOK' /\ Ordered'
  OBVIOUS
<1>k. /\ {"OPTIONS", "DESCRIBE", "SETUP", "PLAY", "TEARDOWN"} = Kinds /\ NoSub \in Subs \cup {NoSub}
      /\ {"options", "setup", "files", "exited"} \subseteq Code1
  BY DEF Kinds, Code1
<1>t. /\ session \in BOOLEAN /\ ready \subseteq Subs /\ left \subseteq Subs
      /\ iter \in {"none", "live", "deleted"} /\ sub \in Subs \cup {NoSub}
      /\ progress \in BOOLEAN /\ sinks \subseteq ready /\ bye \subseteq ready /\ movie \in BOOLEAN
      /\ armed \in [Timers -> Nat] /\ named \subseteq {t \in Timers : armed[t] > 0}
      /\ counted \in BOOLEAN /\ closing \in BOOLEAN /\ overlap \in BOOLEAN
  BY DEF TypeOK
<1>1. ASSUME GetOptions
      PROVE  TypeOK' /\ Ordered'
  <2>1. Becomes(Code1)
    BY <1>1, <1>k, BecomesOne, Wider, Nothing DEF GetOptions, Becomes
  <2>2. Served
    BY <1>1, <1>k DEF Served, GetOptions, service
  <2> QED BY <1>1, <1>t, <2>1, <2>2, RequestTypes, Types DEF GetOptions, setup, output, timers
<1>2. ASSUME NEW r, OptionsAnswered(r)
      PROVE  TypeOK' /\ Ordered'
  <2>1. Becomes(Code1)
    BY <1>2, <1>k, BecomesOne, Wider DEF OptionsAnswered
  <2>2. Served
    BY <1>2 DEF Served, OptionsAnswered, Handle
  <2> QED BY <1>2, <1>t, <2>1, <2>2, RequestTypes, Types DEF OptionsAnswered, setup, output, timers
<1>3. ASSUME ContinueAfterOPTIONS
      PROVE  TypeOK' /\ Ordered'
  <2>1. Becomes(Code1)
    BY <1>3, OptionsStack, Wider
  <2>2. Served
    BY <1>3 DEF Served, ContinueAfterOPTIONS
  <2> QED BY <1>3, <1>t, <2>1, <2>2, RequestTypes, Types DEF ContinueAfterOPTIONS, setup, output, timers
<1>4. ASSUME Describe
      PROVE  TypeOK' /\ Ordered'
  <2>1. Becomes(Code1)
    BY <1>4, BecomesRest, Wider DEF Describe
  <2>2. Served
    BY <1>4, <1>k DEF Served, Describe
  <2> QED BY <1>4, <1>t, <2>1, <2>2, RequestTypes, Types DEF Describe, setup, output, timers
<1>5. ASSUME NEW r, ContinueAfterDESCRIBE(r)
      PROVE  TypeOK' /\ Ordered'
  <2>1. Becomes(Code1)
    BY <1>5, DescribeStack, Wider
  <2>2. Served
    BY <1>5 DEF Served, ContinueAfterDESCRIBE, Handle
  <2>3. /\ session' \in BOOLEAN /\ ready' \subseteq Subs /\ left' \subseteq Subs
        /\ iter' \in {"none", "live", "deleted"} /\ sub' \in Subs \cup {NoSub}
        /\ sinks' \subseteq ready' /\ bye' \subseteq ready'
    <3>1. r \in Pending("DESCRIBE") /\ sinks' = sinks /\ bye' = bye
      BY <1>5 DEF ContinueAfterDESCRIBE, Handle, output
    <3>2. sinks = {} /\ bye = {}
      <4>1. r \in Asked /\ r \notin Pending("SETUP")
        BY <3>1 DEF Asked, Pending, Made
      <4>2. iter = "none"
        BY <1>t, <4>1 DEF Control
      <4> QED BY <4>2 DEF Control
    <3>3. CASE UNCHANGED setup
      BY <1>t, <3>1, <3>2, <3>3 DEF setup
    <3>4. CASE /\ session' = TRUE /\ iter' = "live" /\ sub' = sub
               /\ \E rd, ports \in SUBSET Subs : Chosen(rd, ports) /\ ready' = rd /\ left' = ports
      BY <1>t, <3>1, <3>2, <3>4
    <3> QED BY <1>5, <3>3, <3>4 DEF ContinueAfterDESCRIBE
  <2> QED BY <1>5, <1>t, <2>1, <2>2, RequestTypes, Types, <2>3 DEF ContinueAfterDESCRIBE, setup, output, timers
<1>6. ASSUME SetupNext
      PROVE  TypeOK' /\ Ordered'
  <2>1. Becomes(Code1)
    BY <1>6, BecomesRest, Wider DEF SetupNext
  <2>2. Served
    BY <1>6, <1>k DEF Served, SetupNext
  <2> QED BY <1>6, <1>t, <2>1, <2>2, RequestTypes, Types DEF SetupNext, First, setup, output, timers
<1>7. ASSUME NEW r, ContinueAfterSETUP(r)
      PROVE  TypeOK' /\ Ordered'
  <2>1. Becomes(Code1)
    BY <1>7, <1>k, BecomesOne, Wider DEF ContinueAfterSETUP
  <2>2. Served
    BY <1>7 DEF Served, ContinueAfterSETUP, Handle
  <2> QED BY <1>7, <1>t, <2>1, <2>2, RequestTypes, Types DEF ContinueAfterSETUP, setup, output, timers
<1>8. ASSUME SetupDone
      PROVE  TypeOK' /\ Ordered'
  <2>1. Becomes(Code1)
    BY <1>8, SetupDoneStack, Wider
  <2>2. Served
    BY <1>8 DEF Served, SetupDone
  <2> QED BY <1>8, <1>t, <2>1, <2>2, RequestTypes, Types DEF SetupDone, setup, output, timers
<1>9. ASSUME CreateSinks
      PROVE  TypeOK' /\ Ordered'
  <2>1. Becomes(Code1)
    BY <1>9, SinksStack, Wider
  <2>2. Served
    BY <1>9 DEF Served, CreateSinks
  <2> QED BY <1>9, <1>t, <2>1, <2>2, RequestTypes, Types DEF CreateSinks, setup, output, timers
<1>10. ASSUME CreateMovie
      PROVE  TypeOK' /\ Ordered'
  <2>1. Becomes(Code1)
    BY <1>10, MovieStack, Wider
  <2>2. Served
    BY <1>10 DEF Served, CreateMovie
  <2> QED BY <1>10, <1>t, <2>1, <2>2, RequestTypes, Types DEF CreateMovie, setup, output, timers
<1>11. ASSUME SchedulePeriodic
      PROVE  TypeOK' /\ Ordered'
  <2>1. Becomes(Code1)
    BY <1>11, BecomesRest, Wider DEF SchedulePeriodic
  <2>2. Served
    BY <1>11 DEF Served, SchedulePeriodic
  <2>3. armed' \in [Timers -> Nat] /\ named' \subseteq {t \in Timers : armed'[t] > 0}
    BY <1>11, ArmType DEF SchedulePeriodic, Timers
  <2> QED BY <1>11, <1>t, <2>1, <2>2, RequestTypes, Types, <2>3 DEF SchedulePeriodic, setup, output, timers
<1>12. ASSUME StartPlaying
      PROVE  TypeOK' /\ Ordered'
  <2>1. Becomes(Code1)
    BY <1>12, BecomesRest, Wider DEF StartPlaying
  <2>2. Served
    BY <1>12, <1>k DEF Served, StartPlaying
  <2> QED BY <1>12, <1>t, <2>1, <2>2, RequestTypes, Types DEF StartPlaying, setup, output, timers
<1>13. ASSUME NEW r, ContinueAfterPLAY(r)
      PROVE  TypeOK' /\ Ordered'
  <2>1. Becomes(Code1)
    BY <1>13, PlayStack, Wider
  <2>2. Served
    BY <1>13 DEF Served, ContinueAfterPLAY, Handle
  <2> QED BY <1>13, <1>t, <2>1, <2>2, RequestTypes, Types DEF ContinueAfterPLAY, setup, output, timers
<1>14. ASSUME NEW u \in Timers, Watch(u)
      PROVE  TypeOK' /\ Ordered'
  <2>1. Becomes(Code1)
    BY <1>14, BecomesRest, Wider DEF Watch
  <2>2. Served
    BY <1>14 DEF Served, Watch
  <2>3. armed' \in [Timers -> Nat] /\ named' \subseteq {t \in Timers : armed'[t] > 0}
    BY <1>14, <1>t, ArmType DEF Watch
  <2> QED BY <1>14, <1>t, <2>1, <2>2, RequestTypes, Types, <2>3 DEF Watch, setup, output, timers
<1>15. ASSUME CheckInterPacketGaps
      PROVE  TypeOK' /\ Ordered'
  <2>1. Becomes(Code1)
    BY <1>15, GapsStack, Wider
  <2>2. Served
    BY <1>15 DEF Served, CheckInterPacketGaps
  <2>3. armed' \in [Timers -> Nat] /\ named' \subseteq {t \in Timers : armed'[t] > 0}
    <3>1. "gaps" \in Timers
      BY DEF Timers
    <3> QED BY <1>15, <1>t, <3>1, ArmType DEF CheckInterPacketGaps, timers
  <2>4. counted' \in BOOLEAN
    BY <1>15, <1>t DEF CheckInterPacketGaps, timers
  <2> QED BY <1>15, <1>t, <2>1, <2>2, RequestTypes, Types, <2>3, <2>4 DEF CheckInterPacketGaps, setup, output, timers
<1>16. ASSUME NEW u \in Timers, Expire(u)
      PROVE  TypeOK' /\ Ordered'
  <2>1. Becomes(Code1)
    BY <1>16, ExpireStack, Wider
  <2>2. Served
    BY <1>16 DEF Served, Expire
  <2>3. armed' \in [Timers -> Nat] /\ named' \subseteq {t \in Timers : armed'[t] > 0}
    BY <1>16, ExpireType
  <2> QED BY <1>16, <1>t, <2>1, <2>2, RequestTypes, Types, <2>3 DEF Expire, setup, output, timers
<1>17. ASSUME Rotate
      PROVE  TypeOK' /\ Ordered'
  <2>1. Becomes(Code1)
    BY <1>17, <1>k, BecomesOne, Wider DEF Rotate
  <2>2. Served
    BY <1>17 DEF Served, Rotate
  <2> QED BY <1>17, <1>t, <2>1, <2>2, RequestTypes, Types DEF Rotate, setup, output, timers
<1>18. ASSUME NEW s \in Subs, SubsessionAfterPlaying(s)
      PROVE  TypeOK' /\ Ordered'
  <2>1. Becomes(Code1)
    BY <1>18, LastSinkStack, Wider
  <2>2. Served
    BY <1>18 DEF Served, SubsessionAfterPlaying
  <2> QED BY <1>18, <1>t, <2>1, <2>2, RequestTypes, Types DEF SubsessionAfterPlaying, setup, output, timers
<1>19. ASSUME MovieEnds
      PROVE  TypeOK' /\ Ordered'
  <2>1. Becomes(Code1)
    BY <1>19, BecomesOne, Wider DEF MovieEnds, Code1
  <2>2. Served
    BY <1>19 DEF Served, MovieEnds
  <2> QED BY <1>19, <1>t, <2>1, <2>2, RequestTypes, Types DEF MovieEnds, setup, output, timers
<1>20. ASSUME SessionAfterPlaying
      PROVE  TypeOK' /\ Ordered'
  <2>1. Becomes(Code1)
    BY <1>20, EndedStack, Wider
  <2>2. Served
    BY <1>20 DEF Served, SessionAfterPlaying
  <2>3. armed' \in [Timers -> Nat] /\ named' \subseteq {t \in Timers : armed'[t] > 0}
    BY <1>20, <1>t, UnscheduleType DEF SessionAfterPlaying, timers
  <2>4. counted' \in BOOLEAN
    BY <1>20, <1>t DEF SessionAfterPlaying, timers
  <2> QED BY <1>20, <1>t, <2>1, <2>2, RequestTypes, Types, <2>3, <2>4 DEF SessionAfterPlaying, setup, output, timers
<1>21. ASSUME Shutdown
      PROVE  TypeOK' /\ Ordered'
  <2>1. Becomes(Code1)
    BY <1>21, ShutdownStack, Wider
  <2>2. Served
    BY <1>21, <1>k DEF Served, Shutdown, service
  <2>3. armed' \in [Timers -> Nat] /\ named' \subseteq {t \in Timers : armed'[t] > 0}
    BY <1>21, <1>t, UnscheduleType DEF Shutdown
  <2> QED BY <1>21, <1>t, <2>1, <2>2, RequestTypes, Types, <2>3 DEF Shutdown, setup, output, timers
<1>22. ASSUME Teardown
      PROVE  TypeOK' /\ Ordered'
  <2>1. Becomes(Code1)
    BY <1>22, <1>k, BecomesOne, BecomesRest, Wider DEF Teardown
  <2>2. Served
    BY <1>22 DEF Served, Teardown
  <2> QED BY <1>22, <1>t, <2>1, <2>2, RequestTypes, Types DEF Teardown, setup, output, timers
<1>23. ASSUME NEW r, ContinueAfterTEARDOWN(r)
      PROVE  TypeOK' /\ Ordered'
  <2>1. Becomes(Code1)
    BY <1>23, <1>k, BecomesOne, Wider DEF ContinueAfterTEARDOWN
  <2>2. Served
    BY <1>23 DEF Served, ContinueAfterTEARDOWN, Handle
  <2> QED BY <1>23, <1>t, <2>1, <2>2, RequestTypes, Types DEF ContinueAfterTEARDOWN, setup, output, timers
<1>24. ASSUME SignalHandlerShutdown
      PROVE  TypeOK' /\ Ordered'
  <2>1. Becomes(Code1)
    BY <1>24, <1>k, BecomesOne, Wider DEF SignalHandlerShutdown
  <2>2. Served
    BY <1>24, <1>k DEF Served, SignalHandlerShutdown
  <2>3. armed' \in [Timers -> Nat] /\ named' \subseteq {t \in Timers : armed'[t] > 0}
    BY <1>24, <1>t, UnscheduleType DEF SignalHandlerShutdown
  <2> QED BY <1>24, <1>t, <2>1, <2>2, RequestTypes, Types, <2>3 DEF SignalHandlerShutdown, setup, output, timers
<1>25. ASSUME NEW r, Answer(r)
      PROVE  TypeOK' /\ Ordered'
  <2>1. Becomes(Code1)
    BY <1>25 DEF Answer, TypeOK, Ordered, Becomes, Codes
  <2>2. Served
    BY <1>25 DEF Served, Answer
  <2> QED BY <1>25, <1>t, <2>1, <2>2, RequestTypes, Types DEF Answer, setup, output, timers
<1>26. CASE UNCHANGED vars
  <2>1. Becomes(Code1)
    BY <1>26 DEF vars, TypeOK, Ordered, Becomes, Codes
  <2>2. Served
    BY <1>26 DEF Served, vars
  <2> QED BY <1>26, <1>t, <2>1, <2>2, RequestTypes, Types DEF vars, setup, output, timers
<1> QED BY <1>1, <1>2, <1>3, <1>4, <1>5, <1>6, <1>7, <1>8, <1>9, <1>10, <1>11, <1>12, <1>13, <1>14,
           <1>15, <1>16, <1>17, <1>18, <1>19, <1>20, <1>21, <1>22, <1>23, <1>24, <1>25, <1>26
        DEF Next, Code, Told
-----------------------------------------------------------------------------
(* The setup.                                                               *)

LEMMA InitParts == Init => Control /\ Closing /\ Single
<1> SUFFICES ASSUME Init
             PROVE  Control /\ Closing /\ Single
  OBVIOUS
<1>1. Todo = {"start"} /\ Codes(pc) = {"start"}
  <2>1. "start" \in Code1 /\ pc = <<"start">>
    BY DEF Init, Code1
  <2> QED BY <2>1, One DEF Todo
<1>2. \A k : Made(k) = {} /\ Pending(k) = {}
  BY DEF Init, S!Init, Made, Pending
<1>3. Asked = {}
  BY <1>2 DEF Asked
<1>4. Control
  BY <1>1, <1>2, <1>3 DEF Init, Control, Early, Late, Timers
<1>5. Closing
  BY <1>1, <1>2 DEF Init, Closing
<1>6. Single
  BY <1>1, <1>2 DEF Init, Single, Alone, Chain, Timers
<1> QED BY <1>4, <1>5, <1>6

\* What only happens once the streams have been set up.
LEMMA Playing ==
  ASSUME TypeOK, Control,
         \/ Todo \cap Late # {}
         \/ Pending("PLAY") # {}
         \/ \E t \in Timers : armed[t] > 0
         \/ sinks # {} \/ bye # {} \/ movie
  PROVE  iter = "deleted" /\ Todo \cap Early = {} /\ Asked = {}
<1>1. iter = "deleted"
  <2> SUFFICES ASSUME iter # "deleted"
               PROVE  FALSE
    OBVIOUS
  <2>1. armed = [t \in Timers |-> 0] /\ sinks = {} /\ bye = {} /\ ~movie
        /\ Todo \cap Late = {} /\ Pending("PLAY") = {}
    BY DEF Control
  <2>2. \A t \in Timers : armed[t] = 0 /\ ~(armed[t] > 0)
    BY <2>1
  <2> QED BY <2>1, <2>2
<1> QED BY <1>1 DEF Control

\* Then the setup is over.
LEMMA PlayingStays ==
  ASSUME Control, iter = "deleted", iter' = iter, session' = session,
         Todo' \cap Early = {}, Asked' = {}
  PROVE  Control'
<1>1. \A r1, r2 \in Asked' : r1 = r2
  OBVIOUS
<1>2. Pending("SETUP")' = {}
  BY DEF Asked
<1> QED BY <1>1, <1>2 DEF Control

\* Before there is a session, nothing runs but one step of the setup.
LEMMA Opening ==
  ASSUME Control, iter = "none", iter' = iter, session' = session,
         UNCHANGED output, armed' = armed, counted' = counted,
         Pending("PLAY")' = {}, Pending("SETUP")' = {},
         Todo' \cap Late = {}, "setup" \notin Todo',
         Todo' \cap Early = {} \/ Asked' = {}, \A r1, r2 \in Asked' : r1 = r2
  PROVE  Control'
  BY DEF Control, output

\* What does not touch the setup.
LEMMA SetupStays ==
  ASSUME Control, UNCHANGED setup, UNCHANGED output, counted' = counted,
         Todo' \cap (Early \cup Late) \subseteq Todo,
         \A j \in {"OPTIONS", "DESCRIBE", "SETUP", "PLAY"} : Pending(j)' \subseteq Pending(j),
         \A r \in Pending("SETUP")' : what'[r] = what[r],
         iter # "deleted" => armed' = armed
  PROVE  Control'
<1>1. Asked' \subseteq Asked
  BY DEF Asked
<1>2. Todo' \cap Early \subseteq Todo /\ Todo' \cap Late \subseteq Todo /\ "setup" \in Early
  BY DEF Early
<1>3. \A r1, r2 \in Asked' : r1 = r2
  BY <1>1 DEF Control
<1>4. \A r \in Pending("SETUP")' : what'[r].sub = sub'
  BY DEF Control, setup
<1>5. session' <=> iter' # "none"
  BY DEF Control, setup
<1>6. Todo' \cap Early # {} => Asked' = {}
  BY <1>1, <1>2 DEF Control
<1>7. iter' = "none" => "setup" \notin Todo' /\ Pending("SETUP")' = {}
  BY <1>2 DEF Control, setup
<1>8. iter' = "live" => Todo' \cap Early \subseteq {"setup"} /\ Asked' = Pending("SETUP")'
  <2>1. iter = "live" => Asked' \subseteq Pending("SETUP")'
    <3> SUFFICES ASSUME iter = "live", NEW r \in Asked'
                 PROVE  r \in Pending("SETUP")'
      OBVIOUS
    <3>1. r \in Pending("SETUP")
      BY <1>1 DEF Control
    <3>2. r \in sent' /\ told'[r] = <<>> /\ r \in Asked
      BY <1>1 DEF Asked, Pending, Made
    <3>3. r \notin Pending("OPTIONS") /\ r \notin Pending("DESCRIBE")
      BY <3>1 DEF Pending, Made
    <3> QED BY <3>3 DEF Asked
  <2>2. iter' = iter
    BY DEF setup
  <2> QED BY <1>2, <2>1, <2>2 DEF Control, Asked
<1>9. iter' = "deleted" => Todo' \cap Early = {} /\ Asked' = {}
  BY <1>1, <1>2 DEF Control, setup
<1>10. iter' # "deleted" => /\ Todo' \cap Late = {} /\ Pending("PLAY")' = {}
                           /\ armed' = [t \in Timers |-> 0] /\ ~counted'
                           /\ sinks' = {} /\ bye' = {} /\ ~movie'
  BY <1>2 DEF Control, setup, output
<1> QED BY <1>3, <1>4, <1>5, <1>6, <1>7, <1>8, <1>9, <1>10 DEF Control

\* Where the setup is when one of its steps runs, or a response is handled.
LEMMA AtSetup ==
  ASSUME TypeOK, Ordered, Control, NEW p \in Early, At(p)
  PROVE  /\ Todo = {p} /\ Rest = <<>> /\ Codes(Rest) = {}
         /\ Asked = {} /\ \A j \in {"OPTIONS", "DESCRIBE", "SETUP", "PLAY"} : Pending(j) = {}
         /\ iter = IF p = "setup" THEN "live" ELSE "none"
<1>1. Todo = {p} /\ Rest = <<>> /\ Codes(Rest) = {}
  BY Top, SetupStack
<1>2. Asked = {} /\ iter = IF p = "setup" THEN "live" ELSE "none"
  <2>1. Asked = {} /\ iter # "deleted" /\ (iter = "live" => p = "setup")
        /\ (iter = "none" => p # "setup")
    BY <1>1 DEF Control
  <2> QED BY <2>1 DEF TypeOK
<1>3. Pending("PLAY") = {}
  BY <1>2 DEF Control
<1> QED BY <1>1, <1>2, <1>3 DEF Asked

LEMMA HandlesSetup ==
  ASSUME TypeOK, Control, NEW k \in {"OPTIONS", "DESCRIBE", "SETUP"}, NEW r, Handle(r, k),
         what' = what
  PROVE  /\ Asked' = {} /\ \A j \in {"OPTIONS", "DESCRIBE", "SETUP", "PLAY"} : Pending(j)' = {}
         /\ iter = IF k = "SETUP" THEN "live" ELSE "none"
<1>1. r \in Pending(k) /\ S!Tell(r)
  BY DEF Handle
<1>2. \A j : Pending(j)' = Pending(j) \ {r}
  BY <1>1, ToldOnce
<1>3. r \in Asked /\ \A q \in Asked : q = r
  BY <1>1 DEF Asked, Control
<1>4. Asked' = {} /\ \A j \in {"OPTIONS", "DESCRIBE", "SETUP"} : Pending(j)' = {}
  BY <1>2, <1>3 DEF Asked
<1>5. iter = IF k = "SETUP" THEN "live" ELSE "none"
  <2>1. iter # "deleted"
    BY <1>3 DEF Control
  <2>2. k # "SETUP" => r \notin Pending("SETUP")
    BY <1>1 DEF Pending, Made
  <2>3. iter = "live" => k = "SETUP"
    BY <1>3, <2>2 DEF Control
  <2>4. iter = "none" => k # "SETUP"
    BY <1>1 DEF Control
  <2> QED BY <2>1, <2>3, <2>4 DEF TypeOK
<1>6. Pending("PLAY")' = {}
  BY <1>2, <1>5 DEF Control
<1> QED BY <1>4, <1>5, <1>6

\* There is nothing to cancel while the streams are set up.
LEMMA NothingArmed ==
  ASSUME TypeOK, Control, iter # "deleted", UnscheduleAll
  PROVE  armed' = armed
<1>1. armed = [t \in Timers |-> 0] /\ \A t \in Timers : armed[t] = 0
  <2>1. armed = [t \in Timers |-> 0]
    BY DEF Control
  <2> QED BY <2>1
<1>2. named = {}
  <2> SUFFICES ASSUME NEW t \in named
               PROVE  FALSE
    OBVIOUS
  <2>1. t \in Timers /\ armed[t] > 0
    BY DEF TypeOK
  <2> QED BY <1>1, <2>1
<1>3. armed' = [t \in Timers |-> armed[t] - IF t \in named THEN 1 ELSE 0]
  BY DEF UnscheduleAll
<1>4. \A t \in Timers : armed[t] - (IF t \in named THEN 1 ELSE 0) = 0
  BY <1>1, <1>2
<1> QED BY <1>1, <1>3, <1>4

LEMMA NextControl == TypeOK /\ Ordered /\ Control /\ [Next]_vars => Control'
<1> SUFFICES ASSUME TypeOK, Ordered, Control, [Next]_vars
             PROVE  Control'
  OBVIOUS
<1> DEFINE Four == {"OPTIONS", "DESCRIBE", "SETUP", "PLAY"}
<1>e. /\ \A p \in Early : p \notin Late
      /\ "shutdown" \notin Early \cup Late /\ "teardown" \notin Early \cup Late
      /\ "exited" \notin Early \cup Late
      /\ Early = {"start", "options", "describe", "setup"}
      /\ Late \subseteq Code1 /\ Timers \subseteq Late
      /\ {"files", "schedule", "play", "rotate", "ended", "crashed"} \subseteq Late
  BY DEF Early, Late, Timers, Code1
<1>t. sub \in Subs \cup {NoSub}
  BY DEF TypeOK
<1>k. /\ {"OPTIONS", "DESCRIBE", "SETUP", "PLAY", "TEARDOWN"} = Kinds /\ NoSub \in Subs \cup {NoSub}
  BY DEF Kinds
<1>c. ASSUME NEW codes, Becomes(codes)
      PROVE  Todo' \subseteq codes
  BY <1>c DEF Becomes, Todo
<1>1. ASSUME GetOptions
      PROVE  Control'
  <2>1. /\ iter = "none" /\ \A j \in Four : Pending(j) = {}
    BY <1>1, <1>e, AtSetup DEF GetOptions
  <2>2. CASE "noOptions" \in opt
    <3>1. Todo' = {"options"}
      BY <1>1, <2>2, BecomesOne DEF GetOptions, Todo, Code1
    <3>2. \A j \in Four : Pending(j)' = {}
      BY <1>1, <2>1, <2>2, SameRequests DEF GetOptions
    <3>3. Asked' = {}
      BY <3>2 DEF Asked
    <3> QED BY <1>1, <1>e, <2>1, <3>1, <3>2, <3>3, Opening DEF GetOptions, setup, timers
  <2>3. CASE "noOptions" \notin opt
    <3>1. Todo' = {}
      BY <1>1, <2>3, Nothing DEF GetOptions, Todo
    <3>2. PICK n : n = Len(what')
      OBVIOUS
    <3>5. Pending("OPTIONS")' \subseteq Pending("OPTIONS") \cup {n}
      BY <1>1, <1>k, <2>3, <3>2, Sent DEF GetOptions
    <3>4. \A j \in Four \ {"OPTIONS"} : Pending(j)' \subseteq Pending(j)
      BY <1>1, <1>k, <2>3, Sent DEF GetOptions
    <3>3. Asked' \subseteq {n} /\ Pending("PLAY")' = {} /\ Pending("SETUP")' = {}
      BY <2>1, <3>4, <3>5 DEF Asked
    <3> QED BY <1>1, <2>1, <3>1, <3>3, Opening DEF GetOptions, setup, timers
  <2> QED BY <2>2, <2>3
<1>2. ASSUME NEW r, OptionsAnswered(r)
      PROVE  Control'
  <2>1. /\ iter = "none" /\ Asked' = {} /\ \A j \in Four : Pending(j)' = {}
    BY <1>2, HandlesSetup DEF OptionsAnswered
  <2>2. Todo' = {"options"}
    BY <1>2, BecomesOne DEF OptionsAnswered, Todo, Code1
  <2> QED BY <1>2, <1>e, <2>1, <2>2, Opening DEF OptionsAnswered, setup, timers
<1>3. ASSUME ContinueAfterOPTIONS
      PROVE  Control'
  <2>1. /\ iter = "none" /\ \A j \in Four : Pending(j) = {}
    BY <1>3, <1>e, AtSetup DEF ContinueAfterOPTIONS
  <2>2. Todo' \subseteq {"shutdown", "describe"}
    BY <1>3, <1>c, OptionsStack
  <2>3. \A j \in Four : Pending(j)' = {}
    BY <1>3, <2>1, SameRequests DEF ContinueAfterOPTIONS
  <2>4. Asked' = {}
    BY <2>3 DEF Asked
  <2> QED BY <1>3, <1>e, <2>1, <2>2, <2>3, <2>4, Opening DEF ContinueAfterOPTIONS, setup, timers
<1>4. ASSUME Describe
      PROVE  Control'
  <2>1. /\ iter = "none" /\ \A j \in Four : Pending(j) = {}
    BY <1>4, <1>e, AtSetup DEF Describe
  <2>2. Todo' = {}
    BY <1>4, <1>e, AtSetup DEF Describe, Todo
  <2>3. PICK n : n = Len(what')
    OBVIOUS
  <2>6. Pending("DESCRIBE")' \subseteq Pending("DESCRIBE") \cup {n}
    BY <1>4, <1>k, <2>3, Sent DEF Describe
  <2>5. \A j \in Four \ {"DESCRIBE"} : Pending(j)' \subseteq Pending(j)
    BY <1>4, <1>k, Sent DEF Describe
  <2>4. Asked' \subseteq {n} /\ Pending("PLAY")' = {} /\ Pending("SETUP")' = {}
    BY <2>1, <2>5, <2>6 DEF Asked
  <2> QED BY <1>4, <2>1, <2>2, <2>4, Opening DEF Describe, setup, timers
<1>5. ASSUME NEW r, ContinueAfterDESCRIBE(r)
      PROVE  Control'
  <2>1. /\ iter = "none" /\ Asked' = {} /\ \A j \in Four : Pending(j)' = {}
    BY <1>5, HandlesSetup DEF ContinueAfterDESCRIBE
  <2>2. Todo' \subseteq {"shutdown", "setup"}
    BY <1>5, <1>c, DescribeStack
  <2>3. CASE pc' = <<"shutdown">> /\ UNCHANGED setup
    <3>1. Todo' = {"shutdown"}
      BY <2>3, BecomesOne DEF Todo, Code1
    <3> QED BY <1>5, <1>e, <2>1, <2>3, <3>1, Opening DEF ContinueAfterDESCRIBE, setup, timers
  <2>4. CASE session' = TRUE /\ iter' = "live"
    <3>1. Todo' \cap Early \subseteq {"setup"} /\ Todo' \cap Late = {}
      BY <1>e, <2>2
    <3>2. \A r1, r2 \in Asked' : r1 = r2
      BY <2>1
    <3>3. UNCHANGED <<armed, counted, sinks, bye, movie>>
      BY <1>5 DEF ContinueAfterDESCRIBE, timers, output
    <3> QED BY <2>1, <2>4, <3>1, <3>2, <3>3 DEF Control
  <2> QED BY <1>5, <2>3, <2>4 DEF ContinueAfterDESCRIBE
<1>6. ASSUME SetupNext
      PROVE  Control'
  <2>1. /\ iter = "live" /\ Todo' = {} /\ \A j \in Four : Pending(j) = {}
    BY <1>6, <1>e, AtSetup DEF SetupNext, Todo
  <2>2. PICK s \in Subs : sub' = s /\ Send("SETUP", s)
    BY <1>6 DEF SetupNext
  <2>9. PICK n : n = Len(what')
    OBVIOUS
  <2>3. what'[n].sub = s /\ Pending("SETUP")' \subseteq Pending("SETUP") \cup {n}
    BY <1>k, <2>2, <2>9, Sent
  <2>8. \A j \in Four \ {"SETUP"} : Pending(j)' \subseteq Pending(j)
    BY <1>k, <2>2, Sent
  <2>4. /\ Asked' \subseteq {n} /\ Pending("PLAY")' = {} /\ Pending("SETUP")' \subseteq {n}
        /\ Asked' = Pending("SETUP")'
    BY <2>1, <2>3, <2>8 DEF Asked
  <2>5. /\ UNCHANGED <<armed, counted, sinks, bye, movie, session, iter>>
    BY <1>6 DEF SetupNext, timers, output
  <2>6. \A r1, r2 \in Asked' : r1 = r2
    BY <2>4
  <2>7. \A r \in Pending("SETUP")' : what'[r].sub = sub'
    BY <2>2, <2>3, <2>4
  <2> QED BY <2>1, <2>4, <2>5, <2>6, <2>7 DEF Control
<1>7. ASSUME NEW r, ContinueAfterSETUP(r)
      PROVE  Control'
  <2>1. /\ iter = "live" /\ Asked' = {} /\ \A j \in Four : Pending(j)' = {}
    BY <1>7, HandlesSetup DEF ContinueAfterSETUP
  <2>2. Todo' = {"setup"}
    BY <1>7, BecomesOne DEF ContinueAfterSETUP, Todo, Code1
  <2>3. UNCHANGED <<armed, counted, sinks, bye, movie, session, iter>>
    BY <1>7 DEF ContinueAfterSETUP, timers, output, setup
  <2>4. \A r1, r2 \in Asked' : r1 = r2
    BY <2>1
  <2>5. Todo' \cap Late = {}
    BY <1>e, <2>2
  <2> QED BY <2>1, <2>2, <2>3, <2>4, <2>5 DEF Control
<1>8. ASSUME SetupDone
      PROVE  Control'
  <2>1. iter = "live" /\ \A j \in Four : Pending(j) = {}
    BY <1>8, <1>e, AtSetup DEF SetupDone
  <2>2. Todo' \cap Early = {}
    BY <1>8, <1>c, <1>e, SetupDoneStack
  <2>3. \A j \in Four : Pending(j)' = {}
    BY <1>8, <2>1, SameRequests DEF SetupDone
  <2>4. iter' = "deleted" /\ session' /\ Asked' = {}
    BY <1>8, <2>1, <2>3 DEF SetupDone, Control, Asked
  <2>5. \A r1, r2 \in Asked' : r1 = r2
    BY <2>4
  <2> QED BY <2>2, <2>3, <2>4, <2>5 DEF Control
<1>9. ASSUME CreateSinks
      PROVE  Control'
  <2>1. "files" \in Todo \cap Late /\ Codes(Rest) \subseteq Todo
    BY <1>9, <1>e, Top DEF CreateSinks
  <2>2. iter = "deleted" /\ Todo \cap Early = {} /\ Asked = {}
    BY <2>1, Playing
  <2>3. Todo' \cap Early = {}
    BY <1>9, <1>c, <1>e, <2>1, <2>2, SinksStack
  <2>4. \A j \in {"OPTIONS", "DESCRIBE", "SETUP"} : Pending(j)' \subseteq Pending(j)
    BY <1>9, SameRequests DEF CreateSinks
  <2>5. Asked' = {}
    BY <2>2, <2>4 DEF Asked
  <2> QED BY <1>9, <2>2, <2>3, <2>5, PlayingStays DEF CreateSinks, setup
<1>10. ASSUME CreateMovie
      PROVE  Control'
  <2>1. "files" \in Todo \cap Late /\ Codes(Rest) \subseteq Todo
    BY <1>10, <1>e, Top DEF CreateMovie
  <2>2. iter = "deleted" /\ Todo \cap Early = {} /\ Asked = {}
    BY <2>1, Playing
  <2>3. Todo' \cap Early = {}
    BY <1>10, <1>c, <1>e, <2>1, <2>2, MovieStack
  <2>4. \A j \in {"OPTIONS", "DESCRIBE", "SETUP"} : Pending(j)' \subseteq Pending(j)
    BY <1>10, SameRequests DEF CreateMovie
  <2>5. Asked' = {}
    BY <2>2, <2>4 DEF Asked
  <2> QED BY <1>10, <2>2, <2>3, <2>5, PlayingStays DEF CreateMovie, setup
<1>11. ASSUME SchedulePeriodic
      PROVE  Control'
  <2>1. "schedule" \in Todo \cap Late /\ Codes(Rest) \subseteq Todo
    BY <1>11, <1>e, Top DEF SchedulePeriodic
  <2>2. iter = "deleted" /\ Todo \cap Early = {} /\ Asked = {}
    BY <2>1, Playing
  <2>3. Todo' \cap Early = {}
    BY <1>11, <1>c, <2>1, <2>2, BecomesRest DEF SchedulePeriodic
  <2>4. \A j \in {"OPTIONS", "DESCRIBE", "SETUP"} : Pending(j)' \subseteq Pending(j)
    BY <1>11, SameRequests DEF SchedulePeriodic
  <2>5. Asked' = {}
    BY <2>2, <2>4 DEF Asked
  <2> QED BY <1>11, <2>2, <2>3, <2>5, PlayingStays DEF SchedulePeriodic, setup
<1>12. ASSUME StartPlaying
      PROVE  Control'
  <2>1. "play" \in Todo \cap Late /\ Codes(Rest) \subseteq Todo
    BY <1>12, <1>e, Top DEF StartPlaying
  <2>2. iter = "deleted" /\ Todo \cap Early = {} /\ Asked = {}
    BY <2>1, Playing
  <2>3. Todo' \cap Early = {}
    BY <1>12, <1>c, <2>1, <2>2, BecomesRest DEF StartPlaying
  <2>4. \A j \in {"OPTIONS", "DESCRIBE", "SETUP"} : Pending(j)' \subseteq Pending(j)
    BY <1>12, <1>k, Sent DEF StartPlaying
  <2>5. Asked' = {}
    BY <2>2, <2>4 DEF Asked
  <2> QED BY <1>12, <2>2, <2>3, <2>5, PlayingStays DEF StartPlaying, setup
<1>13. ASSUME NEW r, ContinueAfterPLAY(r)
      PROVE  Control'
  <2>2. iter = "deleted" /\ Todo \cap Early = {} /\ Asked = {}
    BY <1>13, Playing DEF ContinueAfterPLAY, Handle
  <2>3. Todo' \cap Early = {}
    BY <1>13, <1>c, <1>e, <2>2, PlayStack DEF Chain
  <2>4. \A j \in {"OPTIONS", "DESCRIBE", "SETUP"} : Pending(j)' \subseteq Pending(j)
    BY <1>13, ToldOnce DEF ContinueAfterPLAY, Handle
  <2>5. Asked' = {}
    BY <2>2, <2>4 DEF Asked
  <2> QED BY <1>13, <2>2, <2>3, <2>5, PlayingStays DEF ContinueAfterPLAY, setup
<1>14. ASSUME NEW u \in Timers, Watch(u)
      PROVE  Control'
  <2>1. u \in Todo \cap Late /\ Codes(Rest) \subseteq Todo
    BY <1>14, <1>e, Top DEF Watch
  <2>2. iter = "deleted" /\ Todo \cap Early = {} /\ Asked = {}
    BY <2>1, Playing
  <2>3. Todo' \cap Early = {}
    BY <1>14, <1>c, <2>1, <2>2, BecomesRest DEF Watch
  <2>4. \A j \in {"OPTIONS", "DESCRIBE", "SETUP"} : Pending(j)' \subseteq Pending(j)
    BY <1>14, SameRequests DEF Watch
  <2>5. Asked' = {}
    BY <2>2, <2>4 DEF Asked
  <2> QED BY <1>14, <2>2, <2>3, <2>5, PlayingStays DEF Watch, setup
<1>15. ASSUME CheckInterPacketGaps
      PROVE  Control'
  <2>1. "gaps" \in Todo \cap Late /\ Codes(Rest) \subseteq Todo
    <3>1. "gaps" \in Timers
      BY DEF Timers
    <3> QED BY <1>15, <1>e, <3>1, Top DEF CheckInterPacketGaps
  <2>2. iter = "deleted" /\ Todo \cap Early = {} /\ Asked = {}
    BY <2>1, Playing
  <2>3. Todo' \cap Early = {}
    BY <1>15, <1>c, <1>e, <2>1, <2>2, GapsStack
  <2>4. \A j \in {"OPTIONS", "DESCRIBE", "SETUP"} : Pending(j)' \subseteq Pending(j)
    BY <1>15, SameRequests DEF CheckInterPacketGaps
  <2>5. Asked' = {}
    BY <2>2, <2>4 DEF Asked
  <2> QED BY <1>15, <2>2, <2>3, <2>5, PlayingStays DEF CheckInterPacketGaps, setup
<1>16. ASSUME NEW u \in Timers, Expire(u)
      PROVE  Control'
  <2>2. iter = "deleted" /\ Todo \cap Early = {} /\ Asked = {}
    BY <1>16, ExpireType, Playing
  <2>3. Todo' \cap Early = {}
    BY <1>16, <1>c, <1>e, <2>2, ExpireStack
  <2>4. \A j \in {"OPTIONS", "DESCRIBE", "SETUP"} : Pending(j)' \subseteq Pending(j)
    BY <1>16, SameRequests DEF Expire
  <2>5. Asked' = {}
    BY <2>2, <2>4 DEF Asked
  <2> QED BY <1>16, <2>2, <2>3, <2>5, PlayingStays DEF Expire, setup
<1>17. ASSUME Rotate
      PROVE  Control'
  <2>1. "rotate" \in Todo \cap Late /\ Codes(Rest) \subseteq Todo
    BY <1>17, <1>e, Top DEF Rotate
  <2>2. iter = "deleted" /\ Todo \cap Early = {} /\ Asked = {}
    BY <2>1, Playing
  <2>3. Todo' \cap Early = {}
    BY <1>17, <1>c, <1>e, BecomesOne DEF Rotate
  <2>4. \A j \in {"OPTIONS", "DESCRIBE", "SETUP"} : Pending(j)' \subseteq Pending(j)
    BY <1>17, SameRequests DEF Rotate
  <2>5. Asked' = {}
    BY <2>2, <2>4 DEF Asked
  <2> QED BY <1>17, <2>2, <2>3, <2>5, PlayingStays DEF Rotate, setup
<1>18. ASSUME NEW s \in Subs, SubsessionAfterPlaying(s)
      PROVE  Control'
  <2>2. iter = "deleted" /\ Todo \cap Early = {} /\ Asked = {}
    BY <1>18, Playing DEF SubsessionAfterPlaying
  <2>3. Todo' \cap Early = {}
    BY <1>18, <1>c, <1>e, <2>2, LastSinkStack
  <2>4. \A j \in {"OPTIONS", "DESCRIBE", "SETUP"} : Pending(j)' \subseteq Pending(j)
    BY <1>18, SameRequests DEF SubsessionAfterPlaying
  <2>5. Asked' = {}
    BY <2>2, <2>4 DEF Asked
  <2> QED BY <1>18, <2>2, <2>3, <2>5, PlayingStays DEF SubsessionAfterPlaying, setup
<1>19. ASSUME MovieEnds
      PROVE  Control'
  <2>2. iter = "deleted" /\ Todo \cap Early = {} /\ Asked = {}
    BY <1>19, Playing DEF MovieEnds
  <2>3. Todo' \cap Early = {}
    BY <1>19, <1>c, <1>e, BecomesOne DEF MovieEnds
  <2>4. \A j \in {"OPTIONS", "DESCRIBE", "SETUP"} : Pending(j)' \subseteq Pending(j)
    BY <1>19, SameRequests DEF MovieEnds
  <2>5. Asked' = {}
    BY <2>2, <2>4 DEF Asked
  <2> QED BY <1>19, <2>2, <2>3, <2>5, PlayingStays DEF MovieEnds, setup
<1>20. ASSUME SessionAfterPlaying
      PROVE  Control'
  <2>1. "ended" \in Todo \cap Late /\ Codes(Rest) \subseteq Todo
    BY <1>20, <1>e, Top DEF SessionAfterPlaying
  <2>2. iter = "deleted" /\ Todo \cap Early = {} /\ Asked = {}
    BY <2>1, Playing
  <2>3. Todo' \cap Early = {}
    BY <1>20, <1>c, <1>e, <2>1, <2>2, EndedStack
  <2>4. \A j \in {"OPTIONS", "DESCRIBE", "SETUP"} : Pending(j)' \subseteq Pending(j)
    BY <1>20, SameRequests DEF SessionAfterPlaying
  <2>5. Asked' = {}
    BY <2>2, <2>4 DEF Asked
  <2> QED BY <1>20, <2>2, <2>3, <2>5, PlayingStays DEF SessionAfterPlaying, setup
<1>21. ASSUME Shutdown
      PROVE  Control'
  <2>1. Todo' \cap (Early \cup Late) \subseteq Todo
    <3>1. Codes(Rest) \subseteq Todo
      BY <1>21, Top DEF Shutdown
    <3> QED BY <1>21, <1>c, <1>e, <3>1, ShutdownStack
  <2>2. CASE UNCHANGED <<what, service>>
    <3>1. \A j : Pending(j)' = Pending(j)
      BY <2>2, SameRequests
    <3>2. iter # "deleted" => armed' = armed
      BY <1>21, NothingArmed DEF Shutdown
    <3> QED BY <1>21, <2>1, <2>2, <3>1, <3>2, SetupStays DEF Shutdown
  <2>3. CASE Send("TEARDOWN", NoSub)
    <3>1. /\ \A j \in Four : Pending(j)' \subseteq Pending(j)
          /\ \A q \in sent : what'[q] = what[q]
      BY <1>k, <2>3, Sent
    <3>2. \A q \in Pending("SETUP")' : what'[q] = what[q]
      BY <3>1 DEF Pending, Made
    <3>3. iter # "deleted" => armed' = armed
      BY <1>21, NothingArmed DEF Shutdown
    <3> QED BY <1>21, <2>1, <3>1, <3>2, <3>3, SetupStays DEF Shutdown
  <2> QED BY <1>21, <2>2, <2>3 DEF Shutdown
<1>22. ASSUME Teardown
      PROVE  Control'
  <2>1. Todo' \cap (Early \cup Late) \subseteq Todo
    <3>1. Codes(Rest) \subseteq Todo
      BY <1>22, Top DEF Teardown
    <3>2. "exited" \in Code1
      BY DEF Code1
    <3> QED BY <1>22, <1>c, <1>e, <3>1, <3>2, BecomesOne, BecomesRest DEF Teardown
  <2>2. \A j : Pending(j)' \subseteq Pending(j)
    BY <1>22, SameRequests, ToldOnce DEF Teardown
  <2> QED BY <1>22, <2>1, <2>2, SetupStays DEF Teardown, timers
<1>23. ASSUME NEW r, ContinueAfterTEARDOWN(r)
      PROVE  Control'
  <2>1. Todo' \cap (Early \cup Late) \subseteq Todo
    BY <1>23, <1>c, <1>e, BecomesOne DEF ContinueAfterTEARDOWN, Code1
  <2>2. \A j : Pending(j)' \subseteq Pending(j)
    BY <1>23, ToldOnce DEF ContinueAfterTEARDOWN, Handle
  <2> QED BY <1>23, <2>1, <2>2, SetupStays DEF ContinueAfterTEARDOWN, timers
<1>24. ASSUME SignalHandlerShutdown
      PROVE  Control'
  <2>1. Todo' \cap (Early \cup Late) \subseteq Todo
    BY <1>24, <1>c, <1>e, BecomesOne DEF SignalHandlerShutdown, Code1
  <2>2. iter # "deleted" => armed' = armed
    BY <1>24, NothingArmed DEF SignalHandlerShutdown
  <2>3. CASE UNCHANGED <<what, service>>
    <3>1. \A j : Pending(j)' = Pending(j)
      BY <2>3, SameRequests
    <3> QED BY <1>24, <2>1, <2>2, <2>3, <3>1, SetupStays DEF SignalHandlerShutdown
  <2>4. CASE Send("TEARDOWN", NoSub)
    <3>1. /\ \A j \in Four : Pending(j)' \subseteq Pending(j)
          /\ \A q \in sent : what'[q] = what[q]
      BY <1>k, <2>4, Sent
    <3>2. \A q \in Pending("SETUP")' : what'[q] = what[q]
      BY <3>1 DEF Pending, Made
    <3> QED BY <1>24, <2>1, <2>2, <3>1, <3>2, SetupStays DEF SignalHandlerShutdown
  <2> QED BY <1>24, <2>3, <2>4 DEF SignalHandlerShutdown
<1>25. ASSUME NEW r, Answer(r)
      PROVE  Control'
  <2>1. Todo' = Todo
    BY <1>25 DEF Answer, Todo, Codes
  <2>2. \A j : Pending(j)' = Pending(j)
    BY <1>25, AnsweredOnly DEF Answer
  <2> QED BY <1>25, <2>1, <2>2, SetupStays DEF Answer, timers
<1>26. CASE UNCHANGED vars
  <2>1. Todo' = Todo
    BY <1>26 DEF vars, Todo, Codes
  <2>2. \A j : Pending(j)' = Pending(j)
    BY <1>26, SameRequests DEF vars
  <2> QED BY <1>26, <2>1, <2>2, SetupStays DEF vars, timers
<1> QED BY <1>1, <1>2, <1>3, <1>4, <1>5, <1>6, <1>7, <1>8, <1>9, <1>10, <1>11, <1>12, <1>13, <1>14,
           <1>15, <1>16, <1>17, <1>18, <1>19, <1>20, <1>21, <1>22, <1>23, <1>24, <1>25, <1>26
        DEF Next, Code, Told
-----------------------------------------------------------------------------
(* The end.                                                                 *)

\* The program runs until somebody closes it, which needs no session to end.
LEMMA Alive ==
  ASSUME TypeOK, Ordered, Closing, InLoop \/ \E p : p # "exited" /\ At(p)
  PROVE  "exited" \notin Todo /\ (closing => session)
<1>1. CASE InLoop
  BY <1>1, Nothing DEF InLoop, Todo, Closing
<1>2. CASE \E p : p # "exited" /\ At(p)
  BY <1>2 DEF At, Closing
<1> QED BY <1>1, <1>2

LEMMA ClosingStays ==
  ASSUME TypeOK, Closing, "exited" \notin Todo, closing' = closing, session => session',
         Made("TEARDOWN")' = Made("TEARDOWN"),
         "exited" \notin Todo', "crashed" \in Todo' => closing' \/ At("shutdown")'
  PROVE  Closing'
  BY DEF Closing, TypeOK

LEMMA NextClosing == TypeOK /\ Ordered /\ Closing /\ [Next]_vars => Closing'
<1> SUFFICES ASSUME TypeOK, Ordered, Closing, [Next]_vars
             PROVE  Closing'
  OBVIOUS
<1>k. /\ {"OPTIONS", "DESCRIBE", "SETUP", "PLAY", "TEARDOWN"} = Kinds /\ NoSub \in Subs \cup {NoSub}
  BY DEF Kinds
<1>c. ASSUME NEW codes, Becomes(codes)
      PROVE  Todo' \subseteq codes
  BY <1>c DEF Becomes, Todo
<1>p. /\ Chain = {"keepAlive", "arrival", "gaps", "qos", "duration"}
      /\ Timers = {"periodic", "keepAlive", "arrival", "gaps", "qos", "duration"}
  BY DEF Chain, Timers
<1>m. /\ {"options", "setup", "rotate", "files", "exited", "ended", "shutdown"} \subseteq Code1
  BY DEF Code1
<1>1. ASSUME GetOptions
      PROVE  Closing'
  <2>1. /\ "exited" \notin Todo /\ (closing => session) /\ Codes(Rest) \subseteq Todo
        /\ ~At("shutdown")
    BY <1>1, <1>p, Alive, Top DEF GetOptions, At
  <2>2. "exited" \notin Todo' /\ ("crashed" \in Todo' => "crashed" \in Todo)
    BY <1>1, <1>c, <1>m, <1>p, <2>1, Nothing, BecomesOne DEF GetOptions, Todo
  <2>3. Made("TEARDOWN")' = Made("TEARDOWN")
    BY <1>1, <1>k, SameRequests, Sent DEF GetOptions
  <2>4. closing' = closing /\ (session => session')
    BY <1>1 DEF GetOptions, setup
  <2> QED BY <2>1, <2>2, <2>3, <2>4, ClosingStays DEF Closing
<1>2. ASSUME NEW r, OptionsAnswered(r)
      PROVE  Closing'
  <2>1. "exited" \notin Todo /\ (closing => session) /\ Todo = {}
    BY <1>2, Alive, Nothing DEF OptionsAnswered, Handle, Todo, InLoop
  <2>2. "exited" \notin Todo' /\ ("crashed" \in Todo' => "crashed" \in Todo)
    BY <1>2, <1>c, <1>m, <1>p, BecomesOne DEF OptionsAnswered, Todo
  <2>3. Made("TEARDOWN")' = Made("TEARDOWN")
    BY <1>2, ToldOnce DEF OptionsAnswered, Handle
  <2>4. closing' = closing /\ (session => session')
    BY <1>2 DEF OptionsAnswered, setup
  <2> QED BY <2>1, <2>2, <2>3, <2>4, ClosingStays DEF Closing
<1>3. ASSUME ContinueAfterOPTIONS
      PROVE  Closing'
  <2>1. /\ "exited" \notin Todo /\ (closing => session) /\ Codes(Rest) \subseteq Todo
        /\ ~At("shutdown")
    BY <1>3, <1>p, Alive, Top DEF ContinueAfterOPTIONS, At
  <2>2. "exited" \notin Todo' /\ ("crashed" \in Todo' => "crashed" \in Todo)
    BY <1>3, <1>c, <1>m, <1>p, <2>1, OptionsStack
  <2>3. Made("TEARDOWN")' = Made("TEARDOWN")
    BY <1>3, SameRequests DEF ContinueAfterOPTIONS
  <2>4. closing' = closing /\ (session => session')
    BY <1>3 DEF ContinueAfterOPTIONS, setup
  <2> QED BY <2>1, <2>2, <2>3, <2>4, ClosingStays DEF Closing
<1>4. ASSUME Describe
      PROVE  Closing'
  <2>1. /\ "exited" \notin Todo /\ (closing => session) /\ Codes(Rest) \subseteq Todo
        /\ ~At("shutdown")
    BY <1>4, <1>p, Alive, Top DEF Describe, At
  <2>2. "exited" \notin Todo' /\ ("crashed" \in Todo' => "crashed" \in Todo)
    BY <1>4, <1>c, <1>m, <1>p, <2>1, BecomesRest DEF Describe
  <2>3. Made("TEARDOWN")' = Made("TEARDOWN")
    BY <1>4, <1>k, Sent DEF Describe
  <2>4. closing' = closing /\ (session => session')
    BY <1>4 DEF Describe, setup
  <2> QED BY <2>1, <2>2, <2>3, <2>4, ClosingStays DEF Closing
<1>5. ASSUME NEW r, ContinueAfterDESCRIBE(r)
      PROVE  Closing'
  <2>1. "exited" \notin Todo /\ (closing => session) /\ Todo = {}
    BY <1>5, Alive, Nothing DEF ContinueAfterDESCRIBE, Handle, Todo, InLoop
  <2>2. "exited" \notin Todo' /\ ("crashed" \in Todo' => "crashed" \in Todo)
    BY <1>5, <1>c, <1>m, <1>p, DescribeStack
  <2>3. Made("TEARDOWN")' = Made("TEARDOWN")
    BY <1>5, ToldOnce DEF ContinueAfterDESCRIBE, Handle
  <2>4. closing' = closing /\ (session => session')
    BY <1>5 DEF ContinueAfterDESCRIBE, setup
  <2> QED BY <2>1, <2>2, <2>3, <2>4, ClosingStays DEF Closing
<1>6. ASSUME SetupNext
      PROVE  Closing'
  <2>1. /\ "exited" \notin Todo /\ (closing => session) /\ Codes(Rest) \subseteq Todo
        /\ ~At("shutdown")
    BY <1>6, <1>p, Alive, Top DEF SetupNext, At
  <2>2. "exited" \notin Todo' /\ ("crashed" \in Todo' => "crashed" \in Todo)
    BY <1>6, <1>c, <1>m, <1>p, <2>1, BecomesRest DEF SetupNext
  <2>3. Made("TEARDOWN")' = Made("TEARDOWN")
    BY <1>6, <1>k, Sent DEF SetupNext
  <2>4. closing' = closing /\ (session => session')
    BY <1>6 DEF SetupNext, setup
  <2> QED BY <2>1, <2>2, <2>3, <2>4, ClosingStays DEF Closing
<1>7. ASSUME NEW r, ContinueAfterSETUP(r)
      PROVE  Closing'
  <2>1. "exited" \notin Todo /\ (closing => session) /\ Todo = {}
    BY <1>7, Alive, Nothing DEF ContinueAfterSETUP, Handle, Todo, InLoop
  <2>2. "exited" \notin Todo' /\ ("crashed" \in Todo' => "crashed" \in Todo)
    BY <1>7, <1>c, <1>m, <1>p, BecomesOne DEF ContinueAfterSETUP, Todo
  <2>3. Made("TEARDOWN")' = Made("TEARDOWN")
    BY <1>7, ToldOnce DEF ContinueAfterSETUP, Handle
  <2>4. closing' = closing /\ (session => session')
    BY <1>7 DEF ContinueAfterSETUP, setup
  <2> QED BY <2>1, <2>2, <2>3, <2>4, ClosingStays DEF Closing
<1>8. ASSUME SetupDone
      PROVE  Closing'
  <2>1. /\ "exited" \notin Todo /\ (closing => session) /\ Codes(Rest) \subseteq Todo
        /\ ~At("shutdown")
    BY <1>8, <1>p, Alive, Top DEF SetupDone, At
  <2>2. "exited" \notin Todo' /\ ("crashed" \in Todo' => "crashed" \in Todo)
    BY <1>8, <1>c, <1>m, <1>p, <2>1, SetupDoneStack
  <2>3. Made("TEARDOWN")' = Made("TEARDOWN")
    BY <1>8, SameRequests DEF SetupDone
  <2>4. closing' = closing /\ (session => session')
    BY <1>8 DEF SetupDone, setup
  <2> QED BY <2>1, <2>2, <2>3, <2>4, ClosingStays DEF Closing
<1>9. ASSUME CreateSinks
      PROVE  Closing'
  <2>1. /\ "exited" \notin Todo /\ (closing => session) /\ Codes(Rest) \subseteq Todo
        /\ ~At("shutdown")
    BY <1>9, <1>p, Alive, Top DEF CreateSinks, At
  <2>2. "exited" \notin Todo' /\ ("crashed" \in Todo' => "crashed" \in Todo)
    BY <1>9, <1>c, <1>m, <1>p, <2>1, SinksStack
  <2>3. Made("TEARDOWN")' = Made("TEARDOWN")
    BY <1>9, SameRequests DEF CreateSinks
  <2>4. closing' = closing /\ (session => session')
    BY <1>9 DEF CreateSinks, setup
  <2> QED BY <2>1, <2>2, <2>3, <2>4, ClosingStays DEF Closing
<1>10. ASSUME CreateMovie
      PROVE  Closing'
  <2>1. /\ "exited" \notin Todo /\ (closing => session) /\ Codes(Rest) \subseteq Todo
        /\ ~At("shutdown")
    BY <1>10, <1>p, Alive, Top DEF CreateMovie, At
  <2>2. "exited" \notin Todo' /\ ("crashed" \in Todo' => "crashed" \in Todo \/ At("shutdown")')
    BY <1>10, <1>c, <1>m, <1>p, <2>1, MovieStack
  <2>3. Made("TEARDOWN")' = Made("TEARDOWN")
    BY <1>10, SameRequests DEF CreateMovie
  <2>4. closing' = closing /\ (session => session')
    BY <1>10 DEF CreateMovie, setup
  <2> QED BY <2>1, <2>2, <2>3, <2>4, ClosingStays DEF Closing
<1>11. ASSUME SchedulePeriodic
      PROVE  Closing'
  <2>1. /\ "exited" \notin Todo /\ (closing => session) /\ Codes(Rest) \subseteq Todo
        /\ ~At("shutdown")
    BY <1>11, <1>p, Alive, Top DEF SchedulePeriodic, At
  <2>2. "exited" \notin Todo' /\ ("crashed" \in Todo' => "crashed" \in Todo)
    BY <1>11, <1>c, <1>m, <1>p, <2>1, BecomesRest DEF SchedulePeriodic
  <2>3. Made("TEARDOWN")' = Made("TEARDOWN")
    BY <1>11, SameRequests DEF SchedulePeriodic
  <2>4. closing' = closing /\ (session => session')
    BY <1>11 DEF SchedulePeriodic, setup
  <2> QED BY <2>1, <2>2, <2>3, <2>4, ClosingStays DEF Closing
<1>12. ASSUME StartPlaying
      PROVE  Closing'
  <2>1. /\ "exited" \notin Todo /\ (closing => session) /\ Codes(Rest) \subseteq Todo
        /\ ~At("shutdown")
    BY <1>12, <1>p, Alive, Top DEF StartPlaying, At
  <2>2. "exited" \notin Todo' /\ ("crashed" \in Todo' => "crashed" \in Todo)
    BY <1>12, <1>c, <1>m, <1>p, <2>1, BecomesRest DEF StartPlaying
  <2>3. Made("TEARDOWN")' = Made("TEARDOWN")
    BY <1>12, <1>k, Sent DEF StartPlaying
  <2>4. closing' = closing /\ (session => session')
    BY <1>12 DEF StartPlaying, setup
  <2> QED BY <2>1, <2>2, <2>3, <2>4, ClosingStays DEF Closing
<1>13. ASSUME NEW r, ContinueAfterPLAY(r)
      PROVE  Closing'
  <2>1. "exited" \notin Todo /\ (closing => session) /\ Todo = {}
    BY <1>13, Alive, Nothing DEF ContinueAfterPLAY, Handle, Todo, InLoop
  <2>2. "exited" \notin Todo' /\ ("crashed" \in Todo' => "crashed" \in Todo)
    BY <1>13, <1>c, <1>m, <1>p, PlayStack
  <2>3. Made("TEARDOWN")' = Made("TEARDOWN")
    BY <1>13, ToldOnce DEF ContinueAfterPLAY, Handle
  <2>4. closing' = closing /\ (session => session')
    BY <1>13 DEF ContinueAfterPLAY, setup
  <2> QED BY <2>1, <2>2, <2>3, <2>4, ClosingStays DEF Closing
<1>14. ASSUME NEW u \in Timers, Watch(u)
      PROVE  Closing'
  <2>1. /\ "exited" \notin Todo /\ (closing => session) /\ Codes(Rest) \subseteq Todo
        /\ ~At("shutdown")
    BY <1>14, <1>p, Alive, Top DEF Watch, At
  <2>2. "exited" \notin Todo' /\ ("crashed" \in Todo' => "crashed" \in Todo)
    BY <1>14, <1>c, <1>m, <1>p, <2>1, BecomesRest DEF Watch
  <2>3. Made("TEARDOWN")' = Made("TEARDOWN")
    BY <1>14, SameRequests DEF Watch
  <2>4. closing' = closing /\ (session => session')
    BY <1>14 DEF Watch, setup
  <2> QED BY <2>1, <2>2, <2>3, <2>4, ClosingStays DEF Closing
<1>15. ASSUME CheckInterPacketGaps
      PROVE  Closing'
  <2>1. /\ "exited" \notin Todo /\ (closing => session) /\ Codes(Rest) \subseteq Todo
        /\ ~At("shutdown")
    BY <1>15, <1>p, Alive, Top DEF CheckInterPacketGaps, At
  <2>2. "exited" \notin Todo' /\ ("crashed" \in Todo' => "crashed" \in Todo)
    BY <1>15, <1>c, <1>m, <1>p, <2>1, GapsStack
  <2>3. Made("TEARDOWN")' = Made("TEARDOWN")
    BY <1>15, SameRequests DEF CheckInterPacketGaps
  <2>4. closing' = closing /\ (session => session')
    BY <1>15 DEF CheckInterPacketGaps, setup
  <2> QED BY <2>1, <2>2, <2>3, <2>4, ClosingStays DEF Closing
<1>16. ASSUME NEW u \in Timers, Expire(u)
      PROVE  Closing'
  <2>1. "exited" \notin Todo /\ (closing => session) /\ Todo = {}
    BY <1>16, Alive, Nothing DEF Expire, Handle, Todo, InLoop
  <2>2. "exited" \notin Todo' /\ ("crashed" \in Todo' => "crashed" \in Todo)
    BY <1>16, <1>c, <1>m, <1>p, ExpireStack
  <2>3. Made("TEARDOWN")' = Made("TEARDOWN")
    BY <1>16, SameRequests DEF Expire
  <2>4. closing' = closing /\ (session => session')
    BY <1>16 DEF Expire, setup
  <2> QED BY <2>1, <2>2, <2>3, <2>4, ClosingStays DEF Closing
<1>17. ASSUME Rotate
      PROVE  Closing'
  <2>1. /\ "exited" \notin Todo /\ (closing => session) /\ Codes(Rest) \subseteq Todo
        /\ ~At("shutdown")
    BY <1>17, <1>p, Alive, Top DEF Rotate, At
  <2>2. "exited" \notin Todo' /\ ("crashed" \in Todo' => "crashed" \in Todo)
    BY <1>17, <1>c, <1>m, <1>p, <2>1, BecomesOne DEF Rotate, Todo
  <2>3. Made("TEARDOWN")' = Made("TEARDOWN")
    BY <1>17, SameRequests DEF Rotate
  <2>4. closing' = closing /\ (session => session')
    BY <1>17 DEF Rotate, setup
  <2> QED BY <2>1, <2>2, <2>3, <2>4, ClosingStays DEF Closing
<1>18. ASSUME NEW s \in Subs, SubsessionAfterPlaying(s)
      PROVE  Closing'
  <2>1. "exited" \notin Todo /\ (closing => session) /\ Todo = {}
    BY <1>18, Alive, Nothing DEF SubsessionAfterPlaying, Todo, InLoop
  <2>2. "exited" \notin Todo' /\ ("crashed" \in Todo' => "crashed" \in Todo)
    BY <1>18, <1>c, <1>m, <1>p, LastSinkStack
  <2>3. Made("TEARDOWN")' = Made("TEARDOWN")
    BY <1>18, SameRequests DEF SubsessionAfterPlaying
  <2>4. closing' = closing /\ (session => session')
    BY <1>18 DEF SubsessionAfterPlaying, setup
  <2> QED BY <2>1, <2>2, <2>3, <2>4, ClosingStays DEF Closing
<1>19. ASSUME MovieEnds
      PROVE  Closing'
  <2>1. "exited" \notin Todo /\ (closing => session) /\ Todo = {}
    BY <1>19, Alive, Nothing DEF MovieEnds, Todo, InLoop
  <2>2. "exited" \notin Todo' /\ ("crashed" \in Todo' => "crashed" \in Todo)
    BY <1>19, <1>c, <1>m, <1>p, BecomesOne DEF MovieEnds, Todo
  <2>3. Made("TEARDOWN")' = Made("TEARDOWN")
    BY <1>19, SameRequests DEF MovieEnds
  <2>4. closing' = closing /\ (session => session')
    BY <1>19 DEF MovieEnds, setup
  <2> QED BY <2>1, <2>2, <2>3, <2>4, ClosingStays DEF Closing
<1>20. ASSUME SessionAfterPlaying
      PROVE  Closing'
  <2>1. /\ "exited" \notin Todo /\ (closing => session) /\ Codes(Rest) \subseteq Todo
        /\ ~At("shutdown")
    BY <1>20, <1>p, Alive, Top DEF SessionAfterPlaying, At
  <2>2. "exited" \notin Todo' /\ ("crashed" \in Todo' => "crashed" \in Todo)
    BY <1>20, <1>c, <1>m, <1>p, <2>1, EndedStack
  <2>3. Made("TEARDOWN")' = Made("TEARDOWN")
    BY <1>20, SameRequests DEF SessionAfterPlaying
  <2>4. closing' = closing /\ (session => session')
    BY <1>20 DEF SessionAfterPlaying, setup
  <2> QED BY <2>1, <2>2, <2>3, <2>4, ClosingStays DEF Closing
<1>21. ASSUME Shutdown
      PROVE  Closing'
  <2>1. /\ At("shutdown") /\ "exited" \notin Todo /\ (closing => session)
        /\ Codes(Rest) \subseteq Todo
    BY <1>21, Alive, Top DEF Shutdown
  <2>2. CASE closing
    <3>1. Todo' \subseteq Todo /\ closing' = closing /\ session' = session
      BY <1>21, <1>c, <2>1, <2>2, ShutdownStack DEF Shutdown, setup
    <3>2. Made("TEARDOWN")' = Made("TEARDOWN")
      BY <1>21, <2>2, SameRequests DEF Shutdown
    <3> QED BY <2>1, <2>2, <3>1, <3>2, ClosingStays
  <2>3. CASE ~closing /\ session
    <3>1. "exited" \notin Todo' /\ closing' = TRUE /\ session' = session
      BY <1>21, <1>c, <2>1, <2>3, ShutdownStack DEF Shutdown, setup
    <3>2. Made("TEARDOWN")' = Made("TEARDOWN") \cup {Len(what')}
      BY <1>21, <1>k, <2>3, Sent DEF Shutdown
    <3>3. Made("TEARDOWN")' = {Len(what')}
      BY <2>3, <3>2 DEF Closing
    <3>4. (\A r1, r2 \in Made("TEARDOWN") : r1 = r2)' /\ (Made("TEARDOWN") # {})'
      BY <3>3
    <3> QED BY <2>3, <3>1, <3>4 DEF Closing
  <2>4. CASE ~closing /\ ~session
    <3>1. At("exited")' /\ Todo' = {"exited"} /\ closing' = TRUE /\ session' = session
      BY <1>21, <2>4, ShutdownStack DEF Shutdown, setup, Todo
    <3>2. Made("TEARDOWN")' = {}
      BY <1>21, <2>4, SameRequests DEF Shutdown, Closing
    <3> QED BY <2>4, <3>1, <3>2 DEF Closing
  <2> QED BY <2>2, <2>3, <2>4
<1>e. ASSUME pc' = <<"exited">>, closing' = TRUE, session' = session,
             \A r1, r2 \in Made("TEARDOWN")' : r1 = r2, session => Made("TEARDOWN")' # {}
      PROVE  Closing'
  <2>1. At("exited")' /\ Todo' = {"exited"}
    BY <1>m, <1>e, BecomesOne DEF Todo
  <2> QED BY <1>e, <2>1 DEF Closing
<1>22. ASSUME Teardown
      PROVE  Closing'
  <2>1. /\ At("teardown") /\ "exited" \notin Todo /\ ~At("shutdown") /\ Codes(Rest) \subseteq Todo
    BY <1>22, Alive, Top DEF Teardown, At
  <2>2. closing' = closing /\ session' = session
    BY <1>22 DEF Teardown, setup
  <2>3. ASSUME NEW q, q \in Pending("TEARDOWN"), S!Tell(q), pc' = <<"exited">>
        PROVE  Closing'
    <3>1. Made("TEARDOWN")' = Made("TEARDOWN")
      BY <1>22, <2>3, ToldOnce DEF Teardown
    <3>2. closing /\ q \in Made("TEARDOWN")
      BY <2>3 DEF Pending, Closing, TypeOK
    <3> QED BY <1>e, <2>2, <2>3, <3>1, <3>2 DEF Closing
  <2>4. ASSUME pc' = Rest, UNCHANGED service
        PROVE  Closing'
    <3>1. Todo' \subseteq Todo
      BY <1>c, <2>1, <2>4, BecomesRest
    <3>2. Made("TEARDOWN")' = Made("TEARDOWN")
      BY <1>22, <2>4, SameRequests DEF Teardown
    <3> QED BY <2>1, <2>2, <3>1, <3>2, ClosingStays DEF Closing
  <2> QED BY <1>22, <2>3, <2>4 DEF Teardown
<1>23. ASSUME NEW r, ContinueAfterTEARDOWN(r)
      PROVE  Closing'
  <2>1. r \in Pending("TEARDOWN") /\ S!Tell(r) /\ what' = what /\ pc' = <<"exited">>
        /\ closing' = closing /\ session' = session
    BY <1>23 DEF ContinueAfterTEARDOWN, Handle, setup
  <2>2. Made("TEARDOWN")' = Made("TEARDOWN")
    BY <2>1, ToldOnce
  <2>3. closing /\ r \in Made("TEARDOWN")
    BY <2>1 DEF Pending, Closing, TypeOK
  <2> QED BY <1>e, <2>1, <2>2, <2>3 DEF Closing
<1>24. ASSUME SignalHandlerShutdown
      PROVE  Closing'
  <2>1. pc' = <<"exited">> /\ closing' = TRUE /\ session' = session /\ Made("TEARDOWN") = {}
    BY <1>24 DEF SignalHandlerShutdown, setup, Closing
  <2>2. CASE session
    <3>1. Made("TEARDOWN")' = Made("TEARDOWN") \cup {Len(what')}
      BY <1>24, <1>k, <2>2, Sent DEF SignalHandlerShutdown
    <3> QED BY <1>e, <2>1, <3>1
  <2>3. CASE ~session
    <3>1. Made("TEARDOWN")' = {}
      BY <1>24, <2>1, <2>3, SameRequests DEF SignalHandlerShutdown
    <3> QED BY <1>e, <2>1, <2>3, <3>1
  <2> QED BY <2>2, <2>3
<1>25. ASSUME NEW r, Answer(r)
      PROVE  Closing'
  <2>1. Todo' = Todo /\ pc' = pc /\ closing' = closing /\ session' = session
    BY <1>25 DEF Answer, Todo, Codes, setup
  <2>2. Made("TEARDOWN")' = Made("TEARDOWN")
    BY <1>25, AnsweredOnly DEF Answer
  <2> QED BY <2>1, <2>2 DEF Closing, At
<1>26. CASE UNCHANGED vars
  <2>1. Todo' = Todo /\ pc' = pc /\ closing' = closing /\ session' = session
    BY <1>26 DEF vars, Todo, Codes, setup
  <2>2. Made("TEARDOWN")' = Made("TEARDOWN")
    BY <1>26, SameRequests DEF vars
  <2> QED BY <2>1, <2>2 DEF Closing, At
<1> QED BY <1>1, <1>2, <1>3, <1>4, <1>5, <1>6, <1>7, <1>8, <1>9, <1>10, <1>11, <1>12, <1>13, <1>14,
           <1>15, <1>16, <1>17, <1>18, <1>19, <1>20, <1>21, <1>22, <1>23, <1>24, <1>25, <1>26
        DEF Next, Code, Told
-----------------------------------------------------------------------------
(* The timers.                                                              *)

\* No timer while the streams are set up.
LEMMA NoTimers ==
  ASSUME TypeOK, Control, iter # "deleted", UNCHANGED timers,
         Pending("PLAY")' = {}, Todo' \cap (Chain \cup {"ended"}) = {}
  PROVE  Single'
<1>1. /\ armed = [t \in Timers |-> 0] /\ ~counted
      /\ armed' = armed /\ named' = named /\ counted' = counted
  BY DEF Control, timers
<1>2. \A t \in Timers : armed'[t] = 0 /\ t \notin named'
  <2>1. \A t \in Timers : armed[t] = 0 /\ ~(armed[t] > 0)
    BY <1>1
  <2> QED BY <1>1, <2>1 DEF TypeOK
<1>3. Chain \subseteq Timers /\ "periodic" \in Timers
  BY DEF Chain, Timers
<1>4. \A t \in Chain : armed'[t] = 0
  BY <1>2, <1>3
<1> QED BY <1>1, <1>2, <1>3, <1>4 DEF Single, Alone

\* No timer is scheduled, and no code that schedules one is new.
LEMMA SingleStays ==
  ASSUME Single, armed' = armed, named' = named, counted' = counted, ~overlap' => ~overlap,
         Pending("PLAY")' \subseteq Pending("PLAY"),
         Todo' \cap (Chain \cup {"play"}) \subseteq Todo,
         "ended" \in Todo' => "ended" \in Todo \/ Todo' \cap Chain = {},
         Todo' \cap {"files", "schedule", "rotate"} # {}
           => Todo \cap {"files", "schedule", "rotate"} # {}
  PROVE  Single'
<1> SUFFICES ASSUME ~overlap'
             PROVE  Alone'
  BY DEF Single
<1>1. "gaps" \in Chain /\ "keepAlive" \in Chain
  BY DEF Chain, Timers
<1>2. Todo' \cap Chain \subseteq Todo \cap Chain /\ ("play" \in Todo' => "play" \in Todo)
  OBVIOUS
<1>3. /\ \A t \in Timers : armed[t] = IF t \in named THEN 1 ELSE 0
      /\ \A t \in Todo \cap Chain : armed[t] = 0
      /\ Todo \cap {"files", "schedule", "rotate"} # {} => armed["periodic"] = 0
      /\ "play" \in Todo \/ Pending("PLAY") # {} =>
           (\A t \in Chain : armed[t] = 0) /\ Todo \cap Chain = {} /\ ~counted
      /\ \A r1, r2 \in Pending("PLAY") : r1 = r2
      /\ "gaps" \in Todo /\ counted => "keepAlive" \notin Todo
      /\ "ended" \in Todo => Todo \cap Chain = {}
  BY DEF Single, Alone
<1>4. "play" \in Todo' \/ Pending("PLAY")' # {} => "play" \in Todo \/ Pending("PLAY") # {}
  BY <1>2
<1>5. \A r1, r2 \in Pending("PLAY")' : r1 = r2
  BY <1>3
<1>6. "gaps" \in Todo' /\ counted' => "keepAlive" \notin Todo'
  BY <1>1, <1>2, <1>3
<1>7. "ended" \in Todo' => Todo' \cap Chain = {}
  BY <1>2, <1>3
<1>8. "play" \in Todo' \/ Pending("PLAY")' # {} =>
        (\A t \in Chain : armed'[t] = 0) /\ Todo' \cap Chain = {} /\ ~counted'
  BY <1>2, <1>3, <1>4
<1>9. \A t \in Todo' \cap Chain : armed'[t] = 0
  BY <1>2, <1>3
<1> QED BY <1>3, <1>5, <1>6, <1>7, <1>8, <1>9 DEF Alone

\* All timers are cancelled, which leaves none when the tokens name them all.
LEMMA Cancelled ==
  ASSUME TypeOK, Single, UnscheduleAll, ~overlap' => ~overlap, counted' => counted,
         Pending("PLAY")' \subseteq Pending("PLAY"),
         Todo' \cap Chain \subseteq Todo,
         "play" \in Todo' => "play" \in Todo \/ (~counted' /\ Todo' \cap Chain = {}),
         "ended" \in Todo' => "ended" \in Todo
  PROVE  Single'
<1> SUFFICES ASSUME ~overlap'
             PROVE  Alone'
  BY DEF Single
<1>1. "gaps" \in Chain /\ "keepAlive" \in Chain /\ Chain \subseteq Timers /\ "periodic" \in Timers
  BY DEF Chain, Timers
<1>2. /\ \A t \in Timers : armed[t] = IF t \in named THEN 1 ELSE 0
      /\ "play" \in Todo \/ Pending("PLAY") # {} => Todo \cap Chain = {} /\ ~counted
      /\ \A r1, r2 \in Pending("PLAY") : r1 = r2
      /\ "gaps" \in Todo /\ counted => "keepAlive" \notin Todo
      /\ "ended" \in Todo => Todo \cap Chain = {}
  BY DEF Single, Alone
<1>3. named' = {} /\ \A t \in Timers : armed'[t] = 0
  <2>1. named' = {} /\ \A t \in Timers : armed'[t] = armed[t] - IF t \in named THEN 1 ELSE 0
    BY UnscheduleType
  <2> QED BY <1>2, <2>1
<1>4. \A t \in Chain : armed'[t] = 0
  BY <1>1, <1>3
<1>5. "play" \in Todo' \/ Pending("PLAY")' # {} => Todo' \cap Chain = {} /\ ~counted'
  BY <1>2
<1>6. \A r1, r2 \in Pending("PLAY")' : r1 = r2
  BY <1>2
<1>7. "gaps" \in Todo' /\ counted' => "keepAlive" \notin Todo'
  BY <1>1, <1>2
<1>8. "ended" \in Todo' => Todo' \cap Chain = {}
  BY <1>2
<1> QED BY <1>1, <1>3, <1>4, <1>5, <1>6, <1>7, <1>8 DEF Alone

LEMMA NextSingle ==
  TypeOK /\ Ordered /\ Control /\ Single /\ [Next]_vars => Single'
<1> SUFFICES ASSUME TypeOK, Ordered, Control, Single, [Next]_vars
             PROVE  Single'
  OBVIOUS
<1>k. /\ {"OPTIONS", "DESCRIBE", "SETUP", "PLAY", "TEARDOWN"} = Kinds /\ NoSub \in Subs \cup {NoSub}
  BY DEF Kinds
<1>c. ASSUME NEW codes, Becomes(codes)
      PROVE  Todo' \subseteq codes
  BY <1>c DEF Becomes, Todo
<1>p. /\ Chain = {"keepAlive", "arrival", "gaps", "qos", "duration"}
      /\ Timers = {"periodic", "keepAlive", "arrival", "gaps", "qos", "duration"}
      /\ Early = {"start", "options", "describe", "setup"}
  BY DEF Chain, Timers, Early
<1>m. {"options", "setup", "rotate", "files", "exited", "ended", "shutdown"} \subseteq Code1
  BY DEF Code1
<1>l. InLoop => Todo = {}
  BY Nothing DEF InLoop, Todo
<1>s. ASSUME ~overlap
      PROVE  Alone
  BY <1>s DEF Single
<1>1. ASSUME GetOptions
      PROVE  Single'
  <2>1. iter # "deleted" /\ Pending("PLAY") = {} /\ Codes(Rest) = {}
    BY <1>1, <1>p, AtSetup DEF GetOptions
  <2>2. Pending("PLAY")' = {}
    BY <1>1, <2>1, <1>k, SameRequests, Sent DEF GetOptions
  <2>3. Todo' \cap (Chain \cup {"ended"}) = {}
    BY <1>1, <1>c, <1>m, <1>p, <2>1, Nothing, BecomesOne DEF GetOptions, Todo
  <2> QED BY <1>1, <2>1, <2>2, <2>3, NoTimers DEF GetOptions
<1>2. ASSUME NEW r, OptionsAnswered(r)
      PROVE  Single'
  <2>1. iter # "deleted" /\ Pending("PLAY")' = {}
    BY <1>2, HandlesSetup DEF OptionsAnswered
  <2>3. Todo' \cap (Chain \cup {"ended"}) = {}
    BY <1>2, <1>c, <1>m, <1>p, BecomesOne DEF OptionsAnswered, Todo
  <2> QED BY <1>2, <2>1, <2>3, NoTimers DEF OptionsAnswered
<1>3. ASSUME ContinueAfterOPTIONS
      PROVE  Single'
  <2>1. iter # "deleted" /\ Pending("PLAY") = {} /\ Codes(Rest) = {}
    BY <1>3, <1>p, AtSetup DEF ContinueAfterOPTIONS
  <2>2. Pending("PLAY")' = {}
    BY <1>3, <2>1, SameRequests DEF ContinueAfterOPTIONS
  <2>3. Todo' \cap (Chain \cup {"ended"}) = {}
    BY <1>3, <1>c, <1>m, <1>p, <2>1, OptionsStack
  <2> QED BY <1>3, <2>1, <2>2, <2>3, NoTimers DEF ContinueAfterOPTIONS
<1>4. ASSUME Describe
      PROVE  Single'
  <2>1. iter # "deleted" /\ Pending("PLAY") = {} /\ Codes(Rest) = {}
    BY <1>4, <1>p, AtSetup DEF Describe
  <2>2. Pending("PLAY")' = {}
    BY <1>4, <2>1, <1>k, Sent DEF Describe
  <2>3. Todo' \cap (Chain \cup {"ended"}) = {}
    BY <1>4, <1>c, <1>m, <1>p, <2>1, BecomesRest DEF Describe
  <2> QED BY <1>4, <2>1, <2>2, <2>3, NoTimers DEF Describe
<1>5. ASSUME NEW r, ContinueAfterDESCRIBE(r)
      PROVE  Single'
  <2>1. iter # "deleted" /\ Pending("PLAY")' = {}
    BY <1>5, HandlesSetup DEF ContinueAfterDESCRIBE
  <2>3. Todo' \cap (Chain \cup {"ended"}) = {}
    BY <1>5, <1>c, <1>m, <1>p, DescribeStack
  <2> QED BY <1>5, <2>1, <2>3, NoTimers DEF ContinueAfterDESCRIBE
<1>6. ASSUME SetupNext
      PROVE  Single'
  <2>1. iter # "deleted" /\ Pending("PLAY") = {} /\ Codes(Rest) = {}
    BY <1>6, <1>p, AtSetup DEF SetupNext
  <2>2. Pending("PLAY")' = {}
    BY <1>6, <2>1, <1>k, Sent DEF SetupNext
  <2>3. Todo' \cap (Chain \cup {"ended"}) = {}
    BY <1>6, <1>c, <1>m, <1>p, <2>1, BecomesRest DEF SetupNext
  <2> QED BY <1>6, <2>1, <2>2, <2>3, NoTimers DEF SetupNext
<1>7. ASSUME NEW r, ContinueAfterSETUP(r)
      PROVE  Single'
  <2>1. iter # "deleted" /\ Pending("PLAY")' = {}
    BY <1>7, HandlesSetup DEF ContinueAfterSETUP
  <2>3. Todo' \cap (Chain \cup {"ended"}) = {}
    BY <1>7, <1>c, <1>m, <1>p, BecomesOne DEF ContinueAfterSETUP, Todo
  <2> QED BY <1>7, <2>1, <2>3, NoTimers DEF ContinueAfterSETUP
<1>8. ASSUME SetupDone
      PROVE  Single'
  <2>1. iter # "deleted" /\ Pending("PLAY") = {} /\ Codes(Rest) = {}
    BY <1>8, <1>p, AtSetup DEF SetupDone
  <2>2. Pending("PLAY")' = {}
    BY <1>8, <2>1, SameRequests DEF SetupDone
  <2>3. Todo' \cap (Chain \cup {"ended"}) = {}
    BY <1>8, <1>c, <1>m, <1>p, <2>1, SetupDoneStack
  <2> QED BY <1>8, <2>1, <2>2, <2>3, NoTimers DEF SetupDone
<1>9. ASSUME CreateSinks
      PROVE  Single'
  <2>1. "files" \in Todo /\ Codes(Rest) \subseteq Todo
    BY <1>9, Top DEF CreateSinks
  <2>2. /\ Todo' \cap (Chain \cup {"play", "ended"}) \subseteq Todo
        /\ Todo' \cap {"files", "schedule", "rotate"} # {}
             => Todo \cap {"files", "schedule", "rotate"} # {}
    BY <1>9, <1>c, <1>m, <1>p, <2>1, SinksStack
  <2>3. Pending("PLAY")' = Pending("PLAY")
    BY <1>9, SameRequests DEF CreateSinks
  <2> QED BY <1>9, <2>2, <2>3, SingleStays DEF CreateSinks, timers
<1>10. ASSUME CreateMovie
      PROVE  Single'
  <2>1. "files" \in Todo /\ Codes(Rest) \subseteq Todo
    BY <1>10, Top DEF CreateMovie
  <2>2. /\ Todo' \cap (Chain \cup {"play", "ended"}) \subseteq Todo
        /\ Todo' \cap {"files", "schedule", "rotate"} # {}
             => Todo \cap {"files", "schedule", "rotate"} # {}
    BY <1>10, <1>c, <1>m, <1>p, <2>1, MovieStack
  <2>3. Pending("PLAY")' = Pending("PLAY")
    BY <1>10, SameRequests DEF CreateMovie
  <2> QED BY <1>10, <2>2, <2>3, SingleStays DEF CreateMovie, timers
<1>11. ASSUME SchedulePeriodic
      PROVE  Single'
  <2>1. /\ "schedule" \in Todo /\ Todo' = Codes(Rest) /\ Codes(Rest) \subseteq Todo
        /\ \A c \in Codes(Rest) : c \in Code1 /\ Rank("schedule") < Rank(c)
    BY <1>11, Top, BecomesRest DEF SchedulePeriodic, Todo
  <2>2. Todo' \cap {"files", "schedule", "rotate"} = {}
    <3>1. Rank("files") = 3 /\ Rank("schedule") = 3 /\ Rank("rotate") = 1
      BY DEF Rank, Early, Timers
    <3> QED BY <2>1, <3>1
  <2>3. Pending("PLAY")' = Pending("PLAY") /\ counted' = counted /\ overlap' = overlap
    BY <1>11, SameRequests DEF SchedulePeriodic
  <2>4. /\ armed'["periodic"] = armed["periodic"] + 1 /\ named' = named \cup {"periodic"}
        /\ \A t \in Timers \ {"periodic"} : armed'[t] = armed[t]
    BY <1>11, <1>p, ArmType DEF SchedulePeriodic
  <2> SUFFICES ASSUME ~overlap
               PROVE  Alone'
    BY <2>3 DEF Single
  <2>5. armed["periodic"] = 0
    BY <1>s, <2>1 DEF Alone
  <2>6. \A t \in Timers : armed'[t] = IF t \in named' THEN 1 ELSE 0
    BY <1>s, <2>4, <2>5 DEF Alone
  <2>7. \A t \in Chain : armed'[t] = armed[t]
    BY <1>p, <2>4
  <2> QED BY <1>s, <2>1, <2>2, <2>3, <2>6, <2>7 DEF Alone
<1>12. ASSUME StartPlaying
      PROVE  Single'
  <2>1. "play" \in Todo /\ Todo' = Codes(Rest) /\ Codes(Rest) \subseteq Todo
    BY <1>12, Top, BecomesRest DEF StartPlaying, Todo
  <2>2. armed' = armed /\ named' = named /\ counted' = counted
    BY <1>12 DEF StartPlaying, timers
  <2>3. Pending("PLAY")' \subseteq Pending("PLAY") \cup {Len(what')}
    BY <1>12, <1>k, Sent DEF StartPlaying
  <2> SUFFICES ASSUME ~overlap'
               PROVE  Alone'
    BY DEF Single
  <2>4. ~overlap /\ Pending("PLAY") = {}
    BY <1>12 DEF StartPlaying, TypeOK
  <2>5. \A r1, r2 \in Pending("PLAY")' : r1 = r2
    BY <2>3, <2>4
  <2> QED BY <1>s, <2>1, <2>2, <2>4, <2>5 DEF Alone
<1>13. ASSUME NEW r, ContinueAfterPLAY(r)
      PROVE  Single'
  <2>1. r \in Pending("PLAY") /\ Pending("PLAY")' = Pending("PLAY") \ {r}
    BY <1>13, ToldOnce DEF ContinueAfterPLAY, Handle
  <2>2. /\ armed' = armed /\ counted' = counted /\ overlap' = overlap
        /\ named' = named \/ named' = named \ {"keepAlive"}
    BY <1>13 DEF ContinueAfterPLAY
  <2>3. Todo' \subseteq Chain \cup {"shutdown"}
    BY <1>13, <1>c, PlayStack
  <2> SUFFICES ASSUME ~overlap
               PROVE  Alone'
    BY <2>2 DEF Single
  <2>4. (\A t \in Chain : armed[t] = 0) /\ ~counted /\ \A q \in Pending("PLAY") : q = r
    BY <1>s, <2>1 DEF Alone
  <2>5. Pending("PLAY")' = {}
    BY <2>1, <2>4
  <2>6. \A t \in Timers : armed'[t] = IF t \in named' THEN 1 ELSE 0
    <3>1. "keepAlive" \notin named
      <4>1. "keepAlive" \in Timers /\ armed["keepAlive"] = 0
        BY <1>p, <2>4
      <4> QED BY <1>s, <4>1 DEF Alone
    <3>2. named' = named
      BY <2>2, <3>1
    <3> QED BY <1>s, <2>2, <3>2 DEF Alone
  <2>7. "play" \notin Todo' /\ "ended" \notin Todo' /\ Todo' \cap {"files", "schedule", "rotate"} = {}
    BY <1>p, <2>3
  <2> QED BY <2>2, <2>4, <2>5, <2>6, <2>7 DEF Alone
<1>14. ASSUME NEW u \in Timers, Watch(u)
      PROVE  Single'
  <2>1. u \in Todo \cap Chain /\ Todo = {u} \cup Todo' /\ u \notin Todo'
    BY <1>14, <1>p, Top, BecomesRest DEF Watch, Todo
  <2>2. Pending("PLAY")' = Pending("PLAY") /\ counted' = counted /\ overlap' = overlap
    BY <1>14, SameRequests DEF Watch
  <2>3. CASE UNCHANGED <<armed, named>>
    BY <2>1, <2>2, <2>3, SingleStays
  <2>4. CASE Arm(u)
    <3>1. /\ armed'[u] = armed[u] + 1 /\ named' = named \cup {u}
          /\ \A t \in Timers \ {u} : armed'[t] = armed[t]
      BY <2>4, ArmType
    <3> SUFFICES ASSUME ~overlap
                 PROVE  Alone'
      BY <2>2 DEF Single
    <3>2. /\ armed[u] = 0 /\ "play" \notin Todo /\ "ended" \notin Todo /\ Pending("PLAY") = {}
      BY <1>s, <2>1 DEF Alone
    <3>3. \A t \in Timers : armed'[t] = IF t \in named' THEN 1 ELSE 0
      BY <1>s, <3>1, <3>2 DEF Alone
    <3>4. \A t \in Todo' \cap Chain : armed'[t] = 0
      <4>1. \A t \in Todo' \cap Chain : t \in Todo \cap Chain /\ t \in Timers \ {u}
        BY <1>p, <2>1
      <4> QED BY <1>s, <3>1, <4>1 DEF Alone
    <3>5. armed'["periodic"] = armed["periodic"]
      BY <1>p, <2>1, <3>1
    <3> QED BY <1>s, <2>1, <2>2, <3>2, <3>3, <3>4, <3>5 DEF Alone
  <2> QED BY <1>14, <2>3, <2>4 DEF Watch
<1>15. ASSUME CheckInterPacketGaps
      PROVE  Single'
  <2>1. /\ "gaps" \in Todo \cap Chain /\ Todo = {"gaps"} \cup Codes(Rest) /\ "gaps" \notin Codes(Rest)
        /\ \A c \in Codes(Rest) : c \in Code1 /\ Rank("gaps") < Rank(c)
    BY <1>15, <1>p, Top DEF CheckInterPacketGaps
  <2>2. Pending("PLAY")' = Pending("PLAY") /\ overlap' = overlap
    BY <1>15, SameRequests DEF CheckInterPacketGaps
  <2>3. CASE pc' = Rest /\ UNCHANGED timers
    <3>1. Todo' = Codes(Rest)
      BY <2>3 DEF Todo
    <3> QED BY <2>1, <2>2, <2>3, <3>1, SingleStays DEF timers
  <2>4. CASE Arm("gaps") /\ counted' = TRUE /\ pc' = Rest
    <3>1. /\ armed'["gaps"] = armed["gaps"] + 1 /\ named' = named \cup {"gaps"}
          /\ \A t \in Timers \ {"gaps"} : armed'[t] = armed[t]
      BY <1>p, <2>4, ArmType
    <3>2. Todo' = Codes(Rest)
      BY <2>4 DEF Todo
    <3> SUFFICES ASSUME ~overlap
                 PROVE  Alone'
      BY <2>2 DEF Single
    <3>3. /\ armed["gaps"] = 0 /\ "play" \notin Todo /\ "ended" \notin Todo /\ Pending("PLAY") = {}
      BY <1>s, <2>1 DEF Alone
    <3>4. \A t \in Timers : armed'[t] = IF t \in named' THEN 1 ELSE 0
      BY <1>s, <3>1, <3>3 DEF Alone
    <3>5. \A t \in Todo' \cap Chain : armed'[t] = 0
      <4>1. \A t \in Todo' \cap Chain : t \in Todo \cap Chain /\ t \in Timers \ {"gaps"}
        BY <1>p, <2>1, <3>2
      <4> QED BY <1>s, <3>1, <4>1 DEF Alone
    <3>6. armed'["periodic"] = armed["periodic"]
      BY <1>p, <3>1
    <3> QED BY <1>s, <2>1, <2>2, <3>2, <3>3, <3>4, <3>5, <3>6 DEF Alone
  <2>5. CASE /\ counted /\ named' = named \ {"gaps"} /\ pc' = <<"ended">> \o Rest
             /\ UNCHANGED <<armed, counted>>
    <3>1. Todo' \subseteq {"ended"} \cup Codes(Rest)
      <4>1. <<"ended">> \o Rest # Rest
        <5>1. Rest \in Seq(Code1)
          BY <1>15, Top DEF CheckInterPacketGaps
        <5> QED BY <1>m, <5>1, Push, Z3
      <4> QED BY <1>15, <1>c, <2>5, <4>1, GapsStack
    <3> SUFFICES ASSUME ~overlap
                 PROVE  Alone'
      BY <2>2 DEF Single
    <3>2. /\ armed["gaps"] = 0 /\ "play" \notin Todo /\ Pending("PLAY") = {} /\ "keepAlive" \notin Todo
      BY <1>s, <2>1, <2>5 DEF Alone
    <3>3. Todo' \cap Chain = {}
      <4>1. Rank("gaps") = 9 /\ Rank("arrival") = 8 /\ Rank("qos") = 6 /\ Rank("duration") = 7
        BY DEF Rank, Early, Timers
      <4>2. Codes(Rest) \cap Chain \subseteq {"keepAlive"}
        BY <1>p, <2>1, <4>1
      <4> QED BY <1>p, <2>1, <3>1, <3>2, <4>2
    <3>4. "gaps" \notin named
      <4>1. "gaps" \in Timers
        BY <1>p
      <4> QED BY <1>s, <3>2, <4>1 DEF Alone
    <3>5. named' = named /\ armed' = armed
      BY <2>5, <3>4
    <3>6. "play" \notin Todo' /\ Pending("PLAY")' = {} /\ "gaps" \notin Todo'
      BY <1>p, <2>1, <2>2, <3>1, <3>2, <3>3
    <3>7. Todo' \cap {"files", "schedule", "rotate"} \subseteq Todo
      BY <2>1, <3>1
    <3> QED BY <1>s, <3>3, <3>5, <3>6, <3>7 DEF Alone
  <2> QED BY <1>15, <2>3, <2>4, <2>5 DEF CheckInterPacketGaps
<1>16. ASSUME NEW u \in Timers, Expire(u)
      PROVE  Single'
  <2>1. /\ armed[u] > 0 /\ armed'[u] = armed[u] - 1 /\ \A t \in Timers \ {u} : armed'[t] = armed[t]
        /\ named' = named \/ named' = named \ {u}
        /\ named' = named => armed[u] > IF u \in named THEN 1 ELSE 0
    BY <1>16, ExpireType
  <2>2. Pending("PLAY")' = Pending("PLAY") /\ counted' = counted /\ overlap' = overlap
    BY <1>16, SameRequests DEF Expire
  <2>3. Todo' \subseteq IF u = "duration" THEN {"ended"} ELSE IF u = "periodic" THEN {"rotate"} ELSE {u}
    BY <1>16, <1>c, ExpireStack
  <2> SUFFICES ASSUME ~overlap
               PROVE  Alone'
    BY <2>2 DEF Single
  <2>4. u \in named /\ armed[u] = 1 /\ named' = named \ {u} /\ armed'[u] = 0
    <3>1. armed[u] = IF u \in named THEN 1 ELSE 0
      BY <1>s DEF Alone
    <3> QED BY <2>1, <3>1
  <2>5. \A t \in Timers : armed'[t] = IF t \in named' THEN 1 ELSE 0
    BY <1>s, <2>1, <2>4 DEF Alone
  <2>6. Pending("PLAY") # {} => (\A t \in Chain : armed'[t] = 0) /\ u = "periodic" /\ ~counted
    <3>1. Pending("PLAY") # {} => (\A t \in Chain : armed[t] = 0) /\ ~counted
      BY <1>s DEF Alone
    <3>2. Pending("PLAY") # {} => u \notin Chain
      BY <2>4, <3>1
    <3> QED BY <1>p, <2>1, <3>1, <3>2
  <2>7. /\ "play" \notin Todo' /\ Todo' \cap Chain \subseteq {u}
        /\ "ended" \in Todo' \/ u = "periodic" => Todo' \cap Chain = {}
        /\ Todo' \cap {"files", "schedule", "rotate"} # {} => u = "periodic"
        /\ "gaps" \in Todo' => "keepAlive" \notin Todo'
    BY <1>p, <2>3
  <2>8. \A r1, r2 \in Pending("PLAY")' : r1 = r2
    BY <1>s, <2>2 DEF Alone
  <2> QED BY <2>2, <2>4, <2>5, <2>6, <2>7, <2>8 DEF Alone
<1>17. ASSUME Rotate
      PROVE  Single'
  <2>1. "rotate" \in Todo /\ Codes(Rest) \subseteq Todo
    BY <1>17, Top DEF Rotate
  <2>2. /\ Todo' \cap (Chain \cup {"play", "ended"}) \subseteq Todo
        /\ Todo' \cap {"files", "schedule", "rotate"} # {}
             => Todo \cap {"files", "schedule", "rotate"} # {}
    BY <1>17, <1>c, <1>m, <1>p, <2>1, BecomesOne, ZenonT(30) DEF Rotate, Todo
  <2>3. Pending("PLAY")' = Pending("PLAY")
    BY <1>17, SameRequests DEF Rotate
  <2> QED BY <1>17, <2>2, <2>3, SingleStays DEF Rotate, timers
<1>18. ASSUME NEW s \in Subs, SubsessionAfterPlaying(s)
      PROVE  Single'
  <2>1. Todo' \subseteq {"ended"}
    BY <1>18, <1>c, <1>m, LastSinkStack
  <2>2. Pending("PLAY")' = Pending("PLAY")
    BY <1>18, SameRequests DEF SubsessionAfterPlaying
  <2> QED BY <1>18, <1>p, <2>1, <2>2, SingleStays DEF SubsessionAfterPlaying, timers
<1>19. ASSUME MovieEnds
      PROVE  Single'
  <2>1. Todo' \subseteq {"ended"}
    BY <1>19, <1>c, <1>m, BecomesOne DEF MovieEnds, Todo
  <2>2. Pending("PLAY")' = Pending("PLAY")
    BY <1>19, SameRequests DEF MovieEnds
  <2> QED BY <1>19, <1>p, <2>1, <2>2, SingleStays DEF MovieEnds, timers
<1>20. ASSUME SessionAfterPlaying
      PROVE  Single'
  <2>1. "ended" \in Todo /\ Codes(Rest) \subseteq Todo /\ "ended" \notin Codes(Rest)
    BY <1>20, Top DEF SessionAfterPlaying
  <2>2. Pending("PLAY")' = Pending("PLAY") /\ overlap' = overlap
    BY <1>20, SameRequests DEF SessionAfterPlaying
  <2> SUFFICES ASSUME ~overlap
               PROVE  Single'
    BY <2>2 DEF Single
  <2>3. Todo \cap Chain = {}
    BY <1>s, <2>1 DEF Alone
  <2>4. CASE "continuous" \in opt
    <3>1. Todo' \subseteq {"play"} \cup Codes(Rest)
      BY <1>20, <1>c, <2>4, EndedStack
    <3>2. UnscheduleAll /\ counted' = FALSE
      BY <1>20, <2>4 DEF SessionAfterPlaying
    <3>3. Todo' \cap Chain = {} /\ "ended" \notin Todo'
      BY <1>p, <2>1, <2>3, <3>1
    <3> QED BY <2>2, <3>2, <3>3, Cancelled
  <2>5. CASE "continuous" \notin opt
    <3>1. Todo' \subseteq {"shutdown"} \cup Codes(Rest)
      BY <1>20, <1>c, <2>5, EndedStack
    <3>2. UNCHANGED timers
      BY <1>20, <2>5 DEF SessionAfterPlaying
    <3>3. /\ Todo' \cap (Chain \cup {"play"}) \subseteq Todo /\ "ended" \notin Todo'
          /\ Todo' \cap {"files", "schedule", "rotate"} \subseteq Todo
      BY <1>p, <2>1, <3>1
    <3> QED BY <2>2, <3>2, <3>3, SingleStays DEF timers
  <2> QED BY <2>4, <2>5
<1>21. ASSUME Shutdown
      PROVE  Single'
  <2>1. Codes(Rest) \subseteq Todo
    BY <1>21, Top DEF Shutdown
  <2>2. Todo' \subseteq {"teardown", "exited"} \cup Todo
    BY <1>21, <1>c, <2>1, ShutdownStack
  <2>3. Pending("PLAY")' = Pending("PLAY")
    <3>1. CASE UNCHANGED <<what, service>>
      BY <3>1, SameRequests
    <3>2. CASE Send("TEARDOWN", NoSub)
      BY <1>k, <3>2, Sent
    <3> QED BY <1>21, <3>1, <3>2 DEF Shutdown
  <2>4. /\ Todo' \cap (Chain \cup {"play", "ended"}) \subseteq Todo
        /\ Todo' \cap {"files", "schedule", "rotate"} \subseteq Todo
    BY <1>p, <2>2
  <2>5. overlap' = overlap /\ counted' = counted
    BY <1>21 DEF Shutdown
  <2>6. CASE UNCHANGED <<armed, named>>
    BY <2>3, <2>4, <2>5, <2>6, SingleStays
  <2>7. CASE UnscheduleAll
    BY <2>3, <2>4, <2>5, <2>7, Cancelled
  <2> QED BY <1>21, <2>6, <2>7 DEF Shutdown
<1>22. ASSUME Teardown
      PROVE  Single'
  <2>1. Todo' \subseteq {"exited"} \cup Todo
    <3>1. Codes(Rest) \subseteq Todo
      BY <1>22, Top DEF Teardown
    <3> QED BY <1>22, <1>c, <1>m, <3>1, BecomesOne, BecomesRest DEF Teardown
  <2>2. Pending("PLAY")' \subseteq Pending("PLAY")
    BY <1>22, SameRequests, ToldOnce DEF Teardown
  <2>3. /\ Todo' \cap (Chain \cup {"play", "ended"}) \subseteq Todo
        /\ Todo' \cap {"files", "schedule", "rotate"} \subseteq Todo
    BY <1>p, <2>1
  <2> QED BY <1>22, <2>2, <2>3, SingleStays DEF Teardown, timers
<1>23. ASSUME NEW r, ContinueAfterTEARDOWN(r)
      PROVE  Single'
  <2>1. Todo' = {"exited"}
    BY <1>23, <1>m, BecomesOne DEF ContinueAfterTEARDOWN, Todo
  <2>2. Pending("PLAY")' \subseteq Pending("PLAY")
    BY <1>23, ToldOnce DEF ContinueAfterTEARDOWN, Handle
  <2> QED BY <1>23, <1>p, <2>1, <2>2, SingleStays DEF ContinueAfterTEARDOWN, timers
<1>24. ASSUME SignalHandlerShutdown
      PROVE  Single'
  <2>1. Todo' = {"exited"}
    BY <1>24, <1>m, BecomesOne DEF SignalHandlerShutdown, Todo
  <2>2. Pending("PLAY")' = Pending("PLAY")
    BY <1>24, <1>k, SameRequests, Sent DEF SignalHandlerShutdown
  <2>3. UnscheduleAll /\ overlap' = overlap /\ counted' = counted
    BY <1>24 DEF SignalHandlerShutdown
  <2> QED BY <1>p, <2>1, <2>2, <2>3, Cancelled
<1>25. ASSUME NEW r, Answer(r)
      PROVE  Single'
  <2>1. Todo' = Todo
    BY <1>25 DEF Answer, Todo, Codes
  <2>2. Pending("PLAY")' = Pending("PLAY")
    BY <1>25, AnsweredOnly DEF Answer
  <2> QED BY <1>25, <2>1, <2>2, SingleStays DEF Answer, timers
<1>26. CASE UNCHANGED vars
  <2>1. Todo' = Todo
    BY <1>26 DEF vars, Todo, Codes
  <2>2. Pending("PLAY")' = Pending("PLAY")
    BY <1>26, SameRequests DEF vars
  <2> QED BY <1>26, <2>1, <2>2, SingleStays DEF vars, timers
<1> QED BY <1>1, <1>2, <1>3, <1>4, <1>5, <1>6, <1>7, <1>8, <1>9, <1>10, <1>11, <1>12, <1>13, <1>14,
           <1>15, <1>16, <1>17, <1>18, <1>19, <1>20, <1>21, <1>22, <1>23, <1>24, <1>25, <1>26
        DEF Next, Code, Told
-----------------------------------------------------------------------------
(* The theorems.                                                            *)

LEMMA Inductive == Spec => []IInv
<1>1. Init => IInv
  BY InitType, InitParts DEF IInv
<1>2. IInv /\ [Next]_vars => IInv'
  BY NextType, NextControl, NextClosing, NextSingle DEF IInv
<1> QED BY <1>1, <1>2, PTL DEF Spec

(* The variables hold what they are meant to hold.                           *)
THEOREM TypeCorrect == Spec => []TypeOK
<1>1. IInv => TypeOK
  BY DEF IInv
<1> QED BY <1>1, Inductive, PTL

(* While the response to a SETUP is awaited, the global still names its        *)
(* subsession, and nobody uses the iterator once it has been deleted.          *)
THEOREM OneSetup == Spec => []SetupInTurn
<1>1. IInv => SetupInTurn
  <2> SUFFICES ASSUME TypeOK, Ordered, Control
               PROVE  SetupInTurn
    BY DEF IInv
  <2>1. At("setup") => iter = "live" /\ Pending("SETUP") = {}
    BY AtSetup DEF Early
  <2>2. ASSUME NEW r \in Pending("SETUP")
        PROVE  what[r].sub = sub /\ iter = "live" /\ ~At("setup")
    <3>1. r \in Asked
      BY DEF Asked
    <3>2. iter # "none" /\ iter # "deleted"
      BY <3>1 DEF Control
    <3> QED BY <2>1, <3>2 DEF Control, TypeOK
  <2> QED BY <2>1, <2>2 DEF SetupInTurn
<1> QED BY <1>1, Inductive, PTL

(* Every timer that is scheduled can be cancelled, because it is the only one  *)
(* of its kind and the token names it, unless PLAY was sent again too early.   *)
THEOREM OneTimer == Spec => []OneTimerEach
<1>1. IInv => OneTimerEach
  BY DEF IInv, Single, Alone, OneTimerEach
<1> QED BY <1>1, Inductive, PTL

(* However the program ends, TEARDOWN has gone out, once, if there was a        *)
(* session.                                                                 *)
THEOREM OneTeardown == Spec => []TeardownOnce
<1>1. IInv => TeardownOnce
  <2> SUFFICES ASSUME TypeOK, Ordered, Closing
               PROVE  TeardownOnce
    BY DEF IInv
  <2>1. Cardinality(Made("TEARDOWN")) <= 1
    <3>1. CASE Made("TEARDOWN") = {}
      BY <3>1, FS_EmptySet
    <3>2. CASE Made("TEARDOWN") # {}
      <4>1. PICK r : Made("TEARDOWN") = {r}
        BY <3>2 DEF Closing
      <4> QED BY <4>1, FS_Singleton
    <3> QED BY <3>1, <3>2
  <2>2. ~Running => closing
    <3>1. At("exited") => "exited" \in Todo
      BY Top
    <3>2. At("crashed") => "crashed" \in Todo /\ ~At("shutdown")
      BY Top DEF At
    <3> QED BY <3>1, <3>2 DEF Running, Closing
  <2> QED BY <2>1, <2>2 DEF TeardownOnce, Closing
<1> QED BY <1>1, Inductive, PTL
=============================================================================
