--------------------------- MODULE RtspClientProofs ---------------------------
(***************************************************************************)
(* Theorems about the client of live555, for every number of requests, depth *)
(* of loops and behaviour of the server: that a request's record has one     *)
(* owner; and, of a client without a tunnel, that it does what               *)
(* RequestService promises and forgets no request.  The first treats the     *)
(* queues and the lists of the frames alike: the requests in each are        *)
(* different ones (Once), those in two of them have none in common (Owned),  *)
(* and none of them has been told yet.  The others rest on the line: what    *)
(* the server has been asked and has answered stands in the order of the     *)
(* queue of the requests that await a response.                             *)
(***************************************************************************)
EXTENDS RtspClient, WellFoundedInduction, FiniteSetTheorems, SequenceTheorems, TLAPS

-----------------------------------------------------------------------------
(* Types: the GET is made only by a client with a tunnel.                    *)
Recs(t) == {r \in Record : t \/ r.id # HTTP}
Heads == [what : {"ok", "fail", "again", "moved", "bad"}, id : {HTTP} \cup Requests,
          cseq : Nat, close : BOOLEAN, body : BOOLEAN]
Messages == Heads \cup {Body, Ask}
Hows == {"ok", "fail", "error"}
Frame(R) ==
  [k : {"resume", "tell", "resend"}, todo : Seq(R)]
    \cup [k : {"call"}, todo : Seq(R), how : Hows]
    \cup [k : {"drain", "handler"}] \cup [k : {"parse"}, extra : Nat]

Typed ==
  /\ tunnel \in BOOLEAN /\ fCSeq \in Nat /\ odd \in 0..MaxOdd
  /\ buffer \in Seq(Messages)
  /\ sent \subseteq Requests
  /\ answered \in [Requests -> {"none", "ok", "fail", "skip"}]
  /\ told \in [Requests -> Seq(Hows)]

(* The part of the types that sendRequest disturbs.                          *)
Socks ==
  /\ tunneling \in BOOLEAN /\ closed \in BOOLEAN
  /\ forgot \in BOOLEAN /\ astray \in BOOLEAN
  /\ in \in 0..1 /\ out \in 0..2 /\ connecting \in 0..2
  /\ in = 0 /\ ~tunnel => out = 0 /\ connecting = 0
  /\ out # in => tunnel
  /\ asked \in Seq(Recs(tunnel)) /\ wire \in Seq(Messages)

(* The requests of a list are different, those of two lists have none in      *)
(* common.                                                                 *)
Once(q) == \A i, j \in 1..Len(q) : q[i].id = q[j].id /\ q[i].id # HTTP => i = j
Good(R, q) == q \in Seq(R) /\ Once(q)
Filled(f) ==
  /\ f.k \in {"resume", "resend", "call"} => Todo(f) # <<>>
  /\ f.k \in {"resend", "call"} => Todo(f) = <<Head(Todo(f))>>
Apart(fs) ==
  \A i, j \in 1..Len(fs) : i # j => Ids(Todo(fs[i])) \cap Ids(Todo(fs[j])) = {}
Stack(R, fs) ==
  /\ fs \in Seq(Frame(R))
  /\ \A i \in 1..Len(fs) : Once(Todo(fs[i])) /\ Filled(fs[i])
  /\ Apart(fs)
Hands(fs) == UNION {Ids(Todo(fs[i])) : i \in 1..Len(fs)}

Owned(R, c, t, p, fs) ==
  /\ Good(R, c) /\ Good(R, t) /\ Good(R, p) /\ Stack(R, fs)
  /\ Ids(c) \cap Ids(t) = {} /\ Ids(c) \cap Ids(p) = {} /\ Ids(c) \cap Hands(fs) = {}
  /\ Ids(t) \cap Ids(p) = {} /\ Ids(t) \cap Hands(fs) = {} /\ Ids(p) \cap Hands(fs) = {}
All(c, t, p, fs) == Ids(c) \cup Ids(t) \cup Ids(p) \cup Hands(fs)

Told == {r \in Requests : told[r] # <<>>}

OwnInv ==
  /\ Typed /\ Socks
  /\ Owned(Recs(tunnel), conn, tun, resp, frames)
  /\ All(conn, tun, resp, frames) \subseteq sent \ Told
  /\ Told \subseteq sent
  /\ \A r \in Requests : Len(told[r]) <= 1
  /\ \E n \in 0..MaxRequests : sent = 1..n

-----------------------------------------------------------------------------
(* Lists of records.                                                        *)

(* A list's requests are those of its records.                              *)
LEMMA Listed ==
  ASSUME NEW q, NEW i \in 1..Len(q), q[i].id # HTTP
  PROVE  q[i].id \in Ids(q)
BY DEF Ids

(* The empty list and a list of one record: the records that openConnection  *)
(* and the frames start with.                                              *)
LEMMA Short ==
  ASSUME NEW R \in SUBSET Record, NEW r \in R
  PROVE  /\ Good(R, <<>>) /\ Ids(<<>>) = {}
         /\ Good(R, <<r>>) /\ Ids(<<r>>) = {r.id} \ {HTTP}
         /\ <<r>> # <<>>
<1>1. <<>> \in Seq(R) /\ Len(<<>>) = 0 /\ Ids(<<>>) = {}
  BY DEF Ids
<1>2. Once(<<>>)
  BY <1>1 DEF Once
<1>3. <<r>> \in Seq(R) /\ Len(<<r>>) = 1 /\ <<r>>[1] = r
  OBVIOUS
<1>4. {<<r>>[i].id : i \in 1..Len(<<r>>)} = {r.id}
  BY <1>3
<1> QED
  BY <1>1, <1>2, <1>3, <1>4 DEF Good, Once, Ids

(* enqueue: a request that is not in the queue is put behind it.             *)
LEMMA Enqueued ==
  ASSUME NEW R \in SUBSET Record, NEW q, Good(R, q), NEW r \in R,
         r.id = HTTP \/ r.id \notin Ids(q)
  PROVE  /\ Good(R, Append(q, r))
         /\ Ids(Append(q, r)) = Ids(q) \cup ({r.id} \ {HTTP})
<1> DEFINE s == Append(q, r)
<1>1. /\ q \in Seq(R) /\ Len(q) \in Nat
      /\ s \in Seq(R) /\ Len(s) = Len(q) + 1
      /\ s[Len(q) + 1] = r /\ \A i \in 1..Len(q) : s[i] = q[i]
  BY DEF Good
<1> HIDE DEF s
<1>2. Once(s)
  <2> SUFFICES ASSUME NEW i \in 1..Len(s), NEW j \in 1..Len(s), s[i].id = s[j].id, s[i].id # HTTP
               PROVE  i = j
    BY DEF Once
  <2>1. CASE i \in 1..Len(q) /\ j \in 1..Len(q)
    BY <1>1, <2>1 DEF Good, Once
  <2>2. CASE i = Len(q) + 1 /\ j \in 1..Len(q)
    BY <1>1, <2>2 DEF Ids
  <2>3. CASE j = Len(q) + 1 /\ i \in 1..Len(q)
    BY <1>1, <2>3 DEF Ids
  <2> QED
    BY <1>1, <2>1, <2>2, <2>3
<1>3. Ids(s) = Ids(q) \cup ({r.id} \ {HTTP})
  <2>1. 1..Len(s) = 1..Len(q) \cup {Len(q) + 1}
    BY <1>1
  <2>2. \A x : (\E i \in 1..Len(s) : x = s[i].id) <=> (\E i \in 1..Len(q) : x = q[i].id) \/ x = r.id
    BY <1>1, <2>1
  <2> QED
    BY <2>2, ZenonT(60) DEF Ids
<1> QED
  BY <1>1, <1>2, <1>3 DEF Good, s

(* dequeue: the head is taken, and is in what remains no more.               *)
LEMMA Dequeued ==
  ASSUME NEW R \in SUBSET Record, NEW q, Good(R, q), q # <<>>
  PROVE  /\ Head(q) \in R /\ Good(R, Tail(q))
         /\ Ids(q) = Ids(Tail(q)) \cup ({Head(q).id} \ {HTTP})
         /\ Head(q).id \notin Ids(Tail(q))
<1> DEFINE s == Tail(q)
<1>1. /\ q \in Seq(R) /\ Len(q) \in Nat /\ Len(q) >= 1
      /\ s \in Seq(R) /\ Len(s) = Len(q) - 1
      /\ Head(q) = q[1] /\ \A i \in 1..Len(s) : s[i] = q[i + 1]
  BY DEF Good
<1>2. Head(q) \in R
  BY <1>1
<1> HIDE DEF s
<1>3. Once(s)
  <2> SUFFICES ASSUME NEW i \in 1..Len(s), NEW j \in 1..Len(s), s[i].id = s[j].id, s[i].id # HTTP
               PROVE  i = j
    BY DEF Once
  <2>1. i + 1 \in 1..Len(q) /\ j + 1 \in 1..Len(q) /\ q[i + 1].id = q[j + 1].id /\ q[i + 1].id # HTTP
    BY <1>1
  <2>2. i + 1 = j + 1
    BY <2>1 DEF Good, Once
  <2> QED
    BY <2>2
<1>4. \A x : (\E i \in 1..Len(q) : x = q[i].id) <=> (\E i \in 1..Len(s) : x = s[i].id) \/ x = q[1].id
  <2> TAKE x
  <2>1. ASSUME NEW i \in 1..Len(q), x = q[i].id, i # 1
        PROVE  \E k \in 1..Len(s) : x = s[k].id
    <3>1. i - 1 \in 1..Len(s) /\ s[i - 1] = q[(i - 1) + 1] /\ (i - 1) + 1 = i
      BY <1>1, <2>1
    <3> QED
      BY <2>1, <3>1
  <2>2. ASSUME NEW i \in 1..Len(s), x = s[i].id
        PROVE  \E k \in 1..Len(q) : x = q[k].id
    <3>1. i + 1 \in 1..Len(q) /\ s[i] = q[i + 1]
      BY <1>1
    <3> QED
      BY <2>2, <3>1
  <2>3. 1 \in 1..Len(q)
    BY <1>1
  <2> QED
    BY <2>1, <2>2, <2>3
<1>5. Ids(q) = Ids(s) \cup ({q[1].id} \ {HTTP})
  <2>1. ASSUME NEW x PROVE x \in Ids(q) <=> (x \in Ids(s) \/ x = q[1].id) /\ x # HTTP
    BY <1>4, SMTT(60) DEF Ids
  <2>2. HTTP \notin Ids(s)
    BY DEF Ids
  <2> QED
    BY <2>1, <2>2
<1>6. q[1].id \notin Ids(s)
  <2> SUFFICES ASSUME NEW i \in 1..Len(s), s[i].id = q[1].id, q[1].id # HTTP PROVE FALSE
    BY DEF Ids
  <2>1. i + 1 \in 1..Len(q) /\ 1 \in 1..Len(q) /\ s[i] = q[i + 1]
    BY <1>1
  <2>2. i + 1 = 1
    BY <2>1 DEF Good, Once
  <2> QED
    BY <2>2
<1> QED
  BY <1>1, <1>2, <1>3, <1>5, <1>6 DEF Good, s

(* The requests of one list are put behind those of another: the tunnel's    *)
(* second connection is pending.                                            *)
LEMMA Joined ==
  ASSUME NEW R \in SUBSET Record, NEW q, NEW u, Good(R, q), Good(R, u), Ids(q) \cap Ids(u) = {}
  PROVE  Good(R, q \o u) /\ Ids(q \o u) = Ids(q) \cup Ids(u)
<1> DEFINE s == q \o u
<1>1. /\ q \in Seq(R) /\ Len(q) \in Nat /\ u \in Seq(R) /\ Len(u) \in Nat
      /\ s \in Seq(R) /\ Len(s) = Len(q) + Len(u)
      /\ \A i \in 1..Len(q) : s[i] = q[i]
      /\ \A i \in 1..Len(s) : i > Len(q) => s[i] = u[i - Len(q)]
  BY DEF Good
<1> HIDE DEF s
<1>2. \A i \in 1..Len(s) :
        \/ i \in 1..Len(q) /\ s[i] = q[i]
        \/ i > Len(q) /\ i - Len(q) \in 1..Len(u) /\ s[i] = u[i - Len(q)]
  BY <1>1
<1>3. Once(s)
  <2> SUFFICES ASSUME NEW i \in 1..Len(s), NEW j \in 1..Len(s), s[i].id = s[j].id, s[i].id # HTTP
               PROVE  i = j
    BY DEF Once
  <2>1. CASE i \in 1..Len(q) /\ j \in 1..Len(q)
    BY <1>1, <2>1 DEF Good, Once
  <2>2. CASE i > Len(q) /\ j > Len(q)
    <3> DEFINE a == i - Len(q)  b == j - Len(q)
    <3>1. a \in 1..Len(u) /\ b \in 1..Len(u) /\ s[i] = u[a] /\ s[j] = u[b]
      BY <1>1, <1>2, <2>2
    <3>2. a = b
      <4> HIDE DEF a, b
      <4> QED
        BY <3>1 DEF Good, Once
    <3> QED
      BY <1>1, <3>2
  <2>3. CASE i \in 1..Len(q) /\ j > Len(q)
    <3>1. i \in 1..Len(q) /\ s[i] = q[i] /\ j - Len(q) \in 1..Len(u) /\ s[j] = u[j - Len(q)]
      BY <1>1, <1>2, <2>3
    <3>2. s[i].id \in Ids(q)
      BY <3>1, Listed
    <3>3. s[j].id \in Ids(u)
      BY <3>1, Listed
    <3> QED
      BY <3>2, <3>3
  <2>4. CASE j \in 1..Len(q) /\ i > Len(q)
    <3>1. j \in 1..Len(q) /\ s[j] = q[j] /\ i - Len(q) \in 1..Len(u) /\ s[i] = u[i - Len(q)]
      BY <1>1, <1>2, <2>4
    <3>2. s[j].id \in Ids(q)
      BY <3>1, Listed
    <3>3. s[i].id \in Ids(u)
      BY <3>1, Listed
    <3> QED
      BY <3>2, <3>3
  <2> QED
    BY <1>1, <1>2, <2>1, <2>2, <2>3, <2>4
<1>4. \A x : (\E i \in 1..Len(s) : x = s[i].id)
             <=> (\E i \in 1..Len(q) : x = q[i].id) \/ (\E i \in 1..Len(u) : x = u[i].id)
  <2> TAKE x
  <2>1. ASSUME NEW i \in 1..Len(q) PROVE i \in 1..Len(s) /\ s[i] = q[i]
    BY <1>1
  <2>2. ASSUME NEW i \in 1..Len(u) PROVE i + Len(q) \in 1..Len(s) /\ s[i + Len(q)] = u[i]
    <3>1. i + Len(q) \in 1..Len(s) /\ i + Len(q) > Len(q) /\ (i + Len(q)) - Len(q) = i
      BY <1>1
    <3> QED
      BY <1>1, <3>1
  <2> QED
    BY <1>2, <2>1, <2>2
<1>5. Ids(s) = Ids(q) \cup Ids(u)
  <2>1. {s[i].id : i \in 1..Len(s)} = {q[i].id : i \in 1..Len(q)} \cup {u[i].id : i \in 1..Len(u)}
    BY <1>4
  <2> QED
    BY <2>1 DEF Ids
<1> QED
  BY <1>1, <1>3, <1>5 DEF Good, s

(* What is left of a queue behind its n-th record: the response's own record *)
(* and those before it are taken out.                                      *)
LEMMA Behind ==
  ASSUME NEW R \in SUBSET Record, NEW q, Good(R, q), NEW n \in Nat \ {0},
         NEW s \in Seq(R), \A i \in 1..Len(s) : n + i \in 1..Len(q) /\ s[i] = q[n + i]
  PROVE  /\ Good(R, s) /\ Ids(s) \subseteq Ids(q)
         /\ n \in 1..Len(q) => q[n] \in R /\ q[n].id \notin Ids(s)
<1>1. q \in Seq(R) /\ Len(q) \in Nat /\ Len(s) \in Nat
  BY DEF Good
<1>3. \A i \in 1..Len(s) : n + i \in 1..Len(q) /\ s[i] = q[n + i]
  BY <1>1
<1>4. Once(s)
  <2> SUFFICES ASSUME NEW i \in 1..Len(s), NEW j \in 1..Len(s), s[i].id = s[j].id, s[i].id # HTTP
               PROVE  i = j
    BY DEF Once
  <2>1. n + i = n + j
    BY <1>3 DEF Good, Once
  <2> QED
    BY <2>1
<1>5. Ids(s) \subseteq Ids(q)
  BY <1>3 DEF Ids
<1>6. ASSUME n \in 1..Len(q) PROVE q[n] \in R /\ q[n].id \notin Ids(s)
  <2>1. q[n] \in R
    BY <1>1, <1>6
  <2>2. ASSUME NEW i \in 1..Len(s), s[i].id = q[n].id, q[n].id # HTTP PROVE FALSE
    <3>1. n + i = n
      BY <1>3, <1>6, <2>2 DEF Good, Once
    <3> QED
      BY <3>1
  <2> QED
    BY <2>1, <2>2 DEF Ids
<1> QED
  BY <1>3, <1>4, <1>5, <1>6 DEF Good

-----------------------------------------------------------------------------
(* Frames.                                                                  *)

(* The frames' lists, by their kinds.                                       *)
LEMMA Lists1 ==
  ASSUME NEW R \in SUBSET Record, NEW f \in Frame(R)
  PROVE  /\ Todo(f) \in Seq(R)
         /\ f.k \in {"resume", "tell", "resend", "call"} => Todo(f) = f.todo
         /\ f.k = "call" => f.how \in Hows
<1>1. CASE f \in [k : {"resume", "tell", "resend"}, todo : Seq(R)]
  BY <1>1 DEF Todo
<1>2. CASE f \in [k : {"call"}, todo : Seq(R), how : Hows]
  BY <1>2 DEF Todo
<1>3. CASE f \in [k : {"drain", "handler"}]
  <2>1. "todo" \notin DOMAIN f
    BY <1>3
  <2> QED
    BY <1>3, <2>1 DEF Todo
<1>4. CASE f \in [k : {"parse"}, extra : Nat]
  <2>1. "todo" \notin DOMAIN f
    BY <1>4
  <2> QED
    BY <1>4, <2>1 DEF Todo
<1> QED
  BY <1>1, <1>2, <1>3, <1>4 DEF Frame

(* The frames the handlers push.                                            *)
LEMMA Made ==
  ASSUME NEW R \in SUBSET Record, NEW q \in Seq(R), NEW r \in R, NEW how \in Hows, NEW n \in Nat
  PROVE  /\ Resume(q) \in Frame(R) /\ Todo(Resume(q)) = q /\ Resume(q).k = "resume"
         /\ TellAll(q) \in Frame(R) /\ Todo(TellAll(q)) = q /\ TellAll(q).k = "tell"
         /\ Resend(r) \in Frame(R) /\ Todo(Resend(r)) = <<r>> /\ Resend(r).k = "resend"
         /\ Call(r, how) \in Frame(R) /\ Todo(Call(r, how)) = <<r>> /\ Call(r, how).k = "call"
         /\ Drain \in Frame(R) /\ Todo(Drain) = <<>> /\ Drain.k = "drain"
         /\ Handler \in Frame(R) /\ Todo(Handler) = <<>> /\ Handler.k = "handler"
         /\ Parse(n) \in Frame(R) /\ Todo(Parse(n)) = <<>> /\ Parse(n).k = "parse"
<1>1. <<r>> \in Seq(R)
  OBVIOUS
<1>2. Resume(q) \in Frame(R) /\ Todo(Resume(q)) = q /\ Resume(q).k = "resume"
  BY DEF Frame, Todo, Resume
<1>3. TellAll(q) \in Frame(R) /\ Todo(TellAll(q)) = q /\ TellAll(q).k = "tell"
  BY DEF Frame, Todo, TellAll
<1>4. Resend(r) \in Frame(R) /\ Todo(Resend(r)) = <<r>> /\ Resend(r).k = "resend"
  BY <1>1 DEF Frame, Todo, Resend
<1>5. Call(r, how) \in Frame(R) /\ Todo(Call(r, how)) = <<r>> /\ Call(r, how).k = "call"
  BY <1>1 DEF Frame, Todo, Call
<1>6. Drain \in Frame(R) /\ Todo(Drain) = <<>> /\ Drain.k = "drain"
  BY DEF Frame, Todo, Drain
<1>7. Handler \in Frame(R) /\ Todo(Handler) = <<>> /\ Handler.k = "handler"
  BY DEF Frame, Todo, Handler
<1>8. Parse(n) \in Frame(R) /\ Todo(Parse(n)) = <<>> /\ Parse(n).k = "parse"
  BY DEF Frame, Todo, Parse
<1> QED
  BY <1>2, <1>3, <1>4, <1>5, <1>6, <1>7, <1>8

(* A frame is put on the stack.                                             *)
LEMMA Push ==
  ASSUME NEW R \in SUBSET Record, NEW fs, Stack(R, fs), NEW f \in Frame(R), Once(Todo(f)), Filled(f),
         Ids(Todo(f)) \cap Hands(fs) = {}
  PROVE  Stack(R, <<f>> \o fs) /\ Hands(<<f>> \o fs) = Ids(Todo(f)) \cup Hands(fs)
<1> DEFINE s == <<f>> \o fs
<1>1. /\ fs \in Seq(Frame(R)) /\ Len(fs) \in Nat
      /\ s \in Seq(Frame(R)) /\ Len(s) = Len(fs) + 1 /\ s[1] = f
      /\ \A i \in 1..Len(s) : i # 1 => i - 1 \in 1..Len(fs) /\ s[i] = fs[i - 1]
  <2>1. fs \in Seq(Frame(R)) /\ <<f>> \in Seq(Frame(R)) /\ Len(<<f>>) = 1
    BY DEF Stack
  <2> QED
    BY <2>1
<1> HIDE DEF s
<1>2. \A i \in 1..Len(s) : Once(Todo(s[i])) /\ Filled(s[i])
  BY <1>1 DEF Stack
<1>3. \A i \in 1..Len(fs) : Ids(Todo(fs[i])) \subseteq Hands(fs)
  BY DEF Hands
<1>4. Apart(s)
  <2> SUFFICES ASSUME NEW i \in 1..Len(s), NEW j \in 1..Len(s), i # j
               PROVE  Ids(Todo(s[i])) \cap Ids(Todo(s[j])) = {}
    BY DEF Apart
  <2>1. CASE i # 1 /\ j # 1
    <3>1. i - 1 # j - 1
      BY <1>1
    <3> QED
      BY <1>1, <2>1, <3>1 DEF Stack, Apart
  <2>2. CASE i = 1
    BY <1>1, <1>3, <2>2
  <2>3. CASE j = 1
    BY <1>1, <1>3, <2>3
  <2> QED
    BY <2>1, <2>2, <2>3
<1>5. Hands(s) = Ids(Todo(f)) \cup Hands(fs)
  <2>1. ASSUME NEW i \in 1..Len(fs) PROVE i + 1 \in 1..Len(s) /\ s[i + 1] = fs[i]
    <3>1. i + 1 \in 1..Len(s) /\ i + 1 # 1 /\ (i + 1) - 1 = i
      BY <1>1
    <3> QED
      BY <1>1, <3>1
  <2>2. 1 \in 1..Len(s)
    BY <1>1
  <2>3. ASSUME NEW x PROVE x \in Hands(s) <=> x \in Ids(Todo(f)) \/ x \in Hands(fs)
    <3>1. x \in Hands(s) <=> \E i \in 1..Len(s) : x \in Ids(Todo(s[i]))
      BY DEF Hands
    <3>2. x \in Hands(fs) <=> \E i \in 1..Len(fs) : x \in Ids(Todo(fs[i]))
      BY DEF Hands
    <3> QED
      BY <1>1, <2>1, <2>2, <3>1, <3>2
  <2> QED
    BY <2>3
<1> QED
  BY <1>1, <1>2, <1>4, <1>5 DEF Stack, s

(* The top frame is taken off.                                              *)
LEMMA Pop ==
  ASSUME NEW R \in SUBSET Record, NEW fs, Stack(R, fs), fs # <<>>
  PROVE  /\ Head(fs) \in Frame(R) /\ Once(Todo(Head(fs))) /\ Filled(Head(fs))
         /\ Stack(R, Tail(fs)) /\ Hands(fs) = Ids(Todo(Head(fs))) \cup Hands(Tail(fs))
         /\ Ids(Todo(Head(fs))) \cap Hands(Tail(fs)) = {}
<1> DEFINE s == Tail(fs)
<1>1. /\ fs \in Seq(Frame(R)) /\ Len(fs) \in Nat /\ Len(fs) >= 1
      /\ s \in Seq(Frame(R)) /\ Len(s) = Len(fs) - 1 /\ Head(fs) = fs[1] /\ fs[1] \in Frame(R)
      /\ \A i \in 1..Len(s) : i + 1 \in 1..Len(fs) /\ s[i] = fs[i + 1]
  <2>1. fs \in Seq(Frame(R))
    BY DEF Stack
  <2> QED
    BY <2>1
<1> HIDE DEF s
<1>2. 1 \in 1..Len(fs)
  BY <1>1
<1>3. \A i \in 1..Len(s) : Once(Todo(s[i])) /\ Filled(s[i])
  BY <1>1 DEF Stack
<1>4. Apart(s)
  <2> SUFFICES ASSUME NEW i \in 1..Len(s), NEW j \in 1..Len(s), i # j
               PROVE  Ids(Todo(s[i])) \cap Ids(Todo(s[j])) = {}
    BY DEF Apart
  <2>1. i + 1 # j + 1
    BY <1>1
  <2> QED
    BY <1>1, <2>1 DEF Stack, Apart
<1>5. ASSUME NEW x PROVE x \in Hands(fs) <=> x \in Ids(Todo(fs[1])) \/ x \in Hands(s)
  <2>1. x \in Hands(s) <=> \E i \in 1..Len(s) : x \in Ids(Todo(s[i]))
    BY DEF Hands
  <2>2. x \in Hands(fs) <=> \E i \in 1..Len(fs) : x \in Ids(Todo(fs[i]))
    BY DEF Hands
  <2>3. ASSUME NEW i \in 1..Len(fs), i # 1 PROVE i - 1 \in 1..Len(s) /\ s[i - 1] = fs[i]
    <3>1. i - 1 \in 1..Len(s) /\ (i - 1) + 1 = i
      BY <1>1, <2>3
    <3> QED
      BY <1>1, <3>1
  <2> QED
    BY <1>1, <1>2, <2>1, <2>2, <2>3
<1>6. Ids(Todo(fs[1])) \cap Hands(s) = {}
  <2> SUFFICES ASSUME NEW i \in 1..Len(s) PROVE Ids(Todo(fs[1])) \cap Ids(Todo(s[i])) = {}
    BY DEF Hands
  <2>1. 1 # i + 1
    BY <1>1
  <2> QED
    BY <1>1, <1>2, <2>1 DEF Stack, Apart
<1>7. Hands(fs) = Ids(Todo(fs[1])) \cup Hands(s)
  BY <1>5
<1> QED
  BY <1>1, <1>2, <1>3, <1>4, <1>6, <1>7 DEF Stack, s

-----------------------------------------------------------------------------
(* sendRequest: the record goes to one place, whatever becomes of it.         *)

(* A frame that has one record, or the list of the queue for the tunnel.      *)
LEMMA CallTop ==
  ASSUME NEW R \in SUBSET Record, NEW fs, Stack(R, fs), NEW r \in R, NEW how \in Hows,
         r.id = HTTP \/ r.id \notin Hands(fs)
  PROVE  /\ Stack(R, <<Call(r, how)>> \o fs)
         /\ Hands(<<Call(r, how)>> \o fs) = ({r.id} \ {HTTP}) \cup Hands(fs)
<1> DEFINE f == Call(r, how)
<1>1. f \in Frame(R) /\ Todo(f) = <<r>>
  <2>1. <<r>> \in Seq(R)
    OBVIOUS
  <2> QED
    BY <2>1 DEF Frame, Todo, Call
<1>2. Once(Todo(f)) /\ Filled(f) /\ Ids(Todo(f)) = {r.id} \ {HTTP}
  BY <1>1, Short DEF Good, Filled
<1>3. Ids(Todo(f)) \cap Hands(fs) = {}
  BY <1>2
<1> HIDE DEF f
<1>4. Stack(R, <<f>> \o fs) /\ Hands(<<f>> \o fs) = Ids(Todo(f)) \cup Hands(fs)
  BY <1>1, <1>2, <1>3, Push
<1> QED
  BY <1>2, <1>4 DEF f

LEMMA TellTop ==
  ASSUME NEW R \in SUBSET Record, NEW fs, Stack(R, fs), NEW q, Good(R, q), Ids(q) \cap Hands(fs) = {}
  PROVE  /\ Stack(R, <<TellAll(q)>> \o fs)
         /\ Hands(<<TellAll(q)>> \o fs) = Ids(q) \cup Hands(fs)
<1> DEFINE f == TellAll(q)
<1>1. f \in Frame(R) /\ Todo(f) = q /\ f.k = "tell"
  BY DEF Good, Frame, Todo, TellAll
<1>2. Once(Todo(f)) /\ Filled(f)
  BY <1>1 DEF Good, Filled
<1> HIDE DEF f
<1>3. Stack(R, <<f>> \o fs) /\ Hands(<<f>> \o fs) = Ids(Todo(f)) \cup Hands(fs)
  BY <1>1, <1>2, Push
<1> QED
  BY <1>1, <1>3 DEF f

(* The second socket is the tunnel's, or a pending connection is done.        *)
LEMMA AfterConnect ==
  ASSUME Socks, UNCHANGED <<tunnel, in, asked, wire, closed, flaws>>, tunneling' \in BOOLEAN,
         \/ tunnel /\ out' = 2 /\ connecting' \in 0..2
         \/ out' = out /\ connecting' = 0
  PROVE  Socks'
<1>1. /\ asked' \in Seq(Recs(tunnel')) /\ wire' \in Seq(Messages)
      /\ closed' \in BOOLEAN /\ forgot' \in BOOLEAN /\ astray' \in BOOLEAN
  BY DEF Socks, flaws
<1>2. /\ in' \in 0..1 /\ out' \in 0..2 /\ connecting' \in 0..2
      /\ (in' = 0 /\ ~tunnel' => out' = 0 /\ connecting' = 0)
      /\ (out' # in' => tunnel')
  BY DEF Socks
<1> QED
  BY <1>1, <1>2 DEF Socks

(* resetTCPSockets leaves the sockets as they are in the beginning.           *)
LEMMA AfterReset ==
  ASSUME Socks, tunnel' = tunnel, ResetSockets, tunneling' \in BOOLEAN,
         forgot' \in BOOLEAN, astray' \in BOOLEAN
  PROVE  Socks'
<1>2. <<>> \in Seq(Recs(tunnel)) /\ <<>> \in Seq(Messages)
  OBVIOUS
<1>3. Recs(tunnel') = Recs(tunnel)
  OBVIOUS
<1>4. asked' \in Seq(Recs(tunnel')) /\ wire' \in Seq(Messages)
  BY <1>2, <1>3 DEF ResetSockets
<1>5. in' = 0 /\ out' = 0 /\ connecting' = 0 /\ closed' \in BOOLEAN
  BY DEF ResetSockets
<1>6. /\ in' \in 0..1 /\ out' \in 0..2 /\ connecting' \in 0..2
      /\ (in' = 0 /\ ~tunnel' => out' = 0 /\ connecting' = 0)
      /\ (out' # in' => tunnel')
  BY <1>5
<1> QED
  BY <1>4, <1>5, <1>6 DEF Socks

(* Where the record may go, and what becomes of the sockets.                  *)
LEMMA Sends ==
  ASSUME Socks, NEW r \in Recs(tunnel), NEW t, NEW rest,
         Owned(Recs(tunnel), conn, t, resp, rest),
         r.id = HTTP \/ r.id \notin All(conn, t, resp, rest),
         SendRequest(r, t, rest), tunnel' = tunnel
  PROVE  /\ Socks'
         /\ Owned(Recs(tunnel), conn', tun', resp', frames')
         /\ All(conn', tun', resp', frames') \subseteq All(conn, t, resp, rest) \cup ({r.id} \ {HTTP})
<1> DEFINE R == Recs(tunnel)
<1>0. R \in SUBSET Record /\ GET.id = HTTP
  BY DEF Recs, GET
<1>00. r \in R
  OBVIOUS
<1>1. Good(R, conn) /\ Good(R, t) /\ Good(R, resp) /\ Stack(R, rest)
  BY DEF Owned
<1>2. Good(R, <<>>) /\ Ids(<<>>) = {} /\ Good(R, <<r>>) /\ Ids(<<r>>) = {r.id} \ {HTTP}
  BY <1>0, Short
<1>3. /\ Good(R, Append(conn, r)) /\ Ids(Append(conn, r)) = Ids(conn) \cup ({r.id} \ {HTTP})
      /\ Good(R, Append(t, r)) /\ Ids(Append(t, r)) = Ids(t) \cup ({r.id} \ {HTTP})
      /\ Good(R, Append(resp, r)) /\ Ids(Append(resp, r)) = Ids(resp) \cup ({r.id} \ {HTTP})
  <2>1. r.id = HTTP \/ (r.id \notin Ids(conn) /\ r.id \notin Ids(t) /\ r.id \notin Ids(resp))
    BY DEF All
  <2>2. Good(R, Append(conn, r)) /\ Ids(Append(conn, r)) = Ids(conn) \cup ({r.id} \ {HTTP})
    BY <1>0, <1>1, <2>1, Enqueued, ZenonT(60)
  <2>3. Good(R, Append(t, r)) /\ Ids(Append(t, r)) = Ids(t) \cup ({r.id} \ {HTTP})
    BY <1>0, <1>1, <2>1, Enqueued
  <2>4. Good(R, Append(resp, r)) /\ Ids(Append(resp, r)) = Ids(resp) \cup ({r.id} \ {HTTP})
    BY <1>0, <1>1, <2>1, Enqueued
  <2> QED
    BY <2>2, <2>3, <2>4
<1>4. /\ Stack(R, <<Call(r, "error")>> \o rest)
      /\ Hands(<<Call(r, "error")>> \o rest) = ({r.id} \ {HTTP}) \cup Hands(rest)
  <2>1. r.id = HTTP \/ r.id \notin Hands(rest)
    BY DEF All
  <2>2. "error" \in Hows
    BY DEF Hows
  <2> QED
    <3>1. Stack(R, rest)
      BY <1>1
    <3>2. ASSUME NEW h \in Hows
          PROVE  /\ Stack(R, <<Call(r, h)>> \o rest)
                 /\ Hands(<<Call(r, h)>> \o rest) = ({r.id} \ {HTTP}) \cup Hands(rest)
      BY <1>0, <3>1, <1>00, <2>1, CallTop
    <3> QED
      BY <2>2, <3>2
<1>5. tunnel => GET \in R
  BY DEF GET, Recs, Record
<1>6. r \in R /\ asked \in Seq(R) /\ Append(asked, r) \in Seq(R) /\ (tunnel => Append(asked, GET) \in Seq(R))
  BY <1>5 DEF Socks
<1>7. Recs(tunnel') = R
  OBVIOUS
<1>8. CASE Enqueue(r, t, rest)
  <2>1. Socks'
    BY <1>8 DEF Enqueue, Socks, socks, flaws
  <2> QED
    BY <1>1, <1>3, <1>8, <2>1 DEF Enqueue, Owned, All
<1>9. CASE Open(r, t, rest) /\ Fail(r, t, rest) /\ UNCHANGED <<socks, conn, tunneling, resp, flaws>>
  <2>1. Socks'
    BY <1>9 DEF Socks, socks, flaws
  <2> QED
    BY <1>1, <1>4, <1>9, <2>1 DEF Fail, Owned, All
<1>10. CASE /\ in' = 1 /\ out' = 1 /\ connecting' = 1
            /\ conn' = <<r>> /\ tun' = t /\ frames' = rest /\ conn = <<>>
            /\ UNCHANGED <<asked, wire, closed, tunneling, resp, flaws>>
  <2>1. Socks'
    BY <1>10 DEF Socks, flaws
  <2> QED
    BY <1>1, <1>2, <1>10, <2>1 DEF Owned, All
<1>11. ASSUME Opened, asked' \in Seq(R), UNCHANGED <<tunneling, flaws>>
       PROVE  Socks'
  BY <1>11 DEF Opened, Socks, flaws
<1>12. CASE Tunnel(r, t, rest)
  <2>1. tunnel /\ asked' = Append(asked, GET) /\ resp' = Append(resp, GET) /\ tun' = Append(t, r)
        /\ frames' = rest /\ conn' = conn /\ UNCHANGED <<tunneling, flaws>> /\ Opened
    BY <1>12 DEF Tunnel, NeedsTunnel, Transmit, Opened
  <2>2. Good(R, Append(resp, GET)) /\ Ids(Append(resp, GET)) = Ids(resp)
    <3>1. Good(R, Append(resp, GET)) /\ Ids(Append(resp, GET)) = Ids(resp) \cup ({GET.id} \ {HTTP})
      BY <1>0, <1>1, <1>5, <2>1, Enqueued
    <3> QED
      BY <1>0, <3>1
  <2>3. Socks'
    BY <1>6, <1>11, <2>1
  <2> QED
    BY <1>1, <1>3, <2>1, <2>2, <2>3 DEF Owned, All
<1>13. CASE TunnelFails(r, t, rest)
  <2> DEFINE call == <<Call(r, "error")>> \o rest
  <2>1. Socks'
    <3>1. forgot' \in BOOLEAN /\ astray' \in BOOLEAN
      BY <1>13 DEF TunnelFails, ForgetThem, Forget, Socks
    <3> QED
      BY <1>13, <3>1, AfterReset DEF TunnelFails
  <2>2. frames' = <<TellAll(t)>> \o call
    <3>1. rest \in Seq(Frame(R)) /\ Call(r, "error") \in Frame(R) /\ TellAll(t) \in Frame(R)
      <4>1. <<r>> \in Seq(R) /\ t \in Seq(R)
        BY <1>1 DEF Good
      <4> QED
        BY <1>1, <4>1 DEF Stack, Frame, Call, TellAll, Hows
    <3> QED
      BY <1>13, <3>1 DEF TunnelFails
  <2>3. Ids(t) \cap Hands(call) = {}
    BY <1>4 DEF Owned, All
  <2>4. Stack(R, <<TellAll(t)>> \o call) /\ Hands(<<TellAll(t)>> \o call) = Ids(t) \cup Hands(call)
    BY <1>0, <1>1, <1>4, <2>3, TellTop
  <2>5. tun' = <<>> /\ conn' = conn /\ resp' = resp
    BY <1>13 DEF TunnelFails
  <2> HIDE DEF call
  <2>6. Stack(R, frames') /\ Hands(frames') = Ids(t) \cup ({r.id} \ {HTTP}) \cup Hands(rest)
    BY <1>4, <2>2, <2>4 DEF call
  <2> QED
    BY <1>1, <1>2, <2>1, <2>5, <2>6 DEF Owned, All
<1>14. CASE Opened /\ Transmit(r) /\ frames' = rest /\ tun' = t /\ UNCHANGED <<tunneling, flaws>>
  <2>1. Socks' /\ conn' = conn /\ resp' = Append(resp, r)
    BY <1>6, <1>11, <1>14 DEF Transmit, Opened
  <2> QED
    BY <1>1, <1>3, <1>14, <2>1 DEF Owned, All
<1>15. CASE Opened /\ Fail(r, t, rest) /\ UNCHANGED <<asked, resp, tunneling, flaws>>
  <2>1. Socks' /\ conn' = conn
    BY <1>6, <1>11, <1>15 DEF Opened
  <2> QED
    BY <1>1, <1>4, <1>15, <2>1 DEF Fail, Owned, All
<1>16. CASE Emit(r, t, rest)
  BY <1>14, <1>15, <1>16 DEF Emit
<1>17. CASE Open(r, t, rest)
  BY <1>9, <1>10, <1>17 DEF Open
<1> QED
  BY <1>8, <1>12, <1>13, <1>16, <1>17 DEF SendRequest

-----------------------------------------------------------------------------
(* The steps that leave told alone.                                         *)

(* A step that hands over records, and takes in none.                        *)
LEMMA Kept ==
  ASSUME OwnInv, UNCHANGED <<tunnel, sent, told>>, Typed', Socks',
         Owned(Recs(tunnel), conn', tun', resp', frames'),
         All(conn', tun', resp', frames') \subseteq All(conn, tun, resp, frames)
  PROVE  OwnInv'
<1>1. Told' = Told
  BY DEF Told
<1> QED
  BY <1>1 DEF OwnInv

(* What OwnInv says of the lists, with the facts on R that every step needs.  *)
LEMMA Base ==
  ASSUME OwnInv
  PROVE  /\ Recs(tunnel) \in SUBSET Record
         /\ Owned(Recs(tunnel), conn, tun, resp, frames)
         /\ Good(Recs(tunnel), conn) /\ Good(Recs(tunnel), tun) /\ Good(Recs(tunnel), resp)
         /\ Stack(Recs(tunnel), frames)
         /\ Good(Recs(tunnel), <<>>) /\ Ids(<<>>) = {}
<1>1. <<>> \in Seq(Recs(tunnel)) /\ Ids(<<>>) = {}
  BY DEF Ids
<1> QED
  BY <1>1 DEF OwnInv, Owned, Good, Once, Recs

(* Only what the server has to do with, or the buffer, is changed.            *)
LEMMA Quiet ==
  ASSUME OwnInv, UNCHANGED <<tunnel, queues, frames, sent, told>>, Typed', Socks'
  PROVE  OwnInv'
<1>1. Owned(Recs(tunnel), conn', tun', resp', frames')
  BY Base DEF queues
<1>2. All(conn', tun', resp', frames') = All(conn, tun, resp, frames)
  BY DEF queues
<1> QED
  BY <1>1, <1>2, Kept

(* The top frame of a stack that is not empty.                               *)
LEMMA Topmost ==
  ASSUME OwnInv, frames # <<>>
  PROVE  /\ Head(frames) \in Frame(Recs(tunnel)) /\ Filled(Head(frames))
         /\ Good(Recs(tunnel), Todo(Head(frames)))
         /\ Stack(Recs(tunnel), Below)
         /\ Hands(frames) = Ids(Todo(Head(frames))) \cup Hands(Below)
         /\ Ids(Todo(Head(frames))) \cap Hands(Below) = {}
         /\ Owned(Recs(tunnel), conn, tun, resp, Below)
         /\ Ids(Todo(Head(frames))) \cap All(conn, tun, resp, Below) = {}
         /\ All(conn, tun, resp, frames) = Ids(Todo(Head(frames))) \cup All(conn, tun, resp, Below)
<1>1. /\ Head(frames) \in Frame(Recs(tunnel)) /\ Filled(Head(frames)) /\ Once(Todo(Head(frames)))
      /\ Stack(Recs(tunnel), Below)
      /\ Hands(frames) = Ids(Todo(Head(frames))) \cup Hands(Below)
      /\ Ids(Todo(Head(frames))) \cap Hands(Below) = {}
  BY Base, Pop DEF Below
<1>2. Good(Recs(tunnel), Todo(Head(frames)))
  BY <1>1, Base, Lists1 DEF Good
<1>3. Owned(Recs(tunnel), conn, tun, resp, Below)
  BY <1>1, Base DEF Owned
<1>4. Ids(Todo(Head(frames))) \cap All(conn, tun, resp, Below) = {}
  BY <1>1, Base DEF Owned, All
<1>5. All(conn, tun, resp, frames) = Ids(Todo(Head(frames))) \cup All(conn, tun, resp, Below)
  BY <1>1 DEF All
<1> QED
  BY <1>1, <1>2, <1>3, <1>4, <1>5

(* The top frame is done with.                                              *)
LEMMA Popped ==
  ASSUME OwnInv, frames # <<>>, frames' = Below, UNCHANGED <<tunnel, queues, sent, told>>,
         Typed', Socks'
  PROVE  OwnInv'
<1>1. Owned(Recs(tunnel), conn', tun', resp', frames')
  BY Topmost DEF queues
<1>2. All(conn', tun', resp', frames') \subseteq All(conn, tun, resp, frames)
  BY Topmost DEF queues
<1> QED
  BY <1>1, <1>2, Kept

(* The frame for what is left of a list.                                     *)
LEMMA Stepped ==
  ASSUME NEW R \in SUBSET Record, NEW fs, Stack(R, fs), NEW q, Good(R, q), Ids(q) \cap Hands(fs) = {}
  PROVE  /\ Stack(R, Step(Resume(q)) \o fs)
         /\ Hands(Step(Resume(q)) \o fs) = Ids(q) \cup Hands(fs)
         /\ Stack(R, Step(TellAll(q)) \o fs)
         /\ Hands(Step(TellAll(q)) \o fs) = Ids(q) \cup Hands(fs)
         /\ Step(TellAll(q)) \in Seq(Frame(R))
<1>1. CASE q = <<>>
  <2>1. Step(Resume(q)) = <<>> /\ Step(TellAll(q)) = <<>>
    BY <1>1 DEF Step, Resume, TellAll
  <2>2. <<>> \o fs = fs /\ <<>> \in Seq(Frame(R))
    BY DEF Stack
  <2>3. Ids(q) = {}
    BY <1>1 DEF Ids
  <2> QED
    BY <2>1, <2>2, <2>3
<1>2. CASE q # <<>>
  <2>1. Step(Resume(q)) = <<Resume(q)>> /\ Step(TellAll(q)) = <<TellAll(q)>>
    BY <1>2 DEF Step, Resume, TellAll
  <2>2. TellAll(q) \in Frame(R)
    BY DEF Good, Frame, TellAll
  <2>3. Resume(q) \in Frame(R) /\ Todo(Resume(q)) = q /\ Resume(q).k = "resume"
    BY DEF Good, Frame, Resume, Todo
  <2>4. Filled(Resume(q)) /\ Once(Todo(Resume(q)))
    BY <1>2, <2>3 DEF Filled, Good
  <2>5. Stack(R, <<Resume(q)>> \o fs) /\ Hands(<<Resume(q)>> \o fs) = Ids(q) \cup Hands(fs)
    BY <2>3, <2>4, Push
  <2>6. Stack(R, <<TellAll(q)>> \o fs) /\ Hands(<<TellAll(q)>> \o fs) = Ids(q) \cup Hands(fs)
    BY TellTop
  <2>7. <<TellAll(q)>> \in Seq(Frame(R))
    BY <2>2
  <2> QED
    BY <2>1, <2>5, <2>6, <2>7
<1> QED
  BY <1>1, <1>2

(* A record under way is sent: it was in a list, and goes to another.         *)
LEMMA SendsOn ==
  ASSUME OwnInv, NEW r \in Recs(tunnel), NEW t, NEW rest, SendRequest(r, t, rest),
         Owned(Recs(tunnel), conn, t, resp, rest),
         All(conn, t, resp, rest) \cup ({r.id} \ {HTTP}) \subseteq All(conn, tun, resp, frames),
         r.id = HTTP \/ r.id \notin All(conn, t, resp, rest),
         fCSeq' \in Nat, UNCHANGED <<tunnel, buffer, odd, history>>
  PROVE  OwnInv'
<1>1. /\ Socks' /\ Owned(Recs(tunnel), conn', tun', resp', frames')
      /\ All(conn', tun', resp', frames') \subseteq All(conn, t, resp, rest) \cup ({r.id} \ {HTTP})
  BY Sends DEF OwnInv
<1>2. Typed'
  BY DEF OwnInv, Typed, history
<1> QED
  BY <1>1, <1>2, Kept DEF history

LEMMA ResumeNextKeeps ==
  ASSUME OwnInv, ResumeNext PROVE OwnInv'
<1> DEFINE R == Recs(tunnel)  f == Head(frames)  q == f.todo
<1>1. frames # <<>> /\ f.k = "resume"
  BY DEF ResumeNext, Top
<1>2. Todo(f) = q /\ q # <<>>
  BY <1>1, Topmost, Base, Lists1 DEF Filled
<1>3. Good(R, q) /\ Stack(R, Below) /\ Ids(q) \cap Hands(Below) = {}
  BY <1>1, <1>2, Topmost
<1>4. /\ Head(q) \in R /\ Good(R, Tail(q))
      /\ Ids(q) = Ids(Tail(q)) \cup ({Head(q).id} \ {HTTP}) /\ Head(q).id \notin Ids(Tail(q))
  BY <1>2, <1>3, Base, Dequeued
<1> DEFINE rest == Step(Resume(Tail(q))) \o Below
<1>5. Stack(R, rest) /\ Hands(rest) = Ids(Tail(q)) \cup Hands(Below)
  <2>1. Ids(Tail(q)) \cap Hands(Below) = {}
    BY <1>3, <1>4
  <2> QED
    BY <1>3, <1>4, <2>1, Base, Stepped
<1>6. SendRequest(Head(q), tun, rest) /\ UNCHANGED <<tunnel, fCSeq, buffer, odd, history>>
  BY DEF ResumeNext
<1> HIDE DEF rest
<1>7. Owned(R, conn, tun, resp, rest)
  BY <1>1, <1>2, <1>4, <1>5, Topmost DEF Owned, All
<1>8. All(conn, tun, resp, rest) \cup ({Head(q).id} \ {HTTP}) \subseteq All(conn, tun, resp, frames)
  BY <1>1, <1>2, <1>4, <1>5, Topmost DEF All
<1>9. Head(q).id = HTTP \/ Head(q).id \notin All(conn, tun, resp, rest)
  BY <1>1, <1>2, <1>4, <1>5, Topmost DEF All
<1>10. fCSeq' \in Nat
  BY <1>6 DEF OwnInv, Typed
<1> QED
  BY <1>4, <1>6, <1>7, <1>8, <1>9, <1>10, SendsOn

LEMMA DrainNextKeeps ==
  ASSUME OwnInv, DrainNext PROVE OwnInv'
<1> DEFINE R == Recs(tunnel)
<1>1. frames # <<>> /\ UNCHANGED <<tunnel, fCSeq, buffer, odd, history>>
  BY DEF DrainNext, Top
<1>2. Typed' /\ fCSeq' \in Nat
  BY <1>1 DEF OwnInv, Typed, history
<1>3. CASE tun # <<>> /\ SendRequest(Head(tun), Tail(tun), frames)
  <2>1. /\ Head(tun) \in R /\ Good(R, Tail(tun))
        /\ Ids(tun) = Ids(Tail(tun)) \cup ({Head(tun).id} \ {HTTP})
        /\ Head(tun).id \notin Ids(Tail(tun))
    BY <1>3, Base, Dequeued
  <2>2. Owned(R, conn, Tail(tun), resp, frames)
    BY <2>1, Base DEF Owned
  <2>3. /\ All(conn, Tail(tun), resp, frames) \cup ({Head(tun).id} \ {HTTP})
             \subseteq All(conn, tun, resp, frames)
        /\ Head(tun).id = HTTP \/ Head(tun).id \notin All(conn, Tail(tun), resp, frames)
    BY <2>1, Base DEF Owned, All
  <2> QED
    BY <1>1, <1>2, <1>3, <2>1, <2>2, <2>3, SendsOn
<1>4. CASE frames' = Below /\ UNCHANGED <<socks, tunneling, queues, flaws>>
  <2>1. Socks'
    BY <1>1, <1>4 DEF OwnInv, Socks, socks, flaws
  <2> QED
    BY <1>1, <1>2, <1>4, <2>1, Popped DEF history
<1> QED
  BY <1>3, <1>4 DEF DrainNext

LEMMA TellNextKeeps ==
  ASSUME OwnInv, TellNext PROVE OwnInv'
<1> DEFINE R == Recs(tunnel)  f == Head(frames)  q == f.todo
<1>1. frames # <<>> /\ f.k = "tell"
  BY DEF TellNext, Top
<1>2. Todo(f) = q
  BY <1>1, Topmost, Base, Lists1
<1>3. UNCHANGED <<tunnel, fCSeq, socks, tunneling, queues, buffer, odd, history, flaws>>
  BY DEF TellNext
<1>4. Typed' /\ Socks'
  BY <1>3 DEF OwnInv, Typed, Socks, socks, history, flaws
<1>5. CASE q = <<>>
  <2>1. frames' = Below
    BY <1>5 DEF TellNext
  <2> QED
    BY <1>1, <1>3, <1>4, <2>1, Popped DEF history
<1>6. CASE q # <<>>
  <2>1. Good(R, q) /\ Stack(R, Below) /\ Ids(q) \cap Hands(Below) = {}
    BY <1>1, <1>2, Topmost
  <2>2. /\ Head(q) \in R /\ Good(R, Tail(q))
        /\ Ids(q) = Ids(Tail(q)) \cup ({Head(q).id} \ {HTTP}) /\ Head(q).id \notin Ids(Tail(q))
    BY <1>6, <2>1, Base, Dequeued
  <2> DEFINE step == Step(TellAll(Tail(q)))  call == Call(Head(q), "error")
  <2>3. Stack(R, step \o Below) /\ Hands(step \o Below) = Ids(Tail(q)) \cup Hands(Below) /\ step \in Seq(Frame(R))
    BY <2>1, <2>2, Base, Stepped
  <2>4. "error" \in Hows
    BY DEF Hows
  <2>5. /\ Stack(R, <<call>> \o (step \o Below))
        /\ Hands(<<call>> \o (step \o Below)) = ({Head(q).id} \ {HTTP}) \cup Hands(step \o Below)
    <3>1. Head(q).id = HTTP \/ Head(q).id \notin Hands(step \o Below)
      BY <2>1, <2>2, <2>3
    <3> QED
      BY <2>2, <2>3, <2>4, <3>1, Base, CallTop
  <2>6. frames' = <<call>> \o (step \o Below)
    <3>1. frames' = <<call>> \o step \o Below
      BY <1>6 DEF TellNext
    <3>2. call \in Frame(R)
      <4>1. <<Head(q)>> \in Seq(R)
        BY <2>2
      <4> QED
        BY <4>1 DEF Frame, Call, Hows
    <3>3. Below \in Seq(Frame(R))
      BY <2>1 DEF Stack
    <3> HIDE DEF step, call
    <3> QED
      BY <2>3, <3>1, <3>2, <3>3
  <2>7. Stack(R, frames') /\ Hands(frames') = Hands(frames)
    BY <1>1, <1>2, <2>2, <2>3, <2>5, <2>6, Topmost
  <2>8. Owned(R, conn', tun', resp', frames') /\ All(conn', tun', resp', frames') = All(conn, tun, resp, frames)
    BY <1>3, <2>7, Base DEF Owned, All, queues
  <2> QED
    BY <1>3, <1>4, <2>8, Kept DEF history
<1> QED
  BY <1>5, <1>6

LEMMA ResendCommandKeeps ==
  ASSUME OwnInv, ResendCommand PROVE OwnInv'
<1> DEFINE R == Recs(tunnel)  f == Head(frames)  r == Head(f.todo)
<1>1. frames # <<>> /\ f.k = "resend"
  BY DEF ResendCommand, Top
<1>2. Todo(f) = f.todo /\ f.todo # <<>>
  BY <1>1, Topmost, Base, Lists1 DEF Filled
<1>3. r \in R /\ Ids(f.todo) = Ids(Tail(f.todo)) \cup ({r.id} \ {HTTP})
  BY <1>1, <1>2, Topmost, Base, Dequeued
<1>4. /\ fCSeq' \in Nat /\ UNCHANGED <<tunnel, buffer, odd, history>>
      /\ SendRequest(Renumbered(r), tun, Below)
  BY DEF ResendCommand, OwnInv, Typed
<1>5. Renumbered(r) \in R /\ Renumbered(r).id = r.id
  <2>1. r = [id |-> r.id, cseq |-> r.cseq] /\ r.id \in {HTTP} \cup Requests /\ (tunnel \/ r.id # HTTP)
    BY <1>3 DEF Recs, Record
  <2>2. fCSeq + 1 \in Nat
    BY DEF OwnInv, Typed
  <2>3. [r EXCEPT !.cseq = fCSeq + 1] = [id |-> r.id, cseq |-> fCSeq + 1]
    BY <2>1
  <2>4. [id |-> r.id, cseq |-> fCSeq + 1] \in R
    BY <2>1, <2>2 DEF Recs, Record
  <2> QED
    BY <1>3, <2>3, <2>4 DEF Renumbered
<1>6. /\ Owned(R, conn, tun, resp, Below)
      /\ All(conn, tun, resp, Below) \cup ({r.id} \ {HTTP}) \subseteq All(conn, tun, resp, frames)
      /\ r.id = HTTP \/ r.id \notin All(conn, tun, resp, Below)
  BY <1>1, <1>2, <1>3, Topmost
<1> QED
  BY <1>4, <1>5, <1>6, SendsOn

LEMMA ReturnKeeps ==
  ASSUME OwnInv, Return \/ Incomplete \/ IncomingRequest PROVE OwnInv'
<1>1. /\ frames # <<>> /\ frames' = Below
      /\ UNCHANGED <<tunnel, fCSeq, socks, tunneling, queues, odd, history>>
  BY DEF Return, Incomplete, IncomingRequest, Top
<1>2. buffer' \in Seq(Messages) /\ forgot' \in BOOLEAN /\ astray' \in BOOLEAN
  <2>0. buffer \in Seq(Messages) /\ forgot \in BOOLEAN /\ astray \in BOOLEAN
    BY DEF OwnInv, Typed, Socks
  <2>1. CASE Return \/ Incomplete
    BY <2>0, <2>1 DEF Return, Incomplete, flaws
  <2>2. CASE IncomingRequest
    <3>1. frames # <<>> /\ Head(frames).k = "parse"
      BY <2>2 DEF IncomingRequest, Top
    <3>2. Head(frames).extra \in Nat
      BY <3>1, Topmost DEF Frame
    <3> DEFINE m == Max({1, Len(buffer) - Head(frames).extra + 1})
    <3>3. m \in Nat /\ m >= 1
      <4>0. Len(buffer) - Head(frames).extra + 1 \in Int
        BY <2>0, <3>2
      <4>1. ASSUME NEW a \in Int PROVE Max({1, a}) \in Nat /\ Max({1, a}) >= 1
        <5>1. \E x \in {1, a} : \A y \in {1, a} : x >= y
          <6>1. CASE a >= 1
            BY <6>1
          <6>2. CASE ~(a >= 1)
            BY <6>2
          <6> QED
            BY <6>1, <6>2
        <5>2. Max({1, a}) \in {1, a} /\ \A y \in {1, a} : Max({1, a}) >= y
          BY <5>1 DEF Max
        <5> QED
          BY <5>2
      <4> QED
        BY <4>0, <4>1
    <3>4. buffer' = SubSeq(buffer, m, Len(buffer))
      BY <2>2 DEF IncomingRequest
    <3> HIDE DEF m
    <3>5. buffer' \in Seq(Messages)
      BY <2>0, <3>3, <3>4
    <3> QED
      BY <2>0, <2>2, <3>5 DEF IncomingRequest
  <2> QED
    BY <2>1, <2>2
<1>3. Typed' /\ Socks'
  BY <1>1, <1>2 DEF OwnInv, Typed, Socks, socks, history
<1> QED
  BY <1>1, <1>3, Popped DEF history

(* The second connection's record, or the records that wait for it, stay.     *)
LEMMA HandleGETKeeps ==
  ASSUME OwnInv, HandleGET PROVE OwnInv'
<1> DEFINE R == Recs(tunnel)
<1>1. /\ frames # <<>> /\ Head(frames).k = "call"
      /\ UNCHANGED <<tunnel, fCSeq, buffer, odd, history>>
  BY DEF HandleGET, Top
<1>2. Typed'
  BY <1>1 DEF OwnInv, Typed, history
<1>3. tunnel = TRUE
  <2>1. Todo(Head(frames)) = Head(frames).todo /\ Head(frames).todo # <<>>
    BY <1>1, Topmost, Base, Lists1 DEF Filled
  <2>2. Head(Head(frames).todo) \in R
    BY <1>1, <2>1, Topmost, Base, Dequeued
  <2>3. Head(Head(frames).todo).id = HTTP
    BY DEF HandleGET
  <2> QED
    BY <2>2, <2>3 DEF Recs, OwnInv, Typed
<1>4. CASE TunnelError
  <2>1. forgot' \in BOOLEAN /\ astray' \in BOOLEAN /\ tunneling' \in BOOLEAN
    BY <1>4 DEF TunnelError, ForgetThem, Forget, OwnInv, Socks
  <2>2. Socks'
    BY <1>1, <1>4, <2>1, AfterReset DEF TunnelError, OwnInv
  <2>3. Ids(tun) \cap Hands(Below) = {}
    BY <1>1, Topmost DEF Owned
  <2>4. Stack(R, <<TellAll(tun)>> \o Below) /\ Hands(<<TellAll(tun)>> \o Below) = Ids(tun) \cup Hands(Below)
    BY <1>1, <2>3, Base, Topmost, TellTop
  <2>5. /\ conn' = conn /\ resp' = resp /\ tun' = <<>>
        /\ Stack(R, frames') /\ Hands(frames') = Ids(tun) \cup Hands(Below)
    BY <1>4, <2>4 DEF TunnelError
  <2>6. Owned(R, conn', tun', resp', frames') /\ All(conn', tun', resp', frames') \subseteq All(conn, tun, resp, frames)
    BY <1>1, <2>5, Base, Topmost DEF Owned, All
  <2> QED
    BY <1>1, <1>2, <2>2, <2>6, Kept DEF history
<1>5. CASE TunnelPending
  <2>1. Socks'
    <3>1. connecting' \in 0..2 /\ tunneling' \in BOOLEAN
      BY <1>5 DEF TunnelPending
    <3> QED
      BY <1>1, <1>3, <1>5, <3>1, AfterConnect DEF TunnelPending, OwnInv, flaws
  <2>2. Ids(conn) \cap Ids(tun) = {}
    BY Base DEF Owned
  <2>3. Good(R, conn \o tun) /\ Ids(conn \o tun) = Ids(conn) \cup Ids(tun)
    BY <2>2, Base, Joined
  <2>4. conn' = conn \o tun /\ tun' = <<>> /\ resp' = resp /\ frames' = Below
    BY <1>5 DEF TunnelPending
  <2>5. Owned(R, conn', tun', resp', frames') /\ All(conn', tun', resp', frames') \subseteq All(conn, tun, resp, frames)
    BY <1>1, <2>3, <2>4, Base, Topmost DEF Owned, All
  <2> QED
    BY <1>1, <1>2, <2>1, <2>5, Kept DEF history
<1>6. CASE TunnelOpen
  <2>1. Socks'
    <3>1. connecting' \in 0..2 /\ tunneling' \in BOOLEAN
      BY <1>6 DEF TunnelOpen, OwnInv, Socks
    <3> QED
      BY <1>1, <1>3, <1>6, <3>1, AfterConnect DEF TunnelOpen, OwnInv, flaws
  <2>2. Drain \in Frame(R) /\ Todo(Drain) = <<>> /\ Drain.k = "drain"
    BY DEF Drain, Frame, Todo
  <2>3. Stack(R, <<Drain>> \o Below) /\ Hands(<<Drain>> \o Below) = Hands(Below)
    <3>1. Once(Todo(Drain)) /\ Filled(Drain) /\ Ids(Todo(Drain)) = {}
      BY <2>2, Base DEF Good, Filled
    <3>2. Stack(R, <<Drain>> \o Below) /\ Hands(<<Drain>> \o Below) = Ids(Todo(Drain)) \cup Hands(Below)
      BY <1>1, <2>2, <3>1, Base, Topmost, Push
    <3> QED
      BY <3>1, <3>2
  <2>4. UNCHANGED queues /\ frames' = <<Drain>> \o Below
    BY <1>6 DEF TunnelOpen
  <2>5. Owned(R, conn', tun', resp', frames') /\ All(conn', tun', resp', frames') \subseteq All(conn, tun, resp, frames)
    BY <1>1, <2>3, <2>4, Base, Topmost DEF Owned, All, queues
  <2> QED
    BY <1>1, <1>2, <2>1, <2>5, Kept DEF history
<1> QED
  BY <1>4, <1>5, <1>6 DEF HandleGET

(* connectionHandler1 and the error of handleResponseBytes: a queue is taken  *)
(* into a frame, whole.                                                     *)
LEMMA ConnectedKeeps ==
  ASSUME OwnInv, Connected \/ ConnectionFails PROVE OwnInv'
<1> DEFINE R == Recs(tunnel)
<1>1. /\ conn' = <<>> /\ tun' = tun /\ resp' = resp
      /\ UNCHANGED <<tunnel, fCSeq, buffer, odd, history>>
      /\ frames' \in {Step(Resume(conn)) \o frames, Step(TellAll(conn)) \o frames}
  BY DEF Connected, ConnectionFails
<1>2. Typed'
  BY <1>1 DEF OwnInv, Typed, history
<1>3. Socks'
  <2>1. CASE Connected
    BY <1>1, <2>1, AfterConnect DEF Connected, OwnInv, flaws
  <2>2. CASE ConnectionFails
    <3>1. forgot' \in BOOLEAN /\ astray' \in BOOLEAN /\ tunneling' \in BOOLEAN
      BY <2>2 DEF ConnectionFails, ForgetThem, Forget, OwnInv, Socks
    <3> QED
      BY <2>2, <3>1, AfterReset DEF ConnectionFails, OwnInv
  <2> QED
    BY <2>1, <2>2
<1>4. Ids(conn) \cap Hands(frames) = {}
  BY Base DEF Owned
<1>5. Stack(R, frames') /\ Hands(frames') = Ids(conn) \cup Hands(frames)
  <2>1. ASSUME NEW s, s = Step(Resume(conn)) \o frames \/ s = Step(TellAll(conn)) \o frames
        PROVE  Stack(R, s) /\ Hands(s) = Ids(conn) \cup Hands(frames)
    <3>1. /\ Stack(R, Step(Resume(conn)) \o frames)
          /\ Hands(Step(Resume(conn)) \o frames) = Ids(conn) \cup Hands(frames)
          /\ Stack(R, Step(TellAll(conn)) \o frames)
          /\ Hands(Step(TellAll(conn)) \o frames) = Ids(conn) \cup Hands(frames)
      BY <1>4, Base, Stepped
    <3> QED
      BY <2>1, <3>1
  <2>2. frames' = Step(Resume(conn)) \o frames \/ frames' = Step(TellAll(conn)) \o frames
    BY <1>1
  <2> QED
    BY <2>1, <2>2
<1>6. Owned(R, conn', tun', resp', frames') /\ All(conn', tun', resp', frames') \subseteq All(conn, tun, resp, frames)
  BY <1>1, <1>5, Base DEF Owned, All
<1> QED
  BY <1>1, <1>2, <1>3, <1>6, Kept DEF history

LEMMA ReadErrorKeeps ==
  ASSUME OwnInv, ReadError PROVE OwnInv'
<1> DEFINE R == Recs(tunnel)
<1>1. /\ conn' = conn /\ tun' = tun /\ resp' = <<>> /\ buffer' = <<>>
      /\ UNCHANGED <<tunnel, fCSeq, tunneling, odd, history>>
      /\ frames' = Step(TellAll(resp)) \o frames
  BY DEF ReadError
<1>2. Typed'
  <2>1. buffer' \in Seq(Messages)
    BY <1>1
  <2> QED
    BY <1>1, <2>1 DEF OwnInv, Typed, history
<1>3. Socks'
  <2>1. forgot' \in BOOLEAN /\ astray' \in BOOLEAN /\ tunneling' \in BOOLEAN
    BY <1>1 DEF ReadError, ForgetThem, Forget, OwnInv, Socks
  <2> QED
    BY <2>1, AfterReset DEF ReadError, OwnInv
<1>4. Ids(resp) \cap Hands(frames) = {}
  BY Base DEF Owned
<1>5. Stack(R, frames') /\ Hands(frames') = Ids(resp) \cup Hands(frames)
  BY <1>1, <1>4, Base, Stepped
<1>6. Owned(R, conn', tun', resp', frames') /\ All(conn', tun', resp', frames') \subseteq All(conn, tun, resp, frames)
  BY <1>1, <1>5, Base DEF Owned, All
<1> QED
  BY <1>1, <1>2, <1>3, <1>6, Kept DEF history

(* A frame without records is put on the stack.                              *)
LEMMA ParseTop ==
  ASSUME NEW R \in SUBSET Record, NEW fs, Stack(R, fs), NEW n \in Nat
  PROVE  Stack(R, <<Parse(n)>> \o fs) /\ Hands(<<Parse(n)>> \o fs) = Hands(fs)
<1>1. Parse(n) \in Frame(R) /\ Todo(Parse(n)) = <<>> /\ Parse(n).k = "parse"
  BY DEF Parse, Frame, Todo
<1>2. Once(Todo(Parse(n))) /\ Filled(Parse(n)) /\ Ids(Todo(Parse(n))) = {}
  BY <1>1 DEF Once, Filled, Ids
<1>3. Stack(R, <<Parse(n)>> \o fs) /\ Hands(<<Parse(n)>> \o fs) = Ids(Todo(Parse(n))) \cup Hands(fs)
  BY <1>1, <1>2, Push
<1> QED
  BY <1>2, <1>3

LEMMA RecvKeeps ==
  ASSUME OwnInv, Recv PROVE OwnInv'
<1> DEFINE R == Recs(tunnel)
<1>1. /\ UNCHANGED <<tunnel, fCSeq, in, out, connecting, asked, closed, tunneling, queues, odd,
                     history, flaws>>
      /\ frames' = <<Parse(0)>> \o frames
  BY DEF Recv
<1>2. buffer' \in Seq(Messages) /\ wire' \in Seq(Messages)
  <2>1. buffer \in Seq(Messages) /\ wire \in Seq(Messages)
    BY DEF OwnInv, Typed, Socks
  <2>2. PICK n \in 1..Len(wire) : /\ buffer' = buffer \o SubSeq(wire, 1, n)
                                  /\ wire' = SubSeq(wire, n + 1, Len(wire))
    BY DEF Recv
  <2>3. SubSeq(wire, 1, n) \in Seq(Messages) /\ SubSeq(wire, n + 1, Len(wire)) \in Seq(Messages)
    BY <2>1
  <2> QED
    BY <2>1, <2>2, <2>3
<1>3. Typed' /\ Socks'
  BY <1>1, <1>2 DEF OwnInv, Typed, Socks, history, flaws
<1>4. Stack(R, frames') /\ Hands(frames') = Hands(frames)
  BY <1>1, Base, ParseTop
<1>5. Owned(R, conn', tun', resp', frames') /\ All(conn', tun', resp', frames') = All(conn, tun, resp, frames)
  BY <1>1, <1>4, Base DEF Owned, All, queues
<1> QED
  BY <1>1, <1>3, <1>5, Kept DEF history

-----------------------------------------------------------------------------
(* Responses.                                                               *)

(* The least number of a set that is not empty.                              *)
LEMMA Least ==
  ASSUME NEW S \in SUBSET Nat, S # {}
  PROVE  Min(S) \in S /\ \A y \in S : Min(S) <= y
<1>1. PICK x \in S : \A y \in S : ~ (<<y, x>> \in OpToRel(<, Nat))
  BY NatLessThanWellFounded, WFMin
<1>2. ASSUME NEW y \in S PROVE x <= y
  <2>1. ~ (<<y, x>> \in OpToRel(<, Nat))
    BY <1>1
  <2>2. <<y, x>> \in Nat \X Nat
    OBVIOUS
  <2>3. ~ (y < x)
    BY <2>1, <2>2 DEF OpToRel
  <2> QED
    BY <2>3
<1> QED
  BY <1>2 DEF Min

(* Taker finds a place in the queue, or one behind it: the first record that  *)
(* has not a lower number, if it is the one, and else the next.              *)
LEMMA TakerAt ==
  ASSUME NEW R \in SUBSET Record, Good(R, resp), NEW c \in Nat
  PROVE  /\ Taker(c) \in Nat \ {0}
         /\ \A p \in 1..Len(resp) :
              (resp[p].cseq >= c /\ \A i \in 1..(p - 1) : resp[i].cseq < c)
              => Taker(c) = IF c = 0 \/ resp[p].cseq = c THEN p ELSE p + 1
<1> DEFINE from == {i \in 1..Len(resp) : resp[i].cseq >= c}
           i0 == IF from = {} THEN Len(resp) + 1 ELSE Min(from)
<1>1. resp \in Seq(R) /\ Len(resp) \in Nat /\ from \in SUBSET Nat
  BY DEF Good
<1>2. from # {} => Min(from) \in from /\ \A y \in from : Min(from) <= y
  BY <1>1, Least
<1>3. i0 \in Nat \ {0}
  BY <1>1, <1>2
<1>4. Taker(c) = IF c = 0 \/ (i0 <= Len(resp) /\ resp[i0].cseq = c) THEN i0 ELSE i0 + 1
  BY DEF Taker
<1>5. ASSUME NEW p \in 1..Len(resp), resp[p].cseq >= c, \A i \in 1..(p - 1) : resp[i].cseq < c
      PROVE  i0 = p
  <2>1. p \in from
    BY <1>5
  <2>2. Min(from) \in 1..Len(resp) /\ resp[Min(from)].cseq >= c /\ Min(from) <= p
    BY <1>2, <2>1
  <2>3. ASSUME Min(from) < p PROVE FALSE
    <3>1. Min(from) \in 1..(p - 1)
      BY <1>1, <2>2, <2>3
    <3>2. resp[Min(from)].cseq < c /\ resp[Min(from)].cseq \in Nat
      BY <1>1, <1>5, <2>2, <3>1 DEF Record
    <3> QED
      BY <2>2, <3>2
  <2> QED
    BY <1>1, <2>1, <2>2, <2>3
<1> HIDE DEF i0
<1>6. Taker(c) \in Nat \ {0}
  BY <1>3, <1>4
<1>7. ASSUME NEW p \in 1..Len(resp), resp[p].cseq >= c, \A i \in 1..(p - 1) : resp[i].cseq < c
      PROVE  Taker(c) = IF c = 0 \/ resp[p].cseq = c THEN p ELSE p + 1
  BY <1>1, <1>4, <1>5, <1>7
<1> QED
  BY <1>6, <1>7

(* What the response takes out of the queue, and what it leaves.              *)
LEMMA Taken ==
  ASSUME NEW R \in SUBSET Record, Good(R, resp), NEW h, h.cseq \in Nat
  PROVE  /\ Good(R, Rest(h)) /\ Ids(Rest(h)) \subseteq Ids(resp)
         /\ \/ Found(h) = <<>>
            \/ /\ Found(h) # <<>> /\ Found(h) = <<Head(Found(h))>> /\ Head(Found(h)) \in R
               /\ Head(Found(h)).id \in Ids(resp) \cup {HTTP}
               /\ Head(Found(h)).id \notin Ids(Rest(h))
         /\ Good(R, Found(h) \o Rest(h)) /\ Ids(Found(h) \o Rest(h)) \subseteq Ids(resp)
<1>0. PICK n \in Nat \ {0} : n = Taker(h.cseq)
  BY TakerAt
<1>2. Rest(h) = SubSeq(resp, n + 1, Len(resp))
  BY <1>0 DEF Rest
<1>3. Found(h) = IF n \in DOMAIN resp THEN <<resp[n]>> ELSE <<>>
  BY <1>0 DEF Found
<1>4. /\ Good(R, Rest(h)) /\ Ids(Rest(h)) \subseteq Ids(resp)
      /\ n \in 1..Len(resp) => resp[n] \in R /\ resp[n].id \notin Ids(Rest(h))
  <2>1. PICK s : s = Rest(h)
    OBVIOUS
  <2>2. s = SubSeq(resp, n + 1, Len(resp)) /\ resp \in Seq(R) /\ Len(resp) \in Nat
    BY <1>2, <2>1 DEF Good
  <2>3. /\ s \in Seq(R) /\ Len(s) = IF n + 1 <= Len(resp) THEN Len(resp) - n ELSE 0
        /\ \A i \in 1..Len(s) : n + i \in 1..Len(resp) /\ s[i] = resp[n + i]
    <3>1. CASE n + 1 <= Len(resp)
      BY <2>2, <3>1
    <3>2. CASE ~(n + 1 <= Len(resp))
      <4>1. s = <<>>
        BY <2>2, <3>2
      <4> QED
        BY <3>2, <4>1
    <3> QED
      BY <3>1, <3>2
  <2>4. /\ Good(R, s) /\ Ids(s) \subseteq Ids(resp)
        /\ n \in 1..Len(resp) => resp[n] \in R /\ resp[n].id \notin Ids(s)
    BY <2>3, Behind
  <2> QED
    BY <2>1, <2>4
<1>5. DOMAIN resp = 1..Len(resp) /\ Len(resp) \in Nat
  BY DEF Good
<1>6. CASE n \notin 1..Len(resp)
  <2>1. Found(h) = <<>>
    BY <1>3, <1>5, <1>6
  <2>2. <<>> \o Rest(h) = Rest(h)
    BY <1>4 DEF Good
  <2> QED
    BY <1>4, <2>1, <2>2
<1>7. CASE n \in 1..Len(resp)
  <2>1. Found(h) = <<resp[n]>>
    BY <1>3, <1>5, <1>7
  <2>2. resp[n] \in R /\ resp[n].id \notin Ids(Rest(h))
    BY <1>4, <1>7
  <2>3. Head(<<resp[n]>>) = resp[n] /\ <<resp[n]>> # <<>>
    OBVIOUS
  <2>4. resp[n].id \in Ids(resp) \cup {HTTP}
    BY <1>7, Listed
  <2>5. Good(R, <<resp[n]>>) /\ Ids(<<resp[n]>>) = {resp[n].id} \ {HTTP}
    BY <2>2, Short
  <2>6. Ids(<<resp[n]>>) \cap Ids(Rest(h)) = {}
    BY <2>2, <2>5
  <2>7. Good(R, <<resp[n]>> \o Rest(h)) /\ Ids(<<resp[n]>> \o Rest(h)) = Ids(<<resp[n]>>) \cup Ids(Rest(h))
    BY <1>4, <2>5, <2>6, Joined
  <2> QED
    BY <1>4, <2>1, <2>2, <2>3, <2>4, <2>5, <2>7
<1> QED
  BY <1>6, <1>7

(* The head of the buffer is a header: its fields.                          *)
LEMMA HeadTyped ==
  ASSUME OwnInv, buffer # <<>>, IsHead(Head(buffer))
  PROVE  Head(buffer) \in Heads /\ Head(buffer).cseq \in Nat
<1>1. Head(buffer) \in Messages
  BY DEF OwnInv, Typed
<1>2. Head(buffer) # Body /\ Head(buffer) # Ask
  BY DEF IsHead, Body, Ask
<1> QED
  BY <1>1, <1>2 DEF Messages, Heads

(* The sockets are reset with the response, or stay.                         *)
LEMMA AfterSockets ==
  ASSUME OwnInv, UNCHANGED <<tunnel, tunneling>>, NEW reset, NEW lost, SocketsAfter(reset, lost),
         NEW h, astray' = (astray \/ Astray(h))
  PROVE  Socks'
<1>1. forgot' \in BOOLEAN /\ astray' \in BOOLEAN /\ tunneling' \in BOOLEAN
  BY DEF SocketsAfter, Forget, OwnInv, Socks
<1>2. CASE ResetSockets
  BY <1>1, <1>2, AfterReset DEF OwnInv
<1>3. CASE UNCHANGED socks
  BY <1>1, <1>3 DEF OwnInv, Socks, socks
<1> QED
  BY <1>2, <1>3 DEF SocketsAfter

(* A request that is sent again.                                            *)
LEMMA ResendTop ==
  ASSUME NEW R \in SUBSET Record, NEW fs, Stack(R, fs), NEW r \in R,
         r.id = HTTP \/ r.id \notin Hands(fs)
  PROVE  /\ Stack(R, <<Resend(r)>> \o fs)
         /\ Hands(<<Resend(r)>> \o fs) = ({r.id} \ {HTTP}) \cup Hands(fs)
<1> DEFINE f == Resend(r)
<1>1. f \in Frame(R) /\ Todo(f) = <<r>>
  <2>1. <<r>> \in Seq(R)
    OBVIOUS
  <2> QED
    BY <2>1 DEF Frame, Todo, Resend
<1>2. Once(Todo(f)) /\ Filled(f) /\ Ids(Todo(f)) = {r.id} \ {HTTP}
  BY <1>1, Short DEF Good, Filled
<1>3. Ids(Todo(f)) \cap Hands(fs) = {}
  BY <1>2
<1> HIDE DEF f
<1>4. Stack(R, <<f>> \o fs) /\ Hands(<<f>> \o fs) = Ids(Todo(f)) \cup Hands(fs)
  BY <1>1, <1>2, <1>3, Push
<1> QED
  BY <1>2, <1>4 DEF f

(* Its body has not come: the record goes back to the head of the queue.      *)
LEMMA AwaitBodyKeeps ==
  ASSUME OwnInv, AwaitBody PROVE OwnInv'
<1> DEFINE R == Recs(tunnel)  h == Head(buffer)
<1>1. /\ frames # <<>> /\ buffer # <<>> /\ IsHead(h)
      /\ UNCHANGED <<tunnel, fCSeq, tunneling, conn, tun, buffer, odd, history>>
      /\ resp' = Found(h) \o Rest(h) /\ frames' = Below
      /\ SocketsAfter(Closes(h), <<>>) /\ astray' = (astray \/ Astray(h))
  BY DEF AwaitBody, Top
<1>2. h.cseq \in Nat
  BY <1>1, HeadTyped
<1>3. Typed'
  BY <1>1 DEF OwnInv, Typed, history
<1>4. Socks'
  BY <1>1, AfterSockets
<1>5. Good(R, resp') /\ Ids(resp') \subseteq Ids(resp)
  BY <1>1, <1>2, Base, Taken
<1>6. Owned(R, conn', tun', resp', frames') /\ All(conn', tun', resp', frames') \subseteq All(conn, tun, resp, frames)
  BY <1>1, <1>5, Base, Topmost DEF Owned, All
<1> QED
  BY <1>1, <1>3, <1>4, <1>6, Kept DEF history

(* The frames that a whole response leaves: its record is in one of them.     *)
LEMMA ResponseKeeps ==
  ASSUME OwnInv, Response PROVE OwnInv'
<1> DEFINE R     == Recs(tunnel)
           h     == Head(buffer)
           size  == IF h.body THEN 2 ELSE 1
           extra == SubSeq(buffer, size + 1, Len(buffer))
           found == Found(h)
           again == h.what \in {"again", "moved"} /\ found # <<>>
           next  == ParseRest(h, extra) \o Below
           how   == IF h.what = "bad" THEN "error" ELSE h.what
<1>1. /\ frames # <<>> /\ buffer # <<>> /\ IsHead(h)
      /\ UNCHANGED <<tunnel, fCSeq, tunneling, conn, tun, odd, history>>
      /\ resp' = Rest(h) /\ astray' = (astray \/ Astray(h))
      /\ IF again
         THEN /\ buffer' = <<>>
              /\ SocketsAfter(Closes(h) \/ h.what = "moved" \/ Ids(found) = {}, extra)
              /\ frames' = <<Resend(Head(found))>> \o Below
         ELSE /\ buffer' = extra
              /\ SocketsAfter(Closes(h), IF h.what = "bad" \/ Closes(h) THEN extra ELSE <<>>)
              /\ frames' = IF found = <<>> THEN next ELSE <<Call(Head(found), how)>> \o next
  BY DEF Response, Top
<1>2. h \in Heads /\ h.cseq \in Nat
  BY <1>1, HeadTyped
<1>3. buffer \in Seq(Messages) /\ size \in Nat
  BY DEF OwnInv, Typed
<1>4. extra \in Seq(Messages) /\ Len(extra) \in Nat
  BY <1>3
<1>5. Typed'
  <2>1. <<>> \in Seq(Messages)
    OBVIOUS
  <2>2. buffer' \in Seq(Messages)
    <3> HIDE DEF extra, again
    <3> QED
      BY <1>1, <1>4, <2>1
  <2> QED
    BY <1>1, <2>2 DEF OwnInv, Typed, history
<1>6. Socks'
  <2>1. \E reset, lost : SocketsAfter(reset, lost)
    BY <1>1
  <2> QED
    BY <1>1, <2>1, AfterSockets
<1>7. /\ Good(R, Rest(h)) /\ Ids(Rest(h)) \subseteq Ids(resp)
      /\ \/ found = <<>>
         \/ /\ found # <<>> /\ Head(found) \in R /\ Head(found).id \in Ids(resp) \cup {HTTP}
            /\ Head(found).id \notin Ids(Rest(h))
  BY <1>2, Base, Taken
<1>8. Stack(R, next) /\ Hands(next) = Hands(Below)
  <2>1. ParseRest(h, extra) \in {<<>>, <<Parse(Len(extra))>>}
    BY DEF ParseRest
  <2>2. Stack(R, Below)
    BY <1>1, Topmost
  <2>3. <<>> \o Below = Below
    BY <2>2 DEF Stack
  <2>4. Stack(R, <<Parse(Len(extra))>> \o Below) /\ Hands(<<Parse(Len(extra))>> \o Below) = Hands(Below)
    BY <1>4, <2>2, Base, ParseTop
  <2> HIDE DEF extra
  <2> QED
    BY <2>1, <2>2, <2>3, <2>4
<1>9. /\ Stack(R, frames')
      /\ Hands(frames') \subseteq Hands(Below) \cup (Ids(resp) \ Ids(Rest(h)))
  <2>1. CASE found = <<>>
    <3>1. frames' = next
      BY <1>1, <2>1
    <3> HIDE DEF next
    <3> QED
      BY <1>8, <3>1
  <2>2. CASE found # <<>> /\ again
    <3>1. Head(found).id = HTTP \/ Head(found).id \notin Hands(Below)
      BY <1>1, <1>7, <2>2, Base, Topmost DEF Owned
    <3>2. /\ Stack(R, <<Resend(Head(found))>> \o Below)
          /\ Hands(<<Resend(Head(found))>> \o Below) = ({Head(found).id} \ {HTTP}) \cup Hands(Below)
      BY <1>1, <1>7, <2>2, <3>1, Base, Topmost, ResendTop
    <3> QED
      BY <1>1, <1>7, <2>2, <3>2
  <2>3. CASE found # <<>> /\ ~again
    <3>1. Head(found).id = HTTP \/ Head(found).id \notin Hands(next)
      BY <1>1, <1>7, <1>8, <2>3, Base, Topmost DEF Owned
    <3>2. how \in Hows
      BY <1>2, <2>3 DEF Heads, Hows
    <3>3. /\ Stack(R, <<Call(Head(found), how)>> \o next)
          /\ Hands(<<Call(Head(found), how)>> \o next) = ({Head(found).id} \ {HTTP}) \cup Hands(next)
      BY <1>7, <1>8, <2>3, <3>1, <3>2, Base, CallTop, SMTT(60)
    <3> QED
      BY <1>1, <1>7, <1>8, <2>3, <3>3
  <2> QED
    BY <2>1, <2>2, <2>3
<1>10. Owned(R, conn', tun', resp', frames') /\ All(conn', tun', resp', frames') \subseteq All(conn, tun, resp, frames)
  <2> HIDE DEF again, next, how
  <2> QED
    BY <1>1, <1>7, <1>9, Base, Topmost DEF Owned, All
<1> QED
  BY <1>1, <1>5, <1>6, <1>10, Kept DEF history

-----------------------------------------------------------------------------
(* The steps that make a request and tell one, and the server's.              *)

LEMMA MakeKeeps ==
  ASSUME OwnInv, NEW r \in Requests, Make(r) PROVE OwnInv'
<1> DEFINE R == Recs(tunnel)  rec == [id |-> r, cseq |-> fCSeq + 1]
<1>1. /\ r = Cardinality(sent) + 1 /\ sent' = sent \cup {r} /\ fCSeq' = fCSeq + 1
      /\ SendRequest(rec, tun, frames)
      /\ UNCHANGED <<tunnel, buffer, odd, answered, told>>
  BY DEF Make
<1>2. PICK n \in 0..MaxRequests : sent = 1..n
  BY DEF OwnInv
<1>3. r = n + 1 /\ r \notin sent
  <2>1. Cardinality(1..n) = n
    BY <1>2, FS_Interval
  <2> QED
    BY <1>1, <1>2, <2>1
<1>4. r # HTTP /\ r \in Int /\ MaxRequests \in Nat
  BY ClientAssumption DEF Requests, HTTP
<1>5. rec \in R /\ rec.id = r /\ fCSeq + 1 \in Nat
  BY <1>4 DEF Recs, Record, OwnInv, Typed
<1>6. r \notin All(conn, tun, resp, frames)
  BY <1>3 DEF OwnInv
<1>7. /\ Socks' /\ Owned(R, conn', tun', resp', frames')
      /\ All(conn', tun', resp', frames') \subseteq All(conn, tun, resp, frames) \cup {r}
  <2> HIDE DEF rec
  <2>1. /\ Socks' /\ Owned(R, conn', tun', resp', frames')
        /\ All(conn', tun', resp', frames') \subseteq All(conn, tun, resp, frames) \cup ({rec.id} \ {HTTP})
    BY <1>1, <1>5, <1>6, Base, Sends DEF OwnInv
  <2> QED
    BY <1>5, <2>1
<1>8. Typed'
  BY <1>1, <1>5 DEF OwnInv, Typed
<1>9. sent' = 1..(n + 1) /\ n + 1 \in 0..MaxRequests
  BY <1>1, <1>2, <1>3, <1>4 DEF Requests
<1>10. Told' = Told /\ Told \subseteq sent /\ r \notin Told
  BY <1>1, <1>3 DEF Told, OwnInv
<1>11. All(conn', tun', resp', frames') \subseteq sent' \ Told'
  BY <1>1, <1>7, <1>10 DEF OwnInv
<1>12. Told' \subseteq sent' /\ \A q \in Requests : Len(told'[q]) <= 1
  BY <1>1, <1>10 DEF OwnInv
<1>13. Recs(tunnel') = R
  BY <1>1
<1> QED
  BY <1>7, <1>8, <1>9, <1>11, <1>12, <1>13 DEF OwnInv

LEMMA CallHandlerKeeps ==
  ASSUME OwnInv, CallHandler PROVE OwnInv'
<1> DEFINE R == Recs(tunnel)  f == Head(frames)  r == Head(f.todo).id
<1>1. /\ frames # <<>> /\ f.k = "call" /\ r # HTTP
      /\ told' = [told EXCEPT ![r] = Append(@, f.how)] /\ frames' = <<Handler>> \o Below
      /\ UNCHANGED <<tunnel, fCSeq, socks, tunneling, queues, buffer, odd, sent, answered, flaws>>
  BY DEF CallHandler, Top
<1>2. Todo(f) = f.todo /\ f.todo # <<>> /\ f.how \in Hows
  BY <1>1, Topmost, Base, Lists1 DEF Filled
<1>3. Head(f.todo) \in R /\ r \in Ids(f.todo)
  <2>1. Good(R, f.todo)
    BY <1>1, <1>2, Topmost
  <2>2. /\ Head(f.todo) \in R
        /\ Ids(f.todo) = Ids(Tail(f.todo)) \cup ({Head(f.todo).id} \ {HTTP})
    BY <1>2, <2>1, Base, Dequeued
  <2> QED
    BY <1>1, <2>2
<1>4. r \in Requests
  BY <1>1, <1>3 DEF Recs, Record
<1>5. r \in sent \ Told /\ r \notin All(conn, tun, resp, Below)
  BY <1>1, <1>2, <1>3, Topmost DEF OwnInv
<1>6. told[r] = <<>>
  BY <1>4, <1>5 DEF Told
<1> HIDE DEF r, f
<1>7. /\ told' \in [Requests -> Seq(Hows)]
      /\ Len(told'[r]) = 1 /\ told'[r] # <<>>
      /\ \A q \in Requests \ {r} : told'[q] = told[q]
  <2>1. told \in [Requests -> Seq(Hows)]
    BY DEF OwnInv, Typed
  <2>2. told' = [told EXCEPT ![r] = Append(<<>>, f.how)]
    BY <1>1, <1>6
  <2>3. Append(<<>>, f.how) \in Seq(Hows) /\ Len(Append(<<>>, f.how)) = 1 /\ Append(<<>>, f.how) # <<>>
    BY <1>2
  <2> QED
    BY <1>4, <2>1, <2>2, <2>3
<1>8. Typed' /\ Socks'
  BY <1>1, <1>7 DEF OwnInv, Typed, Socks, socks, flaws
<1>9. Handler \in Frame(R) /\ Todo(Handler) = <<>> /\ Handler.k = "handler"
  BY DEF Handler, Frame, Todo
<1>10. Stack(R, frames') /\ Hands(frames') = Hands(Below)
  <2>1. Once(Todo(Handler)) /\ Filled(Handler) /\ Ids(Todo(Handler)) = {}
    BY <1>9, Base DEF Good, Filled
  <2>2. Stack(R, <<Handler>> \o Below) /\ Hands(<<Handler>> \o Below) = Ids(Todo(Handler)) \cup Hands(Below)
    BY <1>1, <1>9, <2>1, Base, Topmost, Push
  <2> QED
    BY <1>1, <2>1, <2>2
<1>11. Owned(R, conn', tun', resp', frames') /\ All(conn', tun', resp', frames') = All(conn, tun, resp, Below)
  BY <1>1, <1>10, Base, Topmost DEF Owned, All, queues
<1>12. Told' = Told \cup {r}
  BY <1>4, <1>7 DEF Told
<1>13. All(conn', tun', resp', frames') \subseteq sent' \ Told' /\ Told' \subseteq sent'
  <2>1. All(conn, tun, resp, Below) \subseteq sent \ Told
    BY <1>1, Topmost DEF OwnInv
  <2> QED
    BY <1>1, <1>5, <1>11, <1>12, <2>1 DEF OwnInv
<1>14. \A q \in Requests : Len(told'[q]) <= 1
  <2> TAKE q \in Requests
  <2>1. CASE q = r
    <3>1. told'[q] = told'[r]
      BY <2>1
    <3>2. Len(told'[q]) = 1
      BY <1>7, <3>1
    <3> QED
      BY <3>2
  <2>2. CASE q # r
    BY <1>7, <2>2 DEF OwnInv
  <2> QED
    BY <2>1, <2>2
<1>15. Recs(tunnel') = R /\ sent' = sent
  BY <1>1
<1> QED
  BY <1>8, <1>11, <1>13, <1>14, <1>15 DEF OwnInv

(* What the server puts on the wire are messages.                            *)
LEMMA PutTyped ==
  ASSUME wire \in Seq(Messages), NEW kind \in {"ok", "fail", "again", "moved", "bad"},
         NEW r \in Record, NEW close \in BOOLEAN, NEW body \in BOOLEAN, Put(Head1(kind, r, close, body))
  PROVE  wire' \in Seq(Messages)
<1> DEFINE h == Head1(kind, r, close, body)
<1>1. h \in Heads
  BY DEF Head1, Heads, Record
<1>2. <<h, Body>> \in Seq(Messages) /\ <<h>> \in Seq(Messages)
  BY <1>1 DEF Messages
<1> HIDE DEF h
<1>3. wire' = wire \o <<h, Body>> \/ wire' = wire \o <<h>>
  BY DEF Put, h
<1>4. wire \o <<h, Body>> \in Seq(Messages) /\ wire \o <<h>> \in Seq(Messages)
  BY <1>2
<1> QED
  BY <1>3, <1>4

LEMMA ServerKeeps ==
  ASSUME OwnInv, Server PROVE OwnInv'
<1> DEFINE R == Recs(tunnel)
<1>1. /\ asked \in Seq(R) /\ wire \in Seq(Messages) /\ odd \in 0..MaxOdd /\ MaxOdd \in Nat
      /\ answered \in [Requests -> {"none", "ok", "fail", "skip"}] /\ closed \in BOOLEAN
  BY ClientAssumption DEF OwnInv, Typed, Socks
<1>2. UNCHANGED <<tunnel, fCSeq, in, out, connecting, tunneling, queues, buffer, frames, sent, told, flaws>>
  BY DEF Server, Reply, Skip, AskClient, Close, history
<1>3. ASSUME NEW o, Does(o) PROVE odd' \in 0..MaxOdd
  BY <1>1, <1>3 DEF Does
<1>4. /\ asked' \in Seq(R) /\ wire' \in Seq(Messages) /\ odd' \in 0..MaxOdd
      /\ answered' \in [Requests -> {"none", "ok", "fail", "skip"}] /\ closed' \in BOOLEAN
  <2>1. CASE Reply
    <3>1. asked # <<>> /\ asked' = Tail(asked) /\ closed' = closed
      BY <2>1 DEF Reply
    <3> DEFINE r == Head(asked)
    <3>2. r \in R /\ r \in Record /\ Tail(asked) \in Seq(R)
      BY <1>1, <3>1 DEF Recs
    <3>3. PICK body \in BOOLEAN, close \in BOOLEAN :
            /\ close => Does("close")
            /\ \/ \E kind \in {"ok", "fail"} :
                    /\ Put(Head1(kind, r, close, body))
                    /\ ~close => odd' = odd
                    /\ answered' = IF r.id = HTTP THEN answered ELSE [answered EXCEPT ![r.id] = kind]
               \/ \E kind \in {"again", "moved", "bad"} :
                    /\ kind = "bad" => r.id # HTTP
                    /\ ~close /\ Does(kind)
                    /\ Put(Head1(kind, r, close, body))
                    /\ answered' = answered
      BY <2>1 DEF Reply
    <3> HIDE DEF r
    <3>4. CASE \E kind \in {"ok", "fail"} :
                 /\ Put(Head1(kind, r, close, body))
                 /\ ~close => odd' = odd
                 /\ answered' = IF r.id = HTTP THEN answered ELSE [answered EXCEPT ![r.id] = kind]
      <4>1. PICK kind \in {"ok", "fail"} :
                 /\ Put(Head1(kind, r, close, body))
                 /\ ~close => odd' = odd
                 /\ answered' = IF r.id = HTTP THEN answered ELSE [answered EXCEPT ![r.id] = kind]
        BY <3>4
      <4>2. wire' \in Seq(Messages)
        BY <1>1, <3>2, <3>3, <4>1, PutTyped
      <4>3. odd' \in 0..MaxOdd
        BY <1>1, <1>3, <3>3, <4>1
      <4>4. answered' \in [Requests -> {"none", "ok", "fail", "skip"}]
        BY <1>1, <4>1
      <4> QED
        BY <1>1, <3>1, <3>2, <4>2, <4>3, <4>4
    <3>5. CASE \E kind \in {"again", "moved", "bad"} :
                 /\ kind = "bad" => r.id # HTTP
                 /\ ~close /\ Does(kind)
                 /\ Put(Head1(kind, r, close, body))
                 /\ answered' = answered
      <4>1. PICK kind \in {"again", "moved", "bad"} :
                 /\ Does(kind) /\ Put(Head1(kind, r, close, body)) /\ answered' = answered
        BY <3>5
      <4>2. wire' \in Seq(Messages)
        BY <1>1, <3>2, <3>3, <4>1, PutTyped
      <4> QED
        BY <1>1, <1>3, <3>1, <3>2, <4>1, <4>2
    <3> QED
      BY <3>3, <3>4, <3>5
  <2>2. CASE Skip
    <3>1. asked # <<>> /\ asked' = Tail(asked) /\ Does("skip") /\ wire' = wire /\ closed' = closed
          /\ answered' = [answered EXCEPT ![Head(asked).id] = "skip"]
      BY <2>2 DEF Skip
    <3>2. Tail(asked) \in Seq(R)
      BY <1>1, <3>1
    <3> QED
      BY <1>1, <1>3, <3>1, <3>2
  <2>3. CASE AskClient
    <3>1. Ask \in Messages
      BY DEF Messages
    <3>2. wire' = Append(wire, Ask) /\ Does("ask") /\ UNCHANGED <<asked, closed, answered>>
      BY <2>3 DEF AskClient, history
    <3> QED
      BY <1>1, <1>3, <3>1, <3>2
  <2>4. CASE Close
    BY <1>1, <2>4 DEF Close, history
  <2> QED
    BY <2>1, <2>2, <2>3, <2>4 DEF Server
<1>5. Typed' /\ Socks'
  BY <1>2, <1>4 DEF OwnInv, Typed, Socks, flaws
<1> QED
  BY <1>2, <1>5, Quiet

-----------------------------------------------------------------------------
LEMMA OwnInit ==
  Init => OwnInv
<1> SUFFICES ASSUME Init PROVE OwnInv
  OBVIOUS
<1> DEFINE R == Recs(tunnel)
<1>1. <<>> \in Seq(R) /\ <<>> \in Seq(Messages) /\ <<>> \in Seq(Hows) /\ <<>> \in Seq(Frame(R))
  OBVIOUS
<1>2. Len(<<>>) = 0 /\ Ids(<<>>) = {} /\ Hands(<<>>) = {}
  BY DEF Ids, Hands
<1>3. Good(R, <<>>) /\ Stack(R, <<>>)
  BY <1>1, <1>2 DEF Good, Once, Stack, Apart
<1>4. tunnel \in BOOLEAN /\ MaxOdd \in Nat /\ MaxRequests \in Nat
  BY ClientAssumption DEF Init
<1>5. Typed
  BY <1>1, <1>4 DEF Init, Typed
<1>6. Socks
  <2>1. asked \in Seq(R) /\ wire \in Seq(Messages)
    BY <1>1 DEF Init
  <2>2. in = 0 /\ out = 0 /\ connecting = 0
    BY DEF Init
  <2>3. tunneling \in BOOLEAN /\ closed \in BOOLEAN /\ forgot \in BOOLEAN /\ astray \in BOOLEAN
    BY DEF Init
  <2> QED
    BY <2>1, <2>2, <2>3 DEF Socks
<1>7. Owned(R, conn, tun, resp, frames) /\ All(conn, tun, resp, frames) = {}
  BY <1>2, <1>3 DEF Init, Owned, All
<1>8. Told = {} /\ \A r \in Requests : Len(told[r]) <= 1
  BY <1>2 DEF Init, Told
<1>9. sent = 1..0
  BY DEF Init
<1> QED
  BY <1>4, <1>5, <1>6, <1>7, <1>8, <1>9 DEF OwnInv

LEMMA OwnNext ==
  OwnInv /\ [Next]_vars => OwnInv'
<1> SUFFICES ASSUME OwnInv, [Next]_vars PROVE OwnInv'
  OBVIOUS
<1>1. CASE Client
  BY <1>1, ResumeNextKeeps, DrainNextKeeps, TellNextKeeps, ResendCommandKeeps, CallHandlerKeeps,
     HandleGETKeeps, ReturnKeeps, AwaitBodyKeeps, ResponseKeeps DEF Client
<1>2. CASE Events
  BY <1>2, ConnectedKeeps, ReadErrorKeeps, RecvKeeps DEF Events
<1>3. CASE Program
  BY <1>3, MakeKeeps, ReturnKeeps DEF Program
<1>4. CASE Server
  BY <1>4, ServerKeeps
<1>5. CASE UNCHANGED vars
  <2>1. Typed' /\ Socks'
    BY <1>5 DEF OwnInv, Typed, Socks, vars, socks, history, flaws
  <2> QED
    BY <1>5, <2>1, Quiet DEF vars, history
<1> QED
  BY <1>1, <1>2, <1>3, <1>4, <1>5 DEF Next

(* The invariant that OwnedOnce follows from.                                *)
THEOREM OwnershipKept == Spec => []OwnInv
BY OwnInit, OwnNext, PTL DEF Spec

(* The lists have the types of TypeOK.                                       *)
LEMMA OwnTypes ==
  ASSUME OwnInv PROVE TypeOK
<1> DEFINE R == Recs(tunnel)
<1>1. ASSUME NEW q \in Seq(R) PROVE Records(q) \subseteq Record
  <2>1. \A i \in 1..Len(q) : q[i] \in R
    OBVIOUS
  <2> QED
    BY <2>1, Base DEF Records
<1>2. \A q \in {conn, tun, resp, asked} : Records(q) \subseteq Record
  <2>1. conn \in Seq(R) /\ tun \in Seq(R) /\ resp \in Seq(R) /\ asked \in Seq(R)
    BY Base DEF Good, OwnInv, Socks
  <2> HIDE DEF R
  <2> QED
    BY <1>1, <2>1
<1>3. InFrames \subseteq Record
  <2>1. \A i \in 1..Len(frames) : frames[i] \in Frame(R)
    <3>1. frames \in Seq(Frame(R))
      BY Base DEF Stack
    <3> QED
      BY <3>1
  <2>2. \A i \in 1..Len(frames) : Todo(frames[i]) \in Seq(R)
    BY <2>1, Base, Lists1
  <2>3. \A i \in 1..Len(frames) : Records(Todo(frames[i])) \subseteq Record
    BY <1>1, <2>2
  <2> QED
    BY <2>3 DEF InFrames
<1> QED
  BY <1>2, <1>3 DEF TypeOK, OwnInv, Typed, Socks

(* A request's record is in one place, or in none when its handler was called. *)
LEMMA OnePlace ==
  ASSUME OwnInv, NEW r \in Requests
  PROVE  Cardinality(Places(r)) + Len(told[r]) <= 1
<1> DEFINE n == Len(frames)
<1>1. /\ n \in Nat /\ Len(Lists) = n + 3
      /\ Lists[1] = conn /\ Lists[2] = tun /\ Lists[3] = resp
      /\ \A i \in 1..n : Lists[i + 3] = Todo(frames[i])
  <2>1. frames \in Seq(Frame(Recs(tunnel)))
    BY Base DEF Stack
  <2> DEFINE t == [i \in 1..Len(frames) |-> Todo(frames[i])]
             S == {conn, tun, resp} \cup {Todo(frames[i]) : i \in 1..Len(frames)}
  <2>2. t \in Seq(S) /\ Len(t) = n /\ n \in Nat /\ \A i \in 1..n : t[i] = Todo(frames[i])
    BY <2>1
  <2>3. <<conn, tun, resp>> \in Seq(S) /\ Len(<<conn, tun, resp>>) = 3
    OBVIOUS
  <2>4. Lists = <<conn, tun, resp>> \o t
    BY DEF Lists
  <2> HIDE DEF t, S, n
  <2> QED
    BY <2>2, <2>3, <2>4
<1>2. r # HTTP
  BY ClientAssumption DEF Requests, HTTP
<1> HIDE DEF n
<1>3. ASSUME NEW i \in 1..(n + 3) PROVE Once(Lists[i])
  <2>1. CASE i > 3
    <3>1. i - 3 \in 1..n /\ (i - 3) + 3 = i
      BY <1>1, <2>1
    <3> QED
      BY <1>1, <3>1, Base DEF Stack, n
  <2> QED
    BY <1>1, <2>1, Base DEF Good
<1>4. ASSUME NEW i \in 1..(n + 3), NEW j \in 1..(n + 3), i < j PROVE Ids(Lists[i]) \cap Ids(Lists[j]) = {}
  <2>1. ASSUME NEW k \in 1..n
        PROVE  /\ Ids(Todo(frames[k])) \subseteq Hands(frames)
               /\ Ids(conn) \cap Ids(Todo(frames[k])) = {} /\ Ids(tun) \cap Ids(Todo(frames[k])) = {}
               /\ Ids(resp) \cap Ids(Todo(frames[k])) = {}
    <3>1. Ids(Todo(frames[k])) \subseteq Hands(frames)
      BY DEF Hands, n
    <3> QED
      BY <3>1, Base DEF Owned
  <2>2. CASE i > 3
    <3>1. i - 3 \in 1..n /\ j - 3 \in 1..n /\ i - 3 # j - 3 /\ (i - 3) + 3 = i /\ (j - 3) + 3 = j
      BY <1>1, <1>4, <2>2
    <3>2. Lists[i] = Todo(frames[i - 3]) /\ Lists[j] = Todo(frames[j - 3])
      BY <1>1, <3>1
    <3> QED
      BY <3>1, <3>2, Base DEF Stack, Apart, n
  <2>3. CASE i <= 3 /\ j > 3
    <3>1. j - 3 \in 1..n /\ (j - 3) + 3 = j
      BY <1>1, <2>3
    <3>2. Lists[j] = Todo(frames[j - 3]) /\ Lists[i] \in {conn, tun, resp}
      BY <1>1, <2>3, <3>1
    <3> QED
      BY <2>1, <3>1, <3>2
  <2>4. CASE j <= 3
    BY <1>1, <1>4, <2>4, Base DEF Owned
  <2> QED
    BY <1>1, <2>2, <2>3, <2>4
<1>5. \A p \in Places(r) :
         \E i \in 1..(n + 3) : \E j \in 1..Len(Lists[i]) : p = <<i, j>> /\ Lists[i][j].id = r
  BY <1>1 DEF Places
<1>6. ASSUME NEW p \in Places(r), NEW s \in Places(r) PROVE p = s
  <2>10. PICK i \in 1..(n + 3) : \E j \in 1..Len(Lists[i]) : p = <<i, j>> /\ Lists[i][j].id = r
    BY <1>5
  <2>1. PICK j \in 1..Len(Lists[i]) : p = <<i, j>> /\ Lists[i][j].id = r
    BY <2>10
  <2>20. PICK k \in 1..(n + 3) : \E l \in 1..Len(Lists[k]) : s = <<k, l>> /\ Lists[k][l].id = r
    BY <1>5
  <2>2. PICK l \in 1..Len(Lists[k]) : s = <<k, l>> /\ Lists[k][l].id = r
    BY <2>20
  <2>3. r \in Ids(Lists[i]) /\ r \in Ids(Lists[k])
    BY <1>2, <2>1, <2>2 DEF Ids
  <2>4. i = k
    BY <1>1, <1>4, <2>3
  <2>5. j = l
    BY <1>2, <1>3, <2>1, <2>2, <2>4 DEF Once
  <2> QED
    BY <2>1, <2>2, <2>4, <2>5
<1>7. told[r] # <<>> => Places(r) = {}
  <2> SUFFICES ASSUME told[r] # <<>>, NEW p \in Places(r) PROVE FALSE
    OBVIOUS
  <2>10. PICK i \in 1..(n + 3) : \E j \in 1..Len(Lists[i]) : p = <<i, j>> /\ Lists[i][j].id = r
    BY <1>5
  <2>1. PICK j \in 1..Len(Lists[i]) : p = <<i, j>> /\ Lists[i][j].id = r
    BY <2>10
  <2>2. r \in Ids(Lists[i])
    BY <1>2, <2>1 DEF Ids
  <2>3. Ids(Lists[i]) \subseteq All(conn, tun, resp, frames)
    <3>1. CASE i > 3
      <4>1. i - 3 \in 1..n /\ (i - 3) + 3 = i
        BY <1>1, <3>1
      <4>2. Lists[i] = Todo(frames[i - 3])
        BY <1>1, <4>1
      <4> QED
        BY <4>1, <4>2 DEF All, Hands, n
    <3> QED
      BY <1>1, <3>1 DEF All
  <2>4. r \in Told
    BY DEF Told
  <2> QED
    BY <2>2, <2>3, <2>4 DEF OwnInv
<1>8. told[r] \in Seq(Hows) /\ Len(told[r]) <= 1
  BY DEF OwnInv, Typed
<1>9. CASE Places(r) = {}
  <2>1. Cardinality(Places(r)) = 0
    BY <1>9, FS_EmptySet
  <2> QED
    BY <1>8, <2>1
<1>10. CASE Places(r) # {}
  <2>1. PICK p \in Places(r) : Places(r) = {p}
    BY <1>6, <1>10
  <2>2. Cardinality(Places(r)) = 1
    BY <2>1, FS_Singleton
  <2>3. Len(told[r]) = 0
    BY <1>7, <1>8, <1>10
  <2> QED
    BY <2>2, <2>3
<1> QED
  BY <1>9, <1>10

(* The record of a request has one owner, in every state of the client: it is *)
(* in one queue, or in the hands of one function under way, and in none once  *)
(* its handler has been called, however often the server refuses, redirects,   *)
(* leaves out or closes, and whatever the handlers do.                       *)
THEOREM Owners == Spec => []OwnedOnce
<1>1. OwnInv => OwnedOnce
  BY OwnTypes, OnePlace DEF OwnedOnce
<1> QED
  BY <1>1, OwnershipKept, PTL

-----------------------------------------------------------------------------
(* The client without a tunnel, as long as no response goes astray.  Line is  *)
(* all that the server owes or has sent, in order: what is due in it has its  *)
(* record in the queue, and in the same order, so that a response finds its   *)
(* own record and those it gives up are of requests that were left out.      *)
Join(b, w, a) == (b \o w) \o a
Line == Join(buffer, wire, asked)
Due(x) == x \notin {Body, Ask}
InOrder(l, p) ==
  \A i, j \in 1..Len(l) : \A a, b \in 1..Len(p) :
    i < j /\ Due(l[i]) /\ Due(l[j]) /\ p[a].cseq = l[i].cseq /\ p[b].cseq = l[j].cseq => a < b
Present(l, p) ==
  \A i \in 1..Len(l) :
    Due(l[i]) => \E a \in 1..Len(p) : p[a].cseq = l[i].cseq /\ p[a].id = l[i].id

(* A request has one number, and a number one request.                       *)
RecordsIn(fs) == UNION {Records(Todo(fs[i])) : i \in 1..Len(fs)}
Held == Records(conn) \cup Records(resp) \cup RecordsIn(frames)
Numbers(S, n) ==
  /\ S \subseteq Record
  /\ \A x \in S : 0 < x.cseq /\ x.cseq <= n
  /\ \A x, y \in S : x.cseq = y.cseq => x.id = y.id

(* The server's answer (ans) is what its message says, and there is none as   *)
(* long as the request has not been sent, or is to be sent again.            *)
Says(x) == IF x \in Heads /\ x.what \in {"ok", "fail"} THEN x.what ELSE "none"
Matching(l, ans) == \A i \in 1..Len(l) : Due(l[i]) => ans[l[i].id] = Says(l[i])
Unanswered(S, ans) == \A x \in S : ans[x.id] = "none"
Sending(fs) ==
  UNION {Records(Todo(fs[i])) : i \in {j \in 1..Len(fs) : fs[j].k \in {"resume", "resend"}}}
Calls(fs, ans) ==
  \A i \in 1..Len(fs) :
    fs[i].k = "call" /\ fs[i].how # "error" => ans[Head(fs[i].todo).id] = fs[i].how

(* S are the records with which nothing may be confused: all that are held.   *)
Seen(fs, S, ans) ==
  RecordsIn(fs) \subseteq S /\ Unanswered(Sending(fs), ans) /\ Calls(fs, ans)
MatchedIn(n, S, l, c, p, fs, ans) ==
  /\ Numbers(S, n) /\ Records(c) \subseteq S /\ Records(p) \subseteq S
  /\ InOrder(l, p) /\ Present(l, p) /\ Matching(l, ans)
  /\ Unanswered(Records(c), ans) /\ Seen(fs, S, ans)
Matched == MatchedIn(fCSeq, Held, Line, conn, resp, frames, answered)

Plain ==
  /\ tunnel = FALSE /\ tun = <<>>
  /\ ~astray => Matched /\ \A r \in Requests \ sent : answered[r] = "none"
PlainInv == OwnInv /\ Plain

(* The records of lists and frames.                                         *)
LEMMA RecordsOf ==
  ASSUME NEW R \in SUBSET Record, NEW q \in Seq(R), NEW r \in R
  PROVE  /\ Records(<<>>) = {} /\ Records(<<r>>) = {r}
         /\ Records(Append(q, r)) = Records(q) \cup {r}
         /\ q # <<>> => Records(Tail(q)) \subseteq Records(q) /\ Head(q) \in Records(q)
<1>1. Records(<<>>) = {}
  BY DEF Records
<1>2. Records(<<r>>) = {r}
  <2>1. Len(<<r>>) = 1 /\ <<r>>[1] = r
    OBVIOUS
  <2> QED
    BY <2>1 DEF Records
<1>3. Records(Append(q, r)) = Records(q) \cup {r}
  <2> DEFINE s == Append(q, r)
  <2>1. /\ Len(q) \in Nat /\ Len(s) = Len(q) + 1
        /\ s[Len(q) + 1] = r /\ \A i \in 1..Len(q) : s[i] = q[i]
    OBVIOUS
  <2> HIDE DEF s
  <2>2. 1..Len(s) = 1..Len(q) \cup {Len(q) + 1}
    BY <2>1
  <2>3. ASSUME NEW x PROVE x \in Records(s) <=> x \in Records(q) \/ x = r
    BY <2>1, <2>2 DEF Records
  <2>4. Records(s) = Records(q) \cup {r}
    BY <2>3
  <2> QED
    BY <2>4 DEF s
<1>4. ASSUME q # <<>> PROVE Records(Tail(q)) \subseteq Records(q) /\ Head(q) \in Records(q)
  <2> DEFINE s == Tail(q)
  <2>1. /\ Len(q) \in Nat /\ Len(q) >= 1 /\ Len(s) = Len(q) - 1 /\ Head(q) = q[1]
        /\ \A i \in 1..Len(s) : s[i] = q[i + 1]
    BY <1>4
  <2> HIDE DEF s
  <2>2. ASSUME NEW i \in 1..Len(s) PROVE i + 1 \in 1..Len(q) /\ s[i] = q[i + 1]
    BY <2>1
  <2>3. Records(s) \subseteq Records(q)
    BY <2>2 DEF Records
  <2>4. Head(q) \in Records(q)
    BY <2>1 DEF Records
  <2> QED
    BY <2>3, <2>4 DEF s
<1> QED
  BY <1>1, <1>2, <1>3, <1>4

(* What is behind the n-th record of a queue.                                *)
LEMMA RecordsBehind ==
  ASSUME NEW R \in SUBSET Record, NEW q \in Seq(R), NEW n \in Nat, NEW s \in Seq(R),
         \A i \in 1..Len(s) : n + i \in 1..Len(q) /\ s[i] = q[n + i]
  PROVE  Records(s) \subseteq Records(q)
BY DEF Records

(* What a frame on top adds.                                                *)
LEMMA PushSees ==
  ASSUME NEW F, NEW fs \in Seq(F), NEW f \in F
  PROVE  /\ RecordsIn(<<f>> \o fs) = Records(Todo(f)) \cup RecordsIn(fs)
         /\ f.k \in {"resume", "resend"} => Sending(<<f>> \o fs) = Records(Todo(f)) \cup Sending(fs)
         /\ f.k \notin {"resume", "resend"} => Sending(<<f>> \o fs) = Sending(fs)
         /\ \A ans : /\ Calls(fs, ans)
                     /\ f.k = "call" /\ f.how # "error" => ans[Head(f.todo).id] = f.how
                     => Calls(<<f>> \o fs, ans)
<1> DEFINE s == <<f>> \o fs
<1>1. /\ Len(fs) \in Nat /\ Len(s) = Len(fs) + 1 /\ s[1] = f
      /\ \A i \in 1..Len(s) : i # 1 => i - 1 \in 1..Len(fs) /\ s[i] = fs[i - 1]
      /\ \A i \in 1..Len(fs) : i + 1 \in 1..Len(s) /\ s[i + 1] = fs[i]
      /\ 1 \in 1..Len(s)
  <2>1. /\ Len(fs) \in Nat /\ Len(s) = Len(fs) + 1 /\ s[1] = f
        /\ \A i \in 1..Len(s) : i # 1 => i - 1 \in 1..Len(fs) /\ s[i] = fs[i - 1]
    OBVIOUS
  <2> HIDE DEF s
  <2>2. ASSUME NEW i \in 1..Len(fs) PROVE i + 1 \in 1..Len(s) /\ s[i + 1] = fs[i]
    <3>1. i + 1 \in 1..Len(s) /\ i + 1 # 1 /\ (i + 1) - 1 = i
      BY <2>1
    <3> QED
      BY <2>1, <3>1
  <2> QED
    BY <2>1, <2>2
<1> HIDE DEF s
<1>2. ASSUME NEW x PROVE x \in RecordsIn(s) <=> x \in Records(Todo(f)) \/ x \in RecordsIn(fs)
  <2>1. x \in RecordsIn(s) <=> \E i \in 1..Len(s) : x \in Records(Todo(s[i]))
    BY DEF RecordsIn
  <2>2. x \in RecordsIn(fs) <=> \E i \in 1..Len(fs) : x \in Records(Todo(fs[i]))
    BY DEF RecordsIn
  <2> QED
    BY <1>1, <2>1, <2>2
<1>3. ASSUME NEW x
      PROVE  x \in Sending(s) <=> (x \in Records(Todo(f)) /\ f.k \in {"resume", "resend"}) \/ x \in Sending(fs)
  <2>1. x \in Sending(s)
          <=> \E i \in 1..Len(s) : s[i].k \in {"resume", "resend"} /\ x \in Records(Todo(s[i]))
    BY DEF Sending
  <2>2. x \in Sending(fs)
          <=> \E i \in 1..Len(fs) : fs[i].k \in {"resume", "resend"} /\ x \in Records(Todo(fs[i]))
    BY DEF Sending
  <2> QED
    BY <1>1, <2>1, <2>2
<1>4. ASSUME NEW ans, Calls(fs, ans), f.k = "call" /\ f.how # "error" => ans[Head(f.todo).id] = f.how
      PROVE  Calls(s, ans)
  BY <1>1, <1>4 DEF Calls
<1>5. RecordsIn(s) = Records(Todo(f)) \cup RecordsIn(fs)
  BY <1>2
<1>6. f.k \in {"resume", "resend"} => Sending(s) = Records(Todo(f)) \cup Sending(fs)
  BY <1>3
<1>7. f.k \notin {"resume", "resend"} => Sending(s) = Sending(fs)
  BY <1>3
<1> QED
  BY <1>4, <1>5, <1>6, <1>7 DEF s

(* What the top frame is, and what remains below it.                         *)
LEMMA PopSees ==
  ASSUME NEW F, NEW fs \in Seq(F), fs # <<>>
  PROVE  /\ RecordsIn(fs) = Records(Todo(Head(fs))) \cup RecordsIn(Tail(fs))
         /\ Sending(Tail(fs)) \subseteq Sending(fs)
         /\ Head(fs).k \in {"resume", "resend"} => Records(Todo(Head(fs))) \subseteq Sending(fs)
         /\ \A ans : Calls(fs, ans) =>
              /\ Calls(Tail(fs), ans)
              /\ Head(fs).k = "call" /\ Head(fs).how # "error"
                   => ans[Head(Head(fs).todo).id] = Head(fs).how
<1> DEFINE s == Tail(fs)  f == Head(fs)
<1>1. /\ Len(fs) \in Nat /\ Len(fs) >= 1 /\ f = fs[1] /\ 1 \in 1..Len(fs)
      /\ Len(s) = Len(fs) - 1
      /\ \A i \in 1..Len(s) : i + 1 \in 1..Len(fs) /\ s[i] = fs[i + 1]
  OBVIOUS
<1> HIDE DEF s, f
<1>2. ASSUME NEW i \in 1..Len(fs), i # 1 PROVE i - 1 \in 1..Len(s) /\ s[i - 1] = fs[i]
  <2>1. i - 1 \in 1..Len(s) /\ (i - 1) + 1 = i
    BY <1>1, <1>2
  <2> QED
    BY <1>1, <2>1
<1>3. ASSUME NEW x PROVE x \in RecordsIn(fs) <=> x \in Records(Todo(f)) \/ x \in RecordsIn(s)
  <2>1. x \in RecordsIn(s) <=> \E i \in 1..Len(s) : x \in Records(Todo(s[i]))
    BY DEF RecordsIn
  <2>2. x \in RecordsIn(fs) <=> \E i \in 1..Len(fs) : x \in Records(Todo(fs[i]))
    BY DEF RecordsIn
  <2> QED
    BY <1>1, <1>2, <2>1, <2>2
<1>4. ASSUME NEW x
      PROVE  /\ x \in Sending(s) => x \in Sending(fs)
             /\ f.k \in {"resume", "resend"} /\ x \in Records(Todo(f)) => x \in Sending(fs)
  <2>1. x \in Sending(s)
          <=> \E i \in 1..Len(s) : s[i].k \in {"resume", "resend"} /\ x \in Records(Todo(s[i]))
    BY DEF Sending
  <2>2. x \in Sending(fs)
          <=> \E i \in 1..Len(fs) : fs[i].k \in {"resume", "resend"} /\ x \in Records(Todo(fs[i]))
    BY DEF Sending
  <2> QED
    BY <1>1, <2>1, <2>2
<1>5. ASSUME NEW ans, Calls(fs, ans)
      PROVE  /\ Calls(s, ans)
             /\ f.k = "call" /\ f.how # "error" => ans[Head(f.todo).id] = f.how
  BY <1>1, <1>5 DEF Calls
<1>6. RecordsIn(fs) = Records(Todo(f)) \cup RecordsIn(s)
  BY <1>3
<1> QED
  BY <1>4, <1>5, <1>6 DEF s, f

(* A frame is put on the stack, or taken off.                                *)
LEMMA SeenPush ==
  ASSUME NEW R \in SUBSET Record, NEW fs \in Seq(Frame(R)), NEW f \in Frame(R), NEW S, NEW ans,
         Seen(fs, S, ans), Records(Todo(f)) \subseteq S,
         f.k \in {"resume", "resend"} => Unanswered(Records(Todo(f)), ans),
         f.k = "call" /\ f.how # "error" => ans[Head(f.todo).id] = f.how
  PROVE  Seen(<<f>> \o fs, S, ans) /\ <<f>> \o fs \in Seq(Frame(R))
<1>1. /\ RecordsIn(<<f>> \o fs) = Records(Todo(f)) \cup RecordsIn(fs)
      /\ f.k \in {"resume", "resend"} => Sending(<<f>> \o fs) = Records(Todo(f)) \cup Sending(fs)
      /\ f.k \notin {"resume", "resend"} => Sending(<<f>> \o fs) = Sending(fs)
  BY PushSees
<1>2. Calls(<<f>> \o fs, ans)
  BY PushSees DEF Seen
<1>3. Unanswered(Sending(<<f>> \o fs), ans)
  BY <1>1 DEF Seen, Unanswered
<1>4. <<f>> \o fs \in Seq(Frame(R))
  OBVIOUS
<1> QED
  BY <1>1, <1>2, <1>3, <1>4 DEF Seen

LEMMA SeenPop ==
  ASSUME NEW R \in SUBSET Record, NEW fs \in Seq(Frame(R)), NEW S, NEW ans,
         Seen(fs, S, ans), fs # <<>>
  PROVE  /\ Seen(Tail(fs), S, ans) /\ Records(Todo(Head(fs))) \subseteq S
         /\ Tail(fs) \in Seq(Frame(R)) /\ Head(fs) \in Frame(R)
         /\ Head(fs).k \in {"resume", "resend"} => Unanswered(Records(Todo(Head(fs))), ans)
         /\ Head(fs).k = "call" /\ Head(fs).how # "error"
              => ans[Head(Head(fs).todo).id] = Head(fs).how
<1>1. /\ RecordsIn(fs) = Records(Todo(Head(fs))) \cup RecordsIn(Tail(fs))
      /\ Sending(Tail(fs)) \subseteq Sending(fs)
      /\ Head(fs).k \in {"resume", "resend"} => Records(Todo(Head(fs))) \subseteq Sending(fs)
  BY PopSees
<1>2. /\ Calls(Tail(fs), ans)
      /\ Head(fs).k = "call" /\ Head(fs).how # "error"
           => ans[Head(Head(fs).todo).id] = Head(fs).how
  BY PopSees DEF Seen
<1>3. /\ Unanswered(Sending(Tail(fs)), ans)
      /\ Head(fs).k \in {"resume", "resend"} => Unanswered(Records(Todo(Head(fs))), ans)
  BY <1>1 DEF Seen, Unanswered
<1>4. Tail(fs) \in Seq(Frame(R)) /\ Head(fs) \in Frame(R)
  OBVIOUS
<1> QED
  BY <1>1, <1>2, <1>3, <1>4 DEF Seen

(* The frames that the client puts on the stack.                             *)
LEMMA SeenMade ==
  ASSUME NEW R \in SUBSET Record, NEW fs \in Seq(Frame(R)), NEW S, NEW ans, Seen(fs, S, ans),
         NEW q \in Seq(R), Records(q) \subseteq S, NEW r \in R, r \in S, NEW n \in Nat
  PROVE  /\ Seen(<<Parse(n)>> \o fs, S, ans) /\ Seen(<<Handler>> \o fs, S, ans)
         /\ Seen(<<Call(r, "error")>> \o fs, S, ans)
         /\ \A how \in Hows : ans[r.id] = how => Seen(<<Call(r, how)>> \o fs, S, ans)
         /\ ans[r.id] = "none" => Seen(<<Resend(r)>> \o fs, S, ans)
         /\ Seen(Step(TellAll(q)) \o fs, S, ans) /\ Step(TellAll(q)) \o fs \in Seq(Frame(R))
         /\ Unanswered(Records(q), ans) => Seen(Step(Resume(q)) \o fs, S, ans)
<1>1. Records(<<>>) = {} /\ Records(<<r>>) = {r}
  BY RecordsOf
<1>2. "error" \in Hows
  BY DEF Hows
<1>3. Seen(<<Parse(n)>> \o fs, S, ans)
  <2>1. Parse(n) \in Frame(R) /\ Todo(Parse(n)) = <<>> /\ Parse(n).k = "parse"
    BY <1>2, Made
  <2> QED
    BY <1>1, <2>1, SeenPush
<1>4. Seen(<<Handler>> \o fs, S, ans)
  <2>1. Handler \in Frame(R) /\ Todo(Handler) = <<>> /\ Handler.k = "handler"
    BY <1>2, Made
  <2> QED
    BY <1>1, <2>1, SeenPush
<1>5. ASSUME NEW how \in Hows, how = "error" \/ ans[r.id] = how
      PROVE  Seen(<<Call(r, how)>> \o fs, S, ans)
  <2>1. Call(r, how) \in Frame(R) /\ Todo(Call(r, how)) = <<r>> /\ Call(r, how).k = "call"
    BY Made
  <2>2. Call(r, how).how = how /\ Head(Call(r, how).todo) = r
    BY DEF Call
  <2> QED
    BY <1>1, <1>5, <2>1, <2>2, SeenPush
<1>6. ASSUME ans[r.id] = "none" PROVE Seen(<<Resend(r)>> \o fs, S, ans)
  <2>1. Resend(r) \in Frame(R) /\ Todo(Resend(r)) = <<r>> /\ Resend(r).k = "resend"
    BY <1>2, Made
  <2>2. Unanswered(Records(Todo(Resend(r))), ans)
    BY <1>1, <1>6, <2>1 DEF Unanswered
  <2> QED
    BY <1>1, <2>1, <2>2, SeenPush
<1>7. Seen(Step(TellAll(q)) \o fs, S, ans) /\ Step(TellAll(q)) \o fs \in Seq(Frame(R))
  <2>1. CASE q = <<>>
    <3>1. Step(TellAll(q)) = <<>> /\ <<>> \o fs = fs
      BY <2>1 DEF Step, TellAll
    <3> QED
      BY <3>1
  <2>2. CASE q # <<>>
    <3>1. Step(TellAll(q)) = <<TellAll(q)>>
      BY <2>2 DEF Step, TellAll
    <3>2. TellAll(q) \in Frame(R) /\ Todo(TellAll(q)) = q /\ TellAll(q).k = "tell"
      BY <1>2, Made
    <3>3. Seen(<<TellAll(q)>> \o fs, S, ans) /\ <<TellAll(q)>> \o fs \in Seq(Frame(R))
      BY <3>2, SeenPush
    <3> QED
      BY <3>1, <3>3
  <2> QED
    BY <2>1, <2>2
<1>8. ASSUME Unanswered(Records(q), ans) PROVE Seen(Step(Resume(q)) \o fs, S, ans)
  <2>1. CASE q = <<>>
    <3>1. Step(Resume(q)) = <<>> /\ <<>> \o fs = fs
      BY <2>1 DEF Step, Resume
    <3> QED
      BY <3>1
  <2>2. CASE q # <<>>
    <3>1. Step(Resume(q)) = <<Resume(q)>>
      BY <2>2 DEF Step, Resume
    <3>2. Resume(q) \in Frame(R) /\ Todo(Resume(q)) = q /\ Resume(q).k = "resume"
      BY <1>2, Made
    <3>3. Seen(<<Resume(q)>> \o fs, S, ans)
      BY <1>8, <3>2, SeenPush
    <3> QED
      BY <3>1, <3>3
  <2> QED
    BY <2>1, <2>2
<1> QED
  BY <1>2, <1>3, <1>4, <1>5, <1>6, <1>7, <1>8

-----------------------------------------------------------------------------
(* The line l is b, then w, then a.                                         *)
Lined(l, b, w, a) ==
  /\ Len(l) = Len(b) + Len(w) + Len(a)
  /\ \A i \in 1..Len(b) : l[i] = b[i]
  /\ \A i \in 1..Len(w) : l[Len(b) + i] = w[i]
  /\ \A i \in 1..Len(a) : l[(Len(b) + Len(w)) + i] = a[i]

LEMMA LinedAs ==
  ASSUME NEW b \in Seq(Messages), NEW w \in Seq(Messages), NEW a \in Seq(Record)
  PROVE  Join(b, w, a) \in Seq(Messages \cup Record) /\ Lined(Join(b, w, a), b, w, a)
<1> DEFINE M == Messages \cup Record
           f == b \o w
           l == f \o a
<1>1. b \in Seq(M) /\ w \in Seq(M) /\ a \in Seq(M) /\ Len(b) \in Nat /\ Len(w) \in Nat /\ Len(a) \in Nat
  OBVIOUS
<1> HIDE DEF M
<1>2. /\ f \in Seq(M) /\ Len(f) = Len(b) + Len(w)
      /\ \A i \in 1..Len(b) : f[i] = b[i]
      /\ \A i \in 1..Len(f) : i > Len(b) => f[i] = w[i - Len(b)]
  BY <1>1
<1> HIDE DEF f
<1>0. f \in Seq(M)
  BY <1>2
<1>3. /\ l \in Seq(M) /\ Len(l) = Len(f) + Len(a)
      /\ \A i \in 1..Len(f) : l[i] = f[i]
      /\ \A i \in 1..Len(l) : i > Len(f) => l[i] = a[i - Len(f)]
  BY ONLY <1>0, <1>1
<1> HIDE DEF l
<1>4. Len(l) = Len(b) + Len(w) + Len(a)
  BY <1>1, <1>2, <1>3
<1>5. ASSUME NEW i \in 1..Len(b) PROVE l[i] = b[i]
  <2>1. i \in 1..Len(f)
    BY <1>1, <1>2
  <2> QED
    BY <1>2, <1>3, <2>1
<1>6. ASSUME NEW i \in 1..Len(w) PROVE l[Len(b) + i] = w[i]
  <2>1. Len(b) + i \in 1..Len(f) /\ Len(b) + i > Len(b) /\ (Len(b) + i) - Len(b) = i
    BY <1>1, <1>2
  <2>2. f[Len(b) + i] = w[i]
    BY <1>2, <2>1
  <2> QED
    BY <1>3, <2>1, <2>2
<1>7. ASSUME NEW i \in 1..Len(a) PROVE l[(Len(b) + Len(w)) + i] = a[i]
  <2>1. Len(f) + i \in 1..Len(l) /\ Len(f) + i > Len(f) /\ (Len(f) + i) - Len(f) = i
    BY <1>1, <1>2, <1>3
  <2>2. l[Len(f) + i] = a[i]
    BY <1>3, <2>1
  <2> QED
    BY <1>2, <2>2
<1>8. Join(b, w, a) = l
  BY DEF Join, l, f
<1>9. Lined(l, b, w, a)
  BY <1>4, <1>5, <1>6, <1>7 DEF Lined
<1> QED
  BY <1>3, <1>8, <1>9 DEF M

LEMMA JoinAt ==
  ASSUME NEW b \in Seq(Messages), NEW w \in Seq(Messages), NEW a \in Seq(Record)
  PROVE  /\ Join(b, w, a) \in Seq(Messages \cup Record)
         /\ Len(Join(b, w, a)) = Len(b) + Len(w) + Len(a)
         /\ \A i \in 1..Len(b) : Join(b, w, a)[i] = b[i]
         /\ \A i \in 1..Len(w) : Join(b, w, a)[Len(b) + i] = w[i]
         /\ \A i \in 1..Len(a) : Join(b, w, a)[(Len(b) + Len(w)) + i] = a[i]
BY LinedAs DEF Lined

(* What is due is a message's header or a request.                           *)
LEMMA DueTyped ==
  ASSUME NEW x \in Messages \cup Record
  PROVE  /\ Due(x) => x \in Heads \cup Record
         /\ x \in Heads \cup Record => Due(x)
<1>1. ASSUME x \in Heads PROVE Due(x)
  <2>1. x.what \in {"ok", "fail", "again", "moved", "bad"}
    BY <1>1 DEF Heads
  <2>2. Body.what = "body" /\ Ask.what = "ask"
    BY DEF Body, Ask
  <2> QED
    BY <2>1, <2>2 DEF Due
<1>2. ASSUME x \in Record PROVE Due(x)
  <2>1. DOMAIN x = {"id", "cseq"}
    BY <1>2 DEF Record
  <2>2. DOMAIN Body = {"what"} /\ DOMAIN Ask = {"what"}
    BY DEF Body, Ask
  <2>3. "id" \in DOMAIN x /\ "id" \notin DOMAIN Body /\ "id" \notin DOMAIN Ask
    BY <2>1, <2>2
  <2> QED
    BY <2>3 DEF Due
<1> QED
  BY <1>1, <1>2 DEF Due, Messages

(* A request is no message.                                                 *)
LEMMA NoHead ==
  ASSUME NEW x \in Record PROVE x \notin Heads
<1>1. DOMAIN x = {"id", "cseq"}
  BY DEF Record
<1>2. ASSUME x \in Heads PROVE DOMAIN x = {"what", "id", "cseq", "close", "body"}
  BY <1>2 DEF Heads
<1> QED
  BY <1>1, <1>2

(* The front of the line is cut off: its end, or nothing behind the buffer,   *)
(* is left.                                                                 *)
Ends(k, l, n) == \A i \in 1..Len(k) : n + i \in 1..Len(l) /\ k[i] = l[n + i]

LEMMA Cut ==
  ASSUME NEW b \in Seq(Messages), NEW w \in Seq(Messages), NEW a \in Seq(Record),
         NEW c \in Seq(Messages), NEW v \in Seq(Messages), NEW d \in Seq(Record),
         NEW n \in Nat, Len(c) + n = Len(b), Ends(c, b, n),
         (v = w /\ d = a) \/ (v = <<>> /\ d = <<>>)
  PROVE  Ends(Join(c, v, d), Join(b, w, a), n)
<1> DEFINE l == Join(b, w, a)  k == Join(c, v, d)
<1>1. /\ Len(b) \in Nat /\ Len(w) \in Nat /\ Len(a) \in Nat
      /\ Len(c) \in Nat /\ Len(v) \in Nat /\ Len(d) \in Nat
  OBVIOUS
<1>8. Lined(l, b, w, a) /\ Lined(k, c, v, d)
  BY LinedAs
<1> HIDE DEF l, k
<1>2. /\ Len(l) = Len(b) + Len(w) + Len(a)
      /\ \A i \in 1..Len(b) : l[i] = b[i]
      /\ \A i \in 1..Len(w) : l[Len(b) + i] = w[i]
      /\ \A i \in 1..Len(a) : l[(Len(b) + Len(w)) + i] = a[i]
  BY ONLY <1>8 DEF Lined
<1>3. /\ Len(k) = Len(c) + Len(v) + Len(d)
      /\ \A i \in 1..Len(c) : k[i] = c[i]
      /\ \A i \in 1..Len(v) : k[Len(c) + i] = v[i]
      /\ \A i \in 1..Len(d) : k[(Len(c) + Len(v)) + i] = d[i]
  BY ONLY <1>8 DEF Lined
<1>4. Len(v) <= Len(w) /\ Len(d) <= Len(a) /\ (Len(v) = Len(w) \/ (Len(v) = 0 /\ Len(d) = 0))
  BY <1>1
<1> SUFFICES ASSUME NEW i \in 1..Len(k) PROVE n + i \in 1..Len(l) /\ k[i] = l[n + i]
  BY DEF l, k, Ends
<1>0. i \in Nat /\ i >= 1 /\ i <= Len(c) + Len(v) + Len(d)
  BY <1>1, <1>3
<1>5. CASE i <= Len(c)
  <2>1. i \in 1..Len(c) /\ n + i \in 1..Len(b)
    BY <1>1, <1>5
  <2>2. c[i] = b[n + i]
    BY <2>1 DEF Ends
  <2> QED
    BY <1>1, <1>2, <1>3, <2>1, <2>2
<1>6. CASE i > Len(c) /\ i <= Len(c) + Len(v)
  <2> DEFINE j == i - Len(c)
  <2>0. Len(b) = Len(c) + n
    BY <1>1
  <2>1. j \in 1..Len(v) /\ j \in 1..Len(w) /\ Len(c) + j = i /\ Len(b) + j = n + i
    BY <1>0, <1>1, <1>4, <1>6, <2>0
  <2>2. v = w
    BY <1>1, <2>1
  <2> HIDE DEF j
  <2>3. k[Len(c) + j] = v[j] /\ l[Len(b) + j] = w[j]
    BY <1>2, <1>3, <2>1
  <2> QED
    BY <1>1, <1>2, <2>1, <2>2, <2>3, SMTT(60)
<1>7. CASE i > Len(c) + Len(v)
  <2> DEFINE j == i - (Len(c) + Len(v))
  <2>1. j \in 1..Len(d) /\ (Len(c) + Len(v)) + j = i
    BY <1>1, <1>3, <1>7
  <2>2. v = w /\ d = a
    BY <1>1, <2>1
  <2>0. Len(b) = Len(c) + n
    BY <1>1
  <2>3. j \in 1..Len(a) /\ (Len(b) + Len(w)) + j = n + i
    BY <1>0, <1>1, <2>0, <2>1, <2>2
  <2> HIDE DEF j
  <2>4. k[(Len(c) + Len(v)) + j] = d[j] /\ l[(Len(b) + Len(w)) + j] = a[j]
    BY <1>2, <1>3, <2>1, <2>3
  <2> QED
    BY <1>1, <1>2, <2>1, <2>2, <2>3, <2>4, SMTT(60)
<1> QED
  BY <1>1, <1>5, <1>6, <1>7

(* What is cut off a line is missed by none.                                 *)
LEMMA CutKeeps ==
  ASSUME NEW l, NEW k, NEW n \in Nat, NEW p, NEW ans,
         Ends(k, l, n)
  PROVE  /\ InOrder(l, p) => InOrder(k, p)
         /\ Present(l, p) => Present(k, p)
         /\ Matching(l, ans) => Matching(k, ans)
<1>0. \A i \in 1..Len(k) : n + i \in 1..Len(l) /\ k[i] = l[n + i]
  BY DEF Ends
<1>1. ASSUME InOrder(l, p) PROVE InOrder(k, p)
  <2> SUFFICES ASSUME NEW i \in 1..Len(k), NEW j \in 1..Len(k), NEW a \in 1..Len(p), NEW b \in 1..Len(p),
                      i < j, Due(k[i]), Due(k[j]), p[a].cseq = k[i].cseq, p[b].cseq = k[j].cseq
               PROVE  a < b
    BY DEF InOrder
  <2>1. n + i \in 1..Len(l) /\ n + j \in 1..Len(l) /\ k[i] = l[n + i] /\ k[j] = l[n + j] /\ n + i < n + j
    BY <1>0
  <2> QED
    BY <1>1, <2>1 DEF InOrder
<1>2. ASSUME Present(l, p) PROVE Present(k, p)
  BY <1>0, <1>2 DEF Present
<1>3. ASSUME Matching(l, ans) PROVE Matching(k, ans)
  BY <1>0, <1>3 DEF Matching
<1> QED
  BY <1>1, <1>2, <1>3

(* Records are taken from the front of the queue, and what is due has its     *)
(* record behind them.                                                      *)
LEMMA QueueCut ==
  ASSUME NEW l, NEW p, NEW q, NEW n \in Nat, Len(p) \in Nat, Len(q) \in Nat,
         Len(q) + n = Len(p), Ends(q, p, n), InOrder(l, p),
         \A i \in 1..Len(l) :
           Due(l[i]) => \E a \in 1..Len(p) : a > n /\ p[a].cseq = l[i].cseq /\ p[a].id = l[i].id
  PROVE  InOrder(l, q) /\ Present(l, q)
<1>1. InOrder(l, q)
  <2> SUFFICES ASSUME NEW i \in 1..Len(l), NEW j \in 1..Len(l), NEW a \in 1..Len(q), NEW b \in 1..Len(q),
                      i < j, Due(l[i]), Due(l[j]), q[a].cseq = l[i].cseq, q[b].cseq = l[j].cseq
               PROVE  a < b
    BY DEF InOrder
  <2>1. n + a \in 1..Len(p) /\ n + b \in 1..Len(p) /\ q[a] = p[n + a] /\ q[b] = p[n + b]
    BY DEF Ends
  <2>2. n + a < n + b
    BY <2>1, SMTT(60) DEF InOrder
  <2> QED
    BY <2>2
<1>2. Present(l, q)
  <2> SUFFICES ASSUME NEW i \in 1..Len(l), Due(l[i])
               PROVE  \E a \in 1..Len(q) : q[a].cseq = l[i].cseq /\ q[a].id = l[i].id
    BY DEF Present
  <2>1. PICK a \in 1..Len(p) : a > n /\ p[a].cseq = l[i].cseq /\ p[a].id = l[i].id
    OBVIOUS
  <2>2. a - n \in 1..Len(q) /\ n + (a - n) = a
    BY <2>1
  <2>3. q[a - n] = p[a]
    BY <2>2 DEF Ends
  <2> QED
    BY <2>1, <2>2, <2>3
<1> QED
  BY <1>1, <1>2

(* The wire grows, and what is asked for changes.                            *)
LEMMA JoinMore ==
  ASSUME NEW b \in Seq(Messages), NEW w \in Seq(Messages), NEW v \in Seq(Messages),
         NEW a \in Seq(Record), NEW c \in Seq(Record)
  PROVE  /\ Len(Join(b, w \o v, c)) = (Len(b) + Len(w)) + Len(v) + Len(c)
         /\ \A i \in 1..(Len(b) + Len(w)) : Join(b, w \o v, c)[i] = Join(b, w, a)[i]
         /\ \A i \in 1..Len(v) : Join(b, w \o v, c)[(Len(b) + Len(w)) + i] = v[i]
         /\ \A i \in 1..Len(c) : Join(b, w \o v, c)[((Len(b) + Len(w)) + Len(v)) + i] = c[i]
<1> DEFINE u == w \o v  l == Join(b, w, a)  k == Join(b, u, c)
<1>1. /\ Len(b) \in Nat /\ Len(w) \in Nat /\ Len(v) \in Nat /\ Len(a) \in Nat /\ Len(c) \in Nat
      /\ u \in Seq(Messages) /\ Len(u) = Len(w) + Len(v)
      /\ \A i \in 1..Len(w) : u[i] = w[i]
      /\ \A i \in 1..Len(u) : i > Len(w) => u[i] = v[i - Len(w)]
  OBVIOUS
<1> HIDE DEF u
<1>0. u \in Seq(Messages)
  BY <1>1
<1>2. /\ Len(l) = Len(b) + Len(w) + Len(a)
      /\ \A i \in 1..Len(b) : l[i] = b[i]
      /\ \A i \in 1..Len(w) : l[Len(b) + i] = w[i]
  BY ONLY b \in Seq(Messages), w \in Seq(Messages), a \in Seq(Record), JoinAt
<1>3. /\ Len(k) = Len(b) + Len(u) + Len(c)
      /\ \A i \in 1..Len(b) : k[i] = b[i]
      /\ \A i \in 1..Len(u) : k[Len(b) + i] = u[i]
      /\ \A i \in 1..Len(c) : k[(Len(b) + Len(u)) + i] = c[i]
  <2>1. Lined(k, b, u, c)
    BY <1>0, LinedAs
  <2> HIDE DEF l, k
  <2> QED
    BY ONLY <2>1 DEF Lined
<1> HIDE DEF l, k
<1>4. Len(k) = (Len(b) + Len(w)) + Len(v) + Len(c)
  BY <1>1, <1>3
<1>5. ASSUME NEW i \in 1..(Len(b) + Len(w)) PROVE k[i] = l[i]
  <2>1. CASE i <= Len(b)
    <3>1. i \in 1..Len(b)
      BY <1>1, <2>1
    <3> QED
      BY <1>2, <1>3, <3>1
  <2>2. CASE i > Len(b)
    <3>1. PICK j \in 1..Len(w) : i = Len(b) + j
      <4>1. i - Len(b) \in 1..Len(w) /\ i = Len(b) + (i - Len(b))
        BY <1>1, <2>2
      <4> QED
        BY <4>1
    <3>2. j \in 1..Len(u)
      BY <1>1
    <3> QED
      BY <1>1, <1>2, <1>3, <3>1, <3>2
  <2> QED
    BY <1>1, <2>1, <2>2
<1>6. ASSUME NEW i \in 1..Len(v) PROVE k[(Len(b) + Len(w)) + i] = v[i]
  <2>1. PICK j \in 1..Len(u) : j = Len(w) + i /\ j > Len(w) /\ j - Len(w) = i
    <3>1. Len(w) + i \in 1..Len(u) /\ Len(w) + i > Len(w) /\ (Len(w) + i) - Len(w) = i
      BY <1>1
    <3> QED
      BY <3>1
  <2>2. u[j] = v[i] /\ k[Len(b) + j] = u[j]
    BY <1>1, <1>3, <2>1
  <2>3. Len(b) + j = (Len(b) + Len(w)) + i
    BY <1>1, <2>1
  <2> QED
    BY <2>2, <2>3
<1>7. ASSUME NEW i \in 1..Len(c) PROVE k[((Len(b) + Len(w)) + Len(v)) + i] = c[i]
  <2>1. (Len(b) + Len(u)) + i = ((Len(b) + Len(w)) + Len(v)) + i
    BY <1>1
  <2> QED
    BY <1>3, <2>1
<1> QED
  BY <1>4, <1>5, <1>6, <1>7 DEF u, l, k

(* What is due keeps its order.                                             *)
LEMMA Embedded ==
  ASSUME NEW l, NEW k, NEW p, NEW m,
         \A i \in 1..Len(k) : Due(k[i]) =>
           /\ m[i] \in 1..Len(l) /\ Due(l[m[i]])
           /\ l[m[i]].cseq = k[i].cseq /\ l[m[i]].id = k[i].id,
         \A i, j \in 1..Len(k) : i < j /\ Due(k[i]) /\ Due(k[j]) => m[i] < m[j]
  PROVE  /\ InOrder(l, p) => InOrder(k, p)
         /\ Present(l, p) => Present(k, p)
<1>1. ASSUME InOrder(l, p) PROVE InOrder(k, p)
  <2> SUFFICES ASSUME NEW i \in 1..Len(k), NEW j \in 1..Len(k), NEW a \in 1..Len(p), NEW b \in 1..Len(p),
                      i < j, Due(k[i]), Due(k[j]), p[a].cseq = k[i].cseq, p[b].cseq = k[j].cseq
               PROVE  a < b
    BY DEF InOrder
  <2>1. m[i] \in 1..Len(l) /\ m[j] \in 1..Len(l) /\ m[i] < m[j]
    OBVIOUS
  <2>2. /\ Due(l[m[i]]) /\ Due(l[m[j]])
        /\ p[a].cseq = l[m[i]].cseq /\ p[b].cseq = l[m[j]].cseq
    OBVIOUS
  <2> QED
    BY <1>1, <2>1, <2>2 DEF InOrder
<1>2. ASSUME Present(l, p) PROVE Present(k, p)
  BY <1>2 DEF Present
<1> QED
  BY <1>1, <1>2

(* A request is in the line once.                                           *)
LEMMA DueOnce ==
  ASSUME NEW l, Len(l) \in Nat, NEW p, Len(p) \in Nat, Once(p), InOrder(l, p), Present(l, p),
         NEW i \in 1..Len(l), NEW j \in 1..Len(l), i # j, Due(l[i]), Due(l[j]), l[i].id # HTTP
  PROVE  l[i].id # l[j].id
<1> SUFFICES ASSUME l[i].id = l[j].id PROVE FALSE
  OBVIOUS
<1>1. PICK a \in 1..Len(p) : p[a].cseq = l[i].cseq /\ p[a].id = l[i].id
  BY DEF Present
<1>2. PICK b \in 1..Len(p) : p[b].cseq = l[j].cseq /\ p[b].id = l[j].id
  BY DEF Present
<1>3. a = b
  BY <1>1, <1>2 DEF Once
<1>4. CASE i < j
  <2>1. a < b
    BY <1>1, <1>2, <1>4 DEF InOrder
  <2> QED
    BY <1>3, <2>1
<1>5. CASE j < i
  <2>1. b < a
    BY <1>1, <1>2, <1>5 DEF InOrder
  <2> QED
    BY <1>3, <2>1
<1> QED
  BY <1>4, <1>5

(* The server takes the next request, and puts v on the wire: nothing, or a    *)
(* header for it and perhaps a body.                                        *)
LEMMA Served ==
  ASSUME NEW b \in Seq(Messages), NEW w \in Seq(Messages), NEW v \in Seq(Messages),
         NEW a \in Seq(Record), a # <<>>, NEW p,
         \A j \in 1..Len(v) : Due(v[j]) => /\ j = 1
                                           /\ v[j].cseq = Head(a).cseq /\ v[j].id = Head(a).id
  PROVE  /\ InOrder(Join(b, w, a), p) => InOrder(Join(b, w \o v, Tail(a)), p)
         /\ Present(Join(b, w, a), p) => Present(Join(b, w \o v, Tail(a)), p)
         /\ \E n \in 1..Len(Join(b, w, a)) :
              /\ Join(b, w, a)[n] = Head(a)
              /\ \A i \in 1..Len(Join(b, w \o v, Tail(a))) :
                   \/ \E j \in 1..Len(Join(b, w, a)) :
                        j # n /\ Join(b, w \o v, Tail(a))[i] = Join(b, w, a)[j]
                   \/ \E j \in 1..Len(v) : Join(b, w \o v, Tail(a))[i] = v[j]
<1> DEFINE c == Tail(a)  l == Join(b, w, a)  k == Join(b, w \o v, c)
           x == Len(b) + Len(w)  d == Len(v)
           m == [i \in 1..Len(k) |->
                   IF i <= x THEN i ELSE IF i <= x + d THEN x + 1 ELSE (i - d) + 1]
<1>1. /\ c \in Seq(Record) /\ Len(c) \in Nat /\ Len(a) = Len(c) + 1 /\ Head(a) = a[1]
      /\ \A i \in 1..Len(c) : c[i] = a[i + 1]
      /\ x \in Nat /\ d \in Nat
  OBVIOUS
<1> HIDE DEF c
<1>0. c \in Seq(Record)
  BY <1>1
<1>2. /\ Len(l) = x + Len(a)
      /\ \A i \in 1..Len(a) : l[x + i] = a[i]
  BY JoinAt
<1>3. /\ Len(k) = x + d + Len(c)
      /\ \A i \in 1..x : k[i] = l[i]
      /\ \A i \in 1..d : k[x + i] = v[i]
      /\ \A i \in 1..Len(c) : k[(x + d) + i] = c[i]
  <2> HIDE DEF x, d, k, l
  <2>1. Len(Join(b, w \o v, c)) = (Len(b) + Len(w)) + Len(v) + Len(c)
    BY <1>0, JoinMore
  <2>2. \A i \in 1..(Len(b) + Len(w)) : Join(b, w \o v, c)[i] = Join(b, w, a)[i]
    BY <1>0, JoinMore
  <2>3. \A i \in 1..Len(v) : Join(b, w \o v, c)[(Len(b) + Len(w)) + i] = v[i]
    BY <1>0, JoinMore
  <2>4. \A i \in 1..Len(c) : Join(b, w \o v, c)[((Len(b) + Len(w)) + Len(v)) + i] = c[i]
    BY <1>0, JoinMore
  <2> QED
    BY <2>1, <2>2, <2>3, <2>4 DEF x, d, k, l
<1> HIDE DEF l, k, x
<1>4. \A j \in 1..d : Due(v[j]) => j = 1 /\ v[j].cseq = a[1].cseq /\ v[j].id = a[1].id
  BY <1>1
<1> HIDE DEF d
<1>5. x + 1 \in 1..Len(l) /\ l[x + 1] = a[1] /\ Due(a[1])
  <2>1. 1 \in 1..Len(a) /\ a[1] \in Record
    BY <1>1
  <2>2. Due(a[1])
    BY <2>1, DueTyped
  <2> QED
    BY <1>1, <1>2, <2>1, <2>2
<1>6. ASSUME NEW i \in 1..Len(k)
      PROVE  \/ i <= x /\ i \in 1..Len(l) /\ m[i] = i /\ k[i] = l[i]
             \/ /\ i > x /\ i <= x + d /\ m[i] = x + 1
                /\ i - x \in 1..d /\ k[i] = v[i - x]
             \/ /\ i > x + d /\ m[i] = (i - d) + 1
                /\ (i - d) + 1 \in 1..Len(l) /\ k[i] = l[(i - d) + 1]
  <2>0. i \in Nat /\ i >= 1 /\ i <= x + d + Len(c)
    BY <1>1, <1>3
  <2>1. CASE i <= x
    <3>1. i \in 1..x /\ i \in 1..Len(l)
      BY <1>1, <1>2, <2>0, <2>1
    <3> QED
      BY <1>3, <2>1, <3>1
  <2>2. CASE i > x /\ i <= x + d
    <3>1. i - x \in 1..d /\ x + (i - x) = i /\ ~(i <= x)
      BY <1>1, <2>0, <2>2
    <3>2. k[x + (i - x)] = v[i - x]
      BY <1>3, <3>1
    <3>3. m[i] = x + 1
      BY <2>2, <3>1
    <3> QED
      BY <2>2, <3>1, <3>2, <3>3
  <2>3. CASE i > x + d
    <3>1. i - (x + d) \in 1..Len(c) /\ (x + d) + (i - (x + d)) = i /\ ~(i <= x) /\ ~(i <= x + d)
      BY <1>1, <2>0, <2>3
    <3>2. PICK j \in 1..Len(c) : j = i - (x + d)
      BY <3>1
    <3>3. k[(x + d) + j] = c[j] /\ c[j] = a[j + 1]
      BY <1>1, <1>3
    <3>4. j + 1 \in 1..Len(a) /\ x + (j + 1) = (i - d) + 1
      BY <1>1, <2>0, <3>2
    <3>5. l[x + (j + 1)] = a[j + 1]
      BY <1>2, <3>4
    <3>6. (i - d) + 1 \in 1..Len(l)
      BY <1>1, <1>2, <2>0, <2>3
    <3>7. m[i] = (i - d) + 1
      BY <3>1
    <3>8. k[i] = l[(i - d) + 1]
      BY <3>1, <3>2, <3>3, <3>4, <3>5
    <3> QED
      BY <2>3, <3>6, <3>7, <3>8
  <2> QED
    BY <1>1, <2>0, <2>1, <2>2, <2>3
<1> HIDE DEF m
<1>7. ASSUME NEW i \in 1..Len(k), Due(k[i])
      PROVE  /\ m[i] \in 1..Len(l) /\ Due(l[m[i]])
             /\ l[m[i]].cseq = k[i].cseq /\ l[m[i]].id = k[i].id
             /\ i > x /\ i <= x + d => i = x + 1
  <2>1. CASE i <= x /\ i \in 1..Len(l) /\ m[i] = i /\ k[i] = l[i]
    BY <1>1, <1>7, <2>1
  <2>2. CASE i > x /\ i <= x + d /\ m[i] = x + 1 /\ i - x \in 1..d /\ k[i] = v[i - x]
    <3>1. i - x = 1 /\ v[i - x].cseq = a[1].cseq /\ v[i - x].id = a[1].id
      BY <1>4, <1>7, <2>2
    <3>2. i = x + 1
      BY <1>1, <3>1
    <3> QED
      BY <1>5, <2>2, <3>1, <3>2
  <2>3. CASE i > x + d /\ m[i] = (i - d) + 1 /\ (i - d) + 1 \in 1..Len(l) /\ k[i] = l[(i - d) + 1]
    <3>1. ~(i <= x + d)
      BY <1>1, <2>3
    <3> QED
      BY <1>7, <2>3, <3>1
  <2> QED
    BY <1>6, <2>1, <2>2, <2>3
<1>8. ASSUME NEW i \in 1..Len(k), NEW j \in 1..Len(k), i < j, Due(k[i]), Due(k[j])
      PROVE  m[i] < m[j]
  <2>0. i \in Nat /\ j \in Nat
    BY <1>1, <1>3
  <2>1. /\ i <= x => m[i] = i
        /\ i > x /\ i <= x + d => m[i] = x + 1 /\ i = x + 1
        /\ i > x + d => m[i] = (i - d) + 1
    BY <1>1, <1>6, <1>7, <1>8, <2>0
  <2>2. /\ j <= x => m[j] = j
        /\ j > x /\ j <= x + d => m[j] = x + 1 /\ j = x + 1
        /\ j > x + d => m[j] = (j - d) + 1
    BY <1>1, <1>6, <1>7, <1>8, <2>0
  <2> QED
    BY <1>1, <1>8, <2>0, <2>1, <2>2, SMTT(60)
<1>9. InOrder(l, p) => InOrder(k, p)
  BY <1>7, <1>8, Embedded
<1>10. Present(l, p) => Present(k, p)
  BY <1>7, <1>8, Embedded
<1>11. ASSUME NEW i \in 1..Len(k)
       PROVE  (\E j \in 1..Len(l) : j # x + 1 /\ k[i] = l[j]) \/ (\E j \in 1..Len(v) : k[i] = v[j])
  <2>0. i \in Nat
    BY <1>1, <1>3
  <2>1. CASE i <= x /\ i \in 1..Len(l) /\ m[i] = i /\ k[i] = l[i]
    BY <1>1, <2>0, <2>1
  <2>2. CASE i > x /\ i <= x + d /\ m[i] = x + 1 /\ i - x \in 1..d /\ k[i] = v[i - x]
    BY <2>2 DEF d
  <2>3. CASE i > x + d /\ m[i] = (i - d) + 1 /\ (i - d) + 1 \in 1..Len(l) /\ k[i] = l[(i - d) + 1]
    <3>1. (i - d) + 1 # x + 1
      BY <1>1, <2>0, <2>3
    <3> QED
      BY <2>3, <3>1
  <2> QED
    BY <1>6, <2>1, <2>2, <2>3
<1> QED
  BY <1>1, <1>5, <1>9, <1>10, <1>11 DEF l, k, c

(* The server puts a message of its own on the wire.                         *)
LEMMA AskedFor ==
  ASSUME NEW b \in Seq(Messages), NEW w \in Seq(Messages), NEW v \in Seq(Messages),
         NEW a \in Seq(Record), NEW p, \A j \in 1..Len(v) : ~Due(v[j])
  PROVE  /\ InOrder(Join(b, w, a), p) => InOrder(Join(b, w \o v, a), p)
         /\ Present(Join(b, w, a), p) => Present(Join(b, w \o v, a), p)
         /\ \A i \in 1..Len(Join(b, w \o v, a)) :
              Due(Join(b, w \o v, a)[i])
                => \E j \in 1..Len(Join(b, w, a)) : Join(b, w \o v, a)[i] = Join(b, w, a)[j]
<1> DEFINE l == Join(b, w, a)  k == Join(b, w \o v, a)
           x == Len(b) + Len(w)  d == Len(v)
           m == [i \in 1..Len(k) |-> IF i <= x THEN i ELSE i - d]
<1>1. x \in Nat /\ d \in Nat /\ Len(a) \in Nat
  OBVIOUS
<1>2. /\ Len(l) = x + Len(a)
      /\ \A i \in 1..Len(a) : l[x + i] = a[i]
  BY JoinAt
<1>3. /\ Len(k) = x + d + Len(a)
      /\ \A i \in 1..x : k[i] = l[i]
      /\ \A i \in 1..d : k[x + i] = v[i]
      /\ \A i \in 1..Len(a) : k[(x + d) + i] = a[i]
  <2> HIDE DEF x, d, k, l
  <2>1. Len(Join(b, w \o v, a)) = (Len(b) + Len(w)) + Len(v) + Len(a)
    BY JoinMore
  <2>2. \A i \in 1..(Len(b) + Len(w)) : Join(b, w \o v, a)[i] = Join(b, w, a)[i]
    BY JoinMore
  <2>3. \A i \in 1..Len(v) : Join(b, w \o v, a)[(Len(b) + Len(w)) + i] = v[i]
    BY JoinMore
  <2>4. \A i \in 1..Len(a) : Join(b, w \o v, a)[((Len(b) + Len(w)) + Len(v)) + i] = a[i]
    BY JoinMore
  <2> QED
    BY <2>1, <2>2, <2>3, <2>4 DEF x, d, k, l
<1> HIDE DEF l, k, x
<1>4. \A j \in 1..d : ~Due(v[j])
  OBVIOUS
<1> HIDE DEF d
<1>5. ASSUME NEW i \in 1..Len(k), Due(k[i])
      PROVE  /\ m[i] \in 1..Len(l) /\ k[i] = l[m[i]]
             /\ (i <= x /\ m[i] = i) \/ (i > x + d /\ m[i] = i - d)
  <2>0. i \in Nat /\ i >= 1 /\ i <= x + d + Len(a)
    BY <1>1, <1>3
  <2>1. CASE i <= x
    <3>1. i \in 1..x /\ i \in 1..Len(l)
      BY <1>1, <1>2, <2>0, <2>1
    <3> QED
      BY <1>3, <2>1, <3>1
  <2>2. CASE i > x /\ i <= x + d
    <3>1. i - x \in 1..d /\ x + (i - x) = i
      BY <1>1, <2>0, <2>2
    <3>2. k[x + (i - x)] = v[i - x]
      BY <1>3, <3>1
    <3> QED
      BY <1>4, <1>5, <3>1, <3>2
  <2>3. CASE i > x + d
    <3>1. i - (x + d) \in 1..Len(a) /\ (x + d) + (i - (x + d)) = i /\ ~(i <= x)
      BY <1>1, <2>0, <2>3
    <3>2. PICK j \in 1..Len(a) : j = i - (x + d)
      BY <3>1
    <3>3. k[(x + d) + j] = a[j] /\ l[x + j] = a[j]
      BY <1>2, <1>3
    <3>4. x + j = i - d /\ i - d \in 1..Len(l)
      BY <1>1, <1>2, <2>0, <3>2
    <3>5. m[i] = i - d
      BY <3>1
    <3> QED
      BY <2>3, <3>1, <3>2, <3>3, <3>4, <3>5
  <2> QED
    BY <1>1, <2>0, <2>1, <2>2, <2>3
<1> HIDE DEF m
<1>6. ASSUME NEW i \in 1..Len(k), NEW j \in 1..Len(k), i < j, Due(k[i]), Due(k[j])
      PROVE  m[i] < m[j]
  <2>0. i \in Nat /\ j \in Nat
    BY <1>1, <1>3
  <2>1. (i <= x /\ m[i] = i) \/ (i > x + d /\ m[i] = i - d)
    BY <1>5, <1>6
  <2>2. (j <= x /\ m[j] = j) \/ (j > x + d /\ m[j] = j - d)
    BY <1>5, <1>6
  <2> QED
    BY <1>1, <1>6, <2>0, <2>1, <2>2
<1>7. ASSUME NEW i \in 1..Len(k), Due(k[i])
      PROVE  /\ m[i] \in 1..Len(l) /\ Due(l[m[i]])
             /\ l[m[i]].cseq = k[i].cseq /\ l[m[i]].id = k[i].id
  BY <1>5, <1>7
<1>8. InOrder(l, p) => InOrder(k, p)
  BY <1>6, <1>7, Embedded
<1>9. Present(l, p) => Present(k, p)
  BY <1>6, <1>7, Embedded
<1>10. \A i \in 1..Len(k) : Due(k[i]) => \E j \in 1..Len(l) : k[i] = l[j]
  BY <1>5
<1> QED
  BY <1>8, <1>9, <1>10 DEF l, k

(* A request is sent: it is the last of the line and of the queue.            *)
LEMMA Transmitted ==
  ASSUME NEW b \in Seq(Messages), NEW w \in Seq(Messages), NEW a \in Seq(Record),
         NEW p \in Seq(Record), NEW r \in Record, NEW S, NEW n, NEW ans,
         Numbers(S, n), r \in S, Records(p) \subseteq S, r.id \notin Ids(p), r.id # HTTP,
         InOrder(Join(b, w, a), p), Present(Join(b, w, a), p), Matching(Join(b, w, a), ans),
         ans[r.id] = "none"
  PROVE  /\ InOrder(Join(b, w, Append(a, r)), Append(p, r))
         /\ Present(Join(b, w, Append(a, r)), Append(p, r))
         /\ Matching(Join(b, w, Append(a, r)), ans)
<1> DEFINE l == Join(b, w, a)  c == Append(a, r)  k == Join(b, w, c)  q == Append(p, r)
           y == Len(l)  z == Len(p)
<1>1. /\ Len(a) \in Nat /\ c \in Seq(Record) /\ Len(c) = Len(a) + 1 /\ c[Len(a) + 1] = r
      /\ \A i \in 1..Len(a) : c[i] = a[i]
  OBVIOUS
<1>2. /\ z \in Nat /\ Len(q) = z + 1 /\ q[z + 1] = r /\ \A i \in 1..z : q[i] = p[i]
  OBVIOUS
<1> HIDE DEF c, q
<1>3. /\ y = Len(b) + Len(w) + Len(a)
      /\ \A i \in 1..Len(b) : l[i] = b[i]
      /\ \A i \in 1..Len(w) : l[Len(b) + i] = w[i]
      /\ \A i \in 1..Len(a) : l[(Len(b) + Len(w)) + i] = a[i]
  BY JoinAt
<1>4. c \in Seq(Record) /\ Len(b) \in Nat /\ Len(w) \in Nat
  BY <1>1
<1>5. /\ Len(k) = Len(b) + Len(w) + Len(c)
      /\ \A i \in 1..Len(b) : k[i] = b[i]
      /\ \A i \in 1..Len(w) : k[Len(b) + i] = w[i]
      /\ \A i \in 1..Len(c) : k[(Len(b) + Len(w)) + i] = c[i]
  <2>1. Lined(k, b, w, c)
    BY <1>4, LinedAs
  <2> HIDE DEF l, k
  <2> QED
    BY ONLY <2>1 DEF Lined
<1> HIDE DEF l, k
<1>6. y \in Nat /\ Len(k) = y + 1
  BY <1>1, <1>3, <1>4, <1>5
<1>7. k[y + 1] = r
  <2>1. (Len(b) + Len(w)) + (Len(a) + 1) = y + 1 /\ Len(a) + 1 \in 1..Len(c)
    BY <1>1, <1>3, <1>4
  <2>2. k[(Len(b) + Len(w)) + (Len(a) + 1)] = c[Len(a) + 1]
    BY <1>5, <2>1
  <2> QED
    BY <1>1, <2>1, <2>2
<1>8. ASSUME NEW i \in 1..y PROVE k[i] = l[i]
  <2>0. i \in Nat /\ i >= 1 /\ i <= Len(b) + Len(w) + Len(a)
    BY <1>1, <1>3, <1>4
  <2>1. CASE i <= Len(b)
    <3>1. i \in 1..Len(b)
      BY <1>4, <2>0, <2>1
    <3> QED
      BY <1>3, <1>5, <3>1
  <2>2. CASE i > Len(b) /\ i <= Len(b) + Len(w)
    <3>1. i - Len(b) \in 1..Len(w) /\ Len(b) + (i - Len(b)) = i
      BY <1>4, <2>0, <2>2
    <3>2. PICK j \in 1..Len(w) : j = i - Len(b)
      BY <3>1
    <3>3. k[Len(b) + j] = l[Len(b) + j]
      BY <1>3, <1>5
    <3> QED
      BY <3>1, <3>2, <3>3
  <2>3. CASE i > Len(b) + Len(w)
    <3>1. i - (Len(b) + Len(w)) \in 1..Len(a) /\ (Len(b) + Len(w)) + (i - (Len(b) + Len(w))) = i
      BY <1>1, <1>4, <2>0, <2>3
    <3>2. PICK j \in 1..Len(a) : j = i - (Len(b) + Len(w))
      BY <3>1
    <3>3. j \in 1..Len(c) /\ c[j] = a[j]
      BY <1>1
    <3>4. k[(Len(b) + Len(w)) + j] = l[(Len(b) + Len(w)) + j]
      BY <1>3, <1>5, <3>3
    <3> QED
      BY <3>1, <3>2, <3>4
  <2> QED
    BY <1>4, <2>0, <2>1, <2>2, <2>3
<1> HIDE DEF y, z
<1>9. InOrder(l, p) /\ Present(l, p) /\ Matching(l, ans)
  BY DEF l
<1>10. ASSUME NEW e \in 1..z PROVE p[e] \in S /\ p[e].id # r.id /\ p[e].cseq # r.cseq
  <2>1. p[e] \in S
    BY DEF Records, z
  <2>2. p[e].id # r.id
    <3>1. p[e].id \in Ids(p) \/ p[e].id = HTTP
      BY Listed DEF z
    <3> QED
      BY <3>1
  <2> QED
    BY <2>1, <2>2 DEF Numbers
<1>11. ASSUME NEW i \in 1..y, Due(l[i])
       PROVE  \E e \in 1..z : p[e].cseq = l[i].cseq /\ p[e].id = l[i].id
  BY <1>9, <1>11 DEF Present, y, z
<1>12. ASSUME NEW i \in 1..y, Due(l[i]) PROVE l[i].cseq # r.cseq
  BY <1>10, <1>11, <1>12
<1>13. InOrder(k, q)
  <2> SUFFICES ASSUME NEW i \in 1..Len(k), NEW j \in 1..Len(k), NEW e \in 1..Len(q), NEW f \in 1..Len(q),
                      i < j, Due(k[i]), Due(k[j]), q[e].cseq = k[i].cseq, q[f].cseq = k[j].cseq
               PROVE  e < f
    BY DEF InOrder
  <2>1. i \in 1..y
    BY <1>6
  <2>2. k[i] = l[i] /\ l[i].cseq # r.cseq
    BY <1>8, <1>12, <2>1
  <2>3. e # z + 1
    BY <1>2, <2>2
  <2>4. e \in 1..z /\ q[e] = p[e]
    BY <1>2, <2>3
  <2>5. CASE j = y + 1
    <3>1. q[f].cseq = r.cseq
      BY <1>7, <2>5
    <3>2. f \notin 1..z
      BY <1>2, <1>10, <3>1
    <3> QED
      BY <1>2, <2>4, <3>2
  <2>6. CASE j # y + 1
    <3>1. j \in 1..y
      BY <1>6, <2>6
    <3>2. k[j] = l[j] /\ l[j].cseq # r.cseq
      BY <1>8, <1>12, <3>1
    <3>3. f # z + 1
      BY <1>2, <3>2
    <3>4. f \in 1..z /\ q[f] = p[f]
      BY <1>2, <3>3
    <3> QED
      BY <1>9, <2>1, <2>2, <2>4, <3>1, <3>2, <3>4 DEF InOrder, y, z
  <2> QED
    BY <2>5, <2>6
<1>14. Present(k, q)
  <2> SUFFICES ASSUME NEW i \in 1..Len(k), Due(k[i])
               PROVE  \E e \in 1..Len(q) : q[e].cseq = k[i].cseq /\ q[e].id = k[i].id
    BY DEF Present
  <2>1. CASE i = y + 1
    <3>1. z + 1 \in 1..Len(q) /\ q[z + 1] = k[i]
      BY <1>2, <1>7, <2>1
    <3> QED
      BY <3>1
  <2>2. CASE i # y + 1
    <3>1. i \in 1..y
      BY <1>6, <2>2
    <3>2. k[i] = l[i]
      BY <1>8, <3>1
    <3>3. PICK e \in 1..z : p[e].cseq = l[i].cseq /\ p[e].id = l[i].id
      BY <1>11, <3>1, <3>2
    <3>4. e \in 1..Len(q) /\ q[e] = p[e]
      BY <1>2
    <3> QED
      BY <3>2, <3>3, <3>4
  <2> QED
    BY <2>1, <2>2
<1>15. Matching(k, ans)
  <2> SUFFICES ASSUME NEW i \in 1..Len(k), Due(k[i]) PROVE ans[k[i].id] = Says(k[i])
    BY DEF Matching
  <2>1. CASE i = y + 1
    BY <1>7, <2>1, NoHead DEF Says
  <2>2. CASE i # y + 1
    <3>1. i \in 1..y
      BY <1>6, <2>2
    <3> QED
      BY <1>8, <1>9, <3>1 DEF Matching, y
  <2> QED
    BY <2>1, <2>2
<1> QED
  BY <1>13, <1>14, <1>15 DEF k, q, c

-----------------------------------------------------------------------------
(* The steps of the client without a tunnel.                                 *)

LEMMA PlainBase ==
  ASSUME PlainInv
  PROVE  /\ OwnInv /\ tunnel = FALSE /\ tun = <<>> /\ Recs(tunnel) \in SUBSET Record
         /\ conn \in Seq(Recs(tunnel)) /\ resp \in Seq(Recs(tunnel))
         /\ Good(Recs(tunnel), conn) /\ Good(Recs(tunnel), resp) /\ resp \in Seq(Record)
         /\ frames \in Seq(Frame(Recs(tunnel)))
         /\ buffer \in Seq(Messages) /\ wire \in Seq(Messages)
         /\ asked \in Seq(Recs(tunnel)) /\ asked \in Seq(Record)
         /\ \A r \in Recs(tunnel) : r \in Record /\ r.id \in Requests /\ r.id # HTTP
<1>1. OwnInv /\ tunnel = FALSE /\ tun = <<>>
  BY DEF PlainInv, Plain
<1>2. \A r \in Recs(tunnel) : r \in Record /\ r.id \in Requests /\ r.id # HTTP
  BY <1>1 DEF Recs, Record
<1>3. asked \in Seq(Recs(tunnel)) /\ wire \in Seq(Messages) /\ buffer \in Seq(Messages)
  BY <1>1 DEF OwnInv, Socks, Typed
<1>4. Recs(tunnel) \in SUBSET Record /\ Good(Recs(tunnel), conn) /\ Good(Recs(tunnel), resp)
  BY <1>1, Base
<1>5. conn \in Seq(Recs(tunnel)) /\ resp \in Seq(Recs(tunnel))
  BY <1>4 DEF Good
<1>6. frames \in Seq(Frame(Recs(tunnel)))
  BY <1>1, Base DEF Stack
<1>7. resp \in Seq(Record) /\ asked \in Seq(Record)
  BY <1>3, <1>4, <1>5
<1> QED
  BY <1>1, <1>2, <1>3, <1>4, <1>5, <1>6, <1>7

(* What holds of all the records is Matched.                                 *)
LEMMA MatchedBy ==
  ASSUME NEW S, NEW n, NEW l, NEW c, NEW p, NEW fs, NEW ans, MatchedIn(n, S, l, c, p, fs, ans)
  PROVE  MatchedIn(n, Records(c) \cup Records(p) \cup RecordsIn(fs), l, c, p, fs, ans)
<1> DEFINE T == Records(c) \cup Records(p) \cup RecordsIn(fs)
<1>1. T \subseteq S
  BY DEF MatchedIn, Seen
<1>2. Numbers(T, n)
  BY <1>1 DEF MatchedIn, Numbers
<1>3. Seen(fs, T, ans)
  BY DEF MatchedIn, Seen
<1> HIDE DEF T
<1>4. Records(c) \subseteq T /\ Records(p) \subseteq T
  BY DEF T
<1> QED
  BY <1>2, <1>3, <1>4 DEF MatchedIn, T

LEMMA PlainAfter ==
  ASSUME PlainInv, UNCHANGED <<tunnel, sent, answered>>, tun' = <<>>, astray => astray',
         NEW S,
         ~astray' => MatchedIn(fCSeq', S, Line', conn', resp', frames', answered)
  PROVE  Plain'
<1>1. ASSUME ~astray' PROVE Matched'
  <2>1. MatchedIn(fCSeq', S, Line', conn', resp', frames', answered')
    BY <1>1
  <2>2. MatchedIn(fCSeq', Records(conn') \cup Records(resp') \cup RecordsIn(frames'),
                  Line', conn', resp', frames', answered')
    BY <2>1, MatchedBy
  <2> QED
    BY <2>2 DEF Matched, Held
<1> QED
  BY <1>1 DEF PlainInv, Plain

LEMMA PlainBy ==
  ASSUME PlainInv, UNCHANGED <<tunnel, sent, answered>>, tun' = <<>>, astray => astray',
         NEW S,
         ~astray => MatchedIn(fCSeq', S, Line', conn', resp', frames', answered)
  PROVE  Plain'
BY PlainAfter

(* A step that only changes the frames, or takes all that wait for a connection. *)
LEMMA PlainFrames ==
  ASSUME PlainInv,
         UNCHANGED <<tunnel, tun, resp, buffer, wire, asked, fCSeq, sent, answered, astray>>,
         conn' = conn \/ conn' = <<>>, ~astray => Seen(frames', Held, answered)
  PROVE  Plain'
<1>1. Line' = Line
  BY DEF Line
<1>2. ASSUME ~astray PROVE MatchedIn(fCSeq', Held, Line', conn', resp', frames', answered)
  <2>1. MatchedIn(fCSeq, Held, Line, conn, resp, frames, answered)
    BY <1>2 DEF PlainInv, Plain, Matched
  <2>2. Records(<<>>) = {}
    BY DEF Records
  <2>3. Records(conn') \subseteq Records(conn)
    BY <2>2
  <2> QED
    BY <1>1, <1>2, <2>1, <2>3 DEF MatchedIn, Unanswered
<1> QED
  BY <1>2, PlainBase, PlainBy

LEMMA FramesPlain ==
  ASSUME PlainInv, Return \/ Incomplete \/ TellNext \/ Connected PROVE Plain'
<1> DEFINE R == Recs(tunnel)
<1>1. /\ UNCHANGED <<tunnel, tun, resp, buffer, wire, asked, fCSeq, sent, answered, astray>>
      /\ conn' = conn \/ conn' = <<>>
  BY DEF Return, Incomplete, TellNext, Connected, socks, queues, history, flaws
<1>2. ASSUME ~astray PROVE Seen(frames', Held, answered)
  <2>1. MatchedIn(fCSeq, Held, Line, conn, resp, frames, answered)
    BY <1>2 DEF PlainInv, Plain, Matched
  <2>2. Seen(frames, Held, answered) /\ Unanswered(Records(conn), answered)
    BY <2>1 DEF MatchedIn
  <2>3. CASE Return \/ Incomplete
    <3>1. frames # <<>> /\ frames' = Tail(frames)
      BY <2>3 DEF Return, Incomplete, Top, Below
    <3>2. Seen(Tail(frames), Held, answered)
      BY <2>2, <3>1, PlainBase, SeenPop
    <3> QED
      BY <3>1, <3>2
  <2>4. CASE TellNext
    <3> DEFINE f == Head(frames)  q == f.todo  step == Step(TellAll(Tail(q)))
               call == Call(Head(q), "error")
    <3>1. frames # <<>> /\ f.k = "tell"
      BY <2>4 DEF TellNext, Top
    <3>2. /\ Seen(Tail(frames), Held, answered) /\ Records(Todo(f)) \subseteq Held
          /\ Tail(frames) \in Seq(Frame(R)) /\ f \in Frame(R)
      BY <2>2, <3>1, PlainBase, SeenPop
    <3>3. Todo(f) = q /\ q \in Seq(R)
      BY <3>1, <3>2, PlainBase, Lists1
    <3>4. CASE q = <<>>
      BY <2>4, <3>2, <3>4 DEF TellNext, Below
    <3>5. CASE q # <<>>
      <4>1. Head(q) \in R /\ Tail(q) \in Seq(R)
        BY <3>3, <3>5
      <4>2. Records(Tail(q)) \subseteq Held /\ Head(q) \in Held
        <5>1. Records(Tail(q)) \subseteq Records(q) /\ Head(q) \in Records(q)
          BY <3>3, <3>5, <4>1, PlainBase, RecordsOf
        <5> QED
          BY <3>2, <3>3, <5>1
      <4> HIDE DEF q
      <4>3. Seen(step \o Below, Held, answered) /\ step \o Below \in Seq(Frame(R))
        BY <3>2, <4>1, <4>2, PlainBase, SeenMade DEF Below
      <4>4. Seen(<<call>> \o (step \o Below), Held, answered)
        BY <3>3, <4>1, <4>2, <4>3, PlainBase, SeenMade
      <4>5. frames' = <<call>> \o (step \o Below)
        <5>1. frames' = <<call>> \o step \o Below
          BY <2>4, <3>5 DEF TellNext, q
        <5>2. call \in Frame(R)
          <6>1. <<Head(q)>> \in Seq(R)
            BY <4>1
          <6> QED
            BY <6>1 DEF Frame, Call, Hows
        <5>3. Below \in Seq(Frame(R))
          BY <3>2 DEF Below
        <5>4. step \in Seq(Frame(R))
          <6>1. TellAll(Tail(q)) \in Frame(R)
            BY <4>1 DEF Frame, TellAll
          <6> QED
            BY <6>1 DEF Step
        <5> HIDE DEF step, call
        <5> QED
          BY <5>1, <5>2, <5>3, <5>4
      <4> QED
        BY <4>4, <4>5
    <3> QED
      BY <3>4, <3>5
  <2>5. CASE Connected
    <3>1. frames' = Step(Resume(conn)) \o frames
      BY <2>5 DEF Connected
    <3>2. Records(conn) \subseteq Held
      BY DEF Held
    <3>3. Seen(Step(Resume(conn)) \o frames, Held, answered)
      <4>1. CASE conn = <<>>
        <5>1. Step(Resume(conn)) = <<>> /\ <<>> \o frames = frames
          BY <4>1, PlainBase DEF Step, Resume
        <5> QED
          BY <2>2, <5>1
      <4>2. CASE conn # <<>>
        <5>1. Head(conn) \in R /\ Head(conn) \in Held
          <6>0. conn \in Seq(R)
            BY PlainBase
          <6>1. Head(conn) \in R
            BY <4>2, <6>0
          <6>2. Head(conn) \in Records(conn)
            BY <4>2, <6>1, PlainBase, RecordsOf
          <6> QED
            BY <3>2, <6>1, <6>2
        <5> QED
          BY <2>2, <3>2, <5>1, PlainBase, SeenMade
      <4> QED
        BY <4>1, <4>2
    <3> QED
      BY <3>1, <3>3
  <2> QED
    BY <2>3, <2>4, <2>5
<1> QED
  BY <1>1, <1>2, PlainFrames

(* sendRequest, when there is no tunnel: S has the record, which is not in the *)
(* queue.                                                                   *)
LEMMA SendsPlain ==
  ASSUME PlainInv, NEW r \in Recs(tunnel), NEW rest \in Seq(Frame(Recs(tunnel))), NEW S, NEW n,
         SendRequest(r, <<>>, rest),
         MatchedIn(n, S, Line, conn, resp, rest, answered),
         r \in S, answered[r.id] = "none", r.id \notin Ids(resp), buffer' = buffer
  PROVE  MatchedIn(n, S, Line', conn', resp', frames', answered)
<1>1. /\ tunnel = FALSE /\ r \in Record /\ r.id # HTTP
      /\ conn \in Seq(Recs(tunnel)) /\ resp \in Seq(Record) /\ asked \in Seq(Record)
      /\ buffer \in Seq(Messages) /\ wire \in Seq(Messages) /\ Recs(tunnel) \in SUBSET Record
  BY PlainBase
<1>2. /\ Numbers(S, n) /\ Records(conn) \subseteq S /\ Records(resp) \subseteq S
      /\ InOrder(Line, resp) /\ Present(Line, resp) /\ Matching(Line, answered)
      /\ Unanswered(Records(conn), answered) /\ Seen(rest, S, answered)
  BY DEF MatchedIn
<1>3. Seen(<<Call(r, "error")>> \o rest, S, answered)
  <2>1. <<>> \in Seq(Recs(tunnel)) /\ Records(<<>>) = {} /\ 0 \in Nat
    BY DEF Records
  <2> QED
    BY <1>1, <1>2, <2>1, SeenMade
<1>4. Records(<<r>>) = {r} /\ Records(Append(conn, r)) = Records(conn) \cup {r}
      /\ Records(Append(resp, r)) = Records(resp) \cup {r}
  <2>1. Records(<<r>>) = {r} /\ Records(Append(conn, r)) = Records(conn) \cup {r}
    BY <1>1, RecordsOf
  <2>2. Record \in SUBSET Record
    OBVIOUS
  <2>3. Records(Append(resp, r)) = Records(resp) \cup {r}
    BY <1>1, <2>2, RecordsOf
  <2> QED
    BY <2>1, <2>3
<1>5. CASE /\ asked' = asked /\ wire' = wire /\ resp' = resp
           /\ conn' \in {conn, <<r>>, Append(conn, r)}
           /\ frames' = rest \/ frames' = <<Call(r, "error")>> \o rest
  <2>1. Line' = Line
    BY <1>5 DEF Line
  <2>2. Records(conn') \subseteq Records(conn) \cup {r}
    BY <1>4, <1>5
  <2>3. Unanswered(Records(conn'), answered) /\ Records(conn') \subseteq S
    BY <1>2, <2>2 DEF Unanswered
  <2>4. Seen(frames', S, answered)
    BY <1>2, <1>3, <1>5
  <2> QED
    BY <1>2, <1>5, <2>1, <2>3, <2>4 DEF MatchedIn
<1>6. CASE Transmit(r) /\ wire' = wire /\ conn' = conn /\ frames' = rest
  <2>1. asked' = Append(asked, r) /\ resp' = Append(resp, r)
    BY <1>6 DEF Transmit
  <2>2. /\ InOrder(Join(buffer, wire, Append(asked, r)), Append(resp, r))
        /\ Present(Join(buffer, wire, Append(asked, r)), Append(resp, r))
        /\ Matching(Join(buffer, wire, Append(asked, r)), answered)
    BY <1>1, <1>2, Transmitted DEF Line
  <2>3. Line' = Join(buffer, wire, Append(asked, r))
    BY <1>6, <2>1 DEF Line
  <2> QED
    BY <1>2, <1>4, <1>6, <2>1, <2>2, <2>3 DEF MatchedIn
<1>7. CASE Enqueue(r, <<>>, rest)
  BY <1>5, <1>7 DEF Enqueue, socks
<1>8. CASE Open(r, <<>>, rest)
  BY <1>5, <1>8 DEF Open, Fail, socks
<1>9. CASE Tunnel(r, <<>>, rest) \/ TunnelFails(r, <<>>, rest)
  BY <1>1, <1>9 DEF Tunnel, TunnelFails, NeedsTunnel
<1>10. CASE Emit(r, <<>>, rest)
  BY <1>5, <1>6, <1>10 DEF Emit, Fail, Opened
<1> QED
  BY <1>7, <1>8, <1>9, <1>10 DEF SendRequest

LEMMA SendsFlat ==
  ASSUME PlainInv, NEW r, NEW rest, SendRequest(r, <<>>, rest)
  PROVE  tun' = <<>> /\ astray' = astray
<1>1. tunnel = FALSE
  BY PlainBase
<1> QED
  BY <1>1 DEF SendRequest, Enqueue, Open, Tunnel, TunnelFails, Emit, Fail, NeedsTunnel, flaws

(* A new number is nobody's.                                                *)
LEMMA NewNumber ==
  ASSUME NEW S, NEW n \in Nat, Numbers(S, n), NEW r \in Record, r.cseq = n + 1
  PROVE  Numbers(S \cup {r}, n + 1)
<1>1. \A x \in S : x.cseq \in Nat /\ x.cseq <= n /\ 0 < x.cseq
  BY DEF Numbers, Record
<1>2. \A x \in S \cup {r} : 0 < x.cseq /\ x.cseq <= n + 1
  BY <1>1
<1>3. \A x \in S : x.cseq # r.cseq
  BY <1>1
<1> QED
  BY <1>2, <1>3 DEF Numbers

(* More records may be held.                                                *)
LEMMA SeenMore ==
  ASSUME NEW fs, NEW S, NEW T, NEW ans, Seen(fs, S, ans), S \subseteq T
  PROVE  Seen(fs, T, ans)
BY DEF Seen

LEMMA ResumePlain ==
  ASSUME PlainInv, ResumeNext \/ DrainNext PROVE Plain'
<1> DEFINE R == Recs(tunnel)
<1>1. CASE ResumeNext
  <2> DEFINE f == Head(frames)  q == f.todo  rest == Step(Resume(Tail(q))) \o Below
  <2>1. /\ frames # <<>> /\ f.k = "resume" /\ SendRequest(Head(q), tun, rest)
        /\ UNCHANGED <<tunnel, fCSeq, buffer, odd, history>>
    BY <1>1 DEF ResumeNext, Top
  <2>2. tun = <<>> /\ OwnInv
    BY PlainBase
  <2>3. Todo(f) = q /\ q \in Seq(R) /\ q # <<>>
    <3>1. f \in Frame(R) /\ Filled(f) /\ Good(R, Todo(f))
      BY <2>1, <2>2, Topmost
    <3>2. Todo(f) = q
      BY <2>1, <3>1, PlainBase, Lists1
    <3> QED
      BY <2>1, <3>1, <3>2 DEF Good, Filled
  <2>4. Head(q) \in R /\ Tail(q) \in Seq(R)
    BY <2>3
  <2>5. ASSUME ~astray PROVE MatchedIn(fCSeq', Held, Line', conn', resp', frames', answered)
    <3>1. MatchedIn(fCSeq, Held, Line, conn, resp, frames, answered)
      BY <2>5 DEF PlainInv, Plain, Matched
    <3>2. /\ Seen(Below, Held, answered) /\ Records(Todo(f)) \subseteq Held
          /\ Unanswered(Records(Todo(f)), answered) /\ Below \in Seq(Frame(R))
      <4>1. Seen(frames, Held, answered)
        BY <3>1 DEF MatchedIn
      <4> QED
        BY <2>1, <4>1, PlainBase, SeenPop DEF Below
    <3>3. /\ Records(Tail(q)) \subseteq Records(q) /\ Head(q) \in Records(q)
      BY <2>3, <2>4, PlainBase, RecordsOf
    <3>4. /\ Head(q) \in Held /\ Records(Tail(q)) \subseteq Held
          /\ answered[Head(q).id] = "none" /\ Unanswered(Records(Tail(q)), answered)
      BY <2>3, <3>2, <3>3 DEF Unanswered
    <3>5. Seen(rest, Held, answered)
      <4> HIDE DEF q
      <4> QED
        BY <2>4, <3>2, <3>4, PlainBase, SeenMade
    <3>6. rest \in Seq(Frame(R))
      <4>1. Resume(Tail(q)) \in Frame(R)
        BY <2>4 DEF Frame, Resume
      <4>2. Step(Resume(Tail(q))) \in Seq(Frame(R))
        BY <4>1 DEF Step
      <4> QED
        BY <3>2, <4>2
    <3>7. Head(q).id \notin Ids(resp)
      <4>1. Head(q).id \in Ids(q)
        <5>1. Head(q).id # HTTP
          BY <2>4, PlainBase
        <5> HIDE DEF q
        <5>2. 1 \in 1..Len(q) /\ q[1] = Head(q)
          BY <2>3
        <5> QED
          BY <5>1, <5>2, Listed
      <4> QED
        BY <2>1, <2>2, <2>3, <4>1, Topmost DEF All
    <3> HIDE DEF rest, q
    <3>8. MatchedIn(fCSeq, Held, Line, conn, resp, rest, answered)
      BY <3>1, <3>5 DEF MatchedIn
    <3>9. SendRequest(Head(q), <<>>, rest) /\ buffer' = buffer
      BY <2>1, <2>2
    <3>10. MatchedIn(fCSeq, Held, Line', conn', resp', frames', answered)
      BY <2>4, <3>4, <3>6, <3>7, <3>8, <3>9, SendsPlain
    <3> QED
      BY <2>1, <3>10
  <2>6. tun' = <<>> /\ astray' = astray
    <3> HIDE DEF rest, q
    <3> QED
      BY <2>1, <2>2, SendsFlat
  <2> QED
    BY <2>1, <2>5, <2>6, PlainBy DEF history
<1>2. CASE DrainNext
  <2>1. /\ frames # <<>> /\ frames' = Tail(frames)
        /\ UNCHANGED <<tunnel, conn, tun, resp, buffer, wire, asked, fCSeq, sent, answered, astray>>
    BY <1>2, PlainBase DEF DrainNext, Top, Below, socks, queues, history, flaws
  <2>2. ASSUME ~astray PROVE Seen(frames', Held, answered)
    <3>1. Seen(frames, Held, answered)
      BY <2>2 DEF PlainInv, Plain, Matched, MatchedIn
    <3> QED
      BY <2>1, <3>1, PlainBase, SeenPop
  <2> QED
    BY <2>1, <2>2, PlainFrames
<1> QED
  BY <1>1, <1>2

LEMMA ResendPlain ==
  ASSUME PlainInv, ResendCommand PROVE Plain'
<1> DEFINE R == Recs(tunnel)  f == Head(frames)  r == Head(f.todo)  s == Renumbered(r)
           S == Held \cup {s}
<1>1. /\ frames # <<>> /\ f.k = "resend" /\ UNCHANGED <<tunnel, buffer, odd, history>>
      /\ fCSeq' = (IF r.id = HTTP THEN fCSeq ELSE fCSeq + 1)
      /\ SendRequest(s, tun, Below)
  BY DEF ResendCommand, Top
<1>2. tun = <<>> /\ OwnInv /\ fCSeq \in Nat
  BY PlainBase DEF OwnInv, Typed
<1>3. Todo(f) = f.todo /\ f.todo \in Seq(R) /\ f.todo # <<>>
  <2>1. f \in Frame(R) /\ Filled(f) /\ Good(R, Todo(f))
    BY <1>1, <1>2, Topmost
  <2>2. Todo(f) = f.todo
    BY <1>1, <2>1, PlainBase, Lists1
  <2> QED
    BY <1>1, <2>1, <2>2 DEF Good, Filled
<1>4. r \in R
  BY <1>3
<1>5. r.id # HTTP /\ r.id \in Requests /\ r \in Record
  BY <1>4, PlainBase
<1>6. s \in R /\ s \in Record /\ s.id = r.id /\ s.cseq = fCSeq + 1
  <2>1. r = [id |-> r.id, cseq |-> r.cseq] /\ r.id \in {HTTP} \cup Requests
    BY <1>5 DEF Record
  <2>2. fCSeq + 1 \in Nat
    BY <1>2
  <2>3. [r EXCEPT !.cseq = fCSeq + 1] = [id |-> r.id, cseq |-> fCSeq + 1]
    BY <2>1
  <2>4. s = [id |-> r.id, cseq |-> fCSeq + 1]
    BY <1>5, <2>3 DEF Renumbered
  <2>5. [id |-> r.id, cseq |-> fCSeq + 1] \in R /\ [id |-> r.id, cseq |-> fCSeq + 1] \in Record
    BY <1>5, <2>1, <2>2 DEF Recs, Record
  <2> QED
    BY <2>4, <2>5
<1>7. ASSUME ~astray PROVE MatchedIn(fCSeq', S, Line', conn', resp', frames', answered)
  <2>1. MatchedIn(fCSeq, Held, Line, conn, resp, frames, answered)
    BY <1>7 DEF PlainInv, Plain, Matched
  <2>2. /\ Seen(Below, Held, answered) /\ Unanswered(Records(Todo(f)), answered)
        /\ Below \in Seq(Frame(R))
    <3>1. Seen(frames, Held, answered)
      BY <2>1 DEF MatchedIn
    <3> QED
      BY <1>1, <3>1, PlainBase, SeenPop DEF Below
  <2>3. r \in Records(f.todo)
    BY <1>3, <1>4, PlainBase, RecordsOf
  <2>4. answered[s.id] = "none"
    BY <1>3, <1>6, <2>2, <2>3 DEF Unanswered
  <2>5. s.id \notin Ids(resp)
    <3>1. r.id \in Ids(f.todo)
      <4>1. 1 \in 1..Len(f.todo) /\ f.todo[1] = r
        BY <1>3
      <4> QED
        BY <1>5, <4>1, Listed
    <3> QED
      BY <1>1, <1>2, <1>3, <1>6, <3>1, Topmost DEF All
  <2> HIDE DEF r, s
  <2>6. fCSeq' = fCSeq + 1
    BY <1>1, <1>5
  <2>7. Numbers(S, fCSeq + 1)
    <3>1. Numbers(Held, fCSeq)
      BY <2>1 DEF MatchedIn
    <3> QED
      BY <1>2, <1>6, <3>1, NewNumber
  <2>8. Seen(Below, S, answered) /\ s \in S /\ Held \subseteq S
    BY <2>2, SeenMore
  <2> HIDE DEF S
  <2>9. MatchedIn(fCSeq + 1, S, Line, conn, resp, Below, answered)
    BY <2>1, <2>7, <2>8 DEF MatchedIn
  <2>10. SendRequest(s, <<>>, Below) /\ buffer' = buffer
    BY <1>1, <1>2
  <2>11. MatchedIn(fCSeq + 1, S, Line', conn', resp', frames', answered)
    BY <1>6, <2>2, <2>4, <2>5, <2>8, <2>9, <2>10, SendsPlain
  <2> QED
    BY <2>6, <2>11
<1>8. tun' = <<>> /\ astray' = astray
  <2> HIDE DEF s
  <2> QED
    BY <1>1, <1>2, SendsFlat
<1> HIDE DEF S
<1> QED
  BY <1>1, <1>7, <1>8, PlainBy DEF history

(* A request that is made: its record has the next number, and no answer.     *)
LEMMA MakePlain ==
  ASSUME PlainInv, NEW r \in Requests, Make(r) PROVE Plain'
<1> DEFINE R == Recs(tunnel)  rec == [id |-> r, cseq |-> fCSeq + 1]  S == Held \cup {rec}
<1>1. /\ r = Cardinality(sent) + 1 /\ sent' = sent \cup {r} /\ fCSeq' = fCSeq + 1
      /\ SendRequest(rec, tun, frames)
      /\ UNCHANGED <<tunnel, buffer, odd, answered, told>>
  BY DEF Make
<1>2. tun = <<>> /\ OwnInv /\ fCSeq \in Nat
  BY PlainBase DEF OwnInv, Typed
<1>3. r \notin sent
  <2>1. PICK n \in 0..MaxRequests : sent = 1..n
    BY <1>2 DEF OwnInv
  <2>2. Cardinality(1..n) = n
    BY <2>1, FS_Interval
  <2> QED
    BY <1>1, <2>1, <2>2
<1>4. r # HTTP
  BY DEF Requests, HTTP
<1>5. rec \in R /\ rec \in Record /\ rec.id = r /\ rec.cseq = fCSeq + 1
  BY <1>2, <1>4 DEF Recs, Record
<1>6. (~astray => answered[r] = "none") /\ r \notin Ids(resp)
  BY <1>2, <1>3 DEF PlainInv, Plain, OwnInv, All
<1> HIDE DEF rec
<1>7. ASSUME ~astray PROVE MatchedIn(fCSeq', S, Line', conn', resp', frames', answered)
  <2>1. MatchedIn(fCSeq, Held, Line, conn, resp, frames, answered)
    BY <1>7 DEF PlainInv, Plain, Matched
  <2>2. Numbers(S, fCSeq + 1)
    <3>1. Numbers(Held, fCSeq)
      BY <2>1 DEF MatchedIn
    <3> QED
      BY <1>2, <1>5, <3>1, NewNumber
  <2>3. Seen(frames, S, answered) /\ rec \in S /\ Held \subseteq S
    <3>1. Seen(frames, Held, answered)
      BY <2>1 DEF MatchedIn
    <3> QED
      BY <3>1, SeenMore
  <2> HIDE DEF S
  <2>4. MatchedIn(fCSeq + 1, S, Line, conn, resp, frames, answered)
    BY <2>1, <2>2, <2>3 DEF MatchedIn
  <2>5. SendRequest(rec, <<>>, frames) /\ buffer' = buffer /\ frames \in Seq(Frame(R))
    BY <1>1, <1>2, PlainBase
  <2>6. answered[rec.id] = "none" /\ rec.id \notin Ids(resp)
    BY <1>5, <1>6, <1>7
  <2>7. MatchedIn(fCSeq + 1, S, Line', conn', resp', frames', answered)
    BY <1>5, <2>3, <2>4, <2>5, <2>6, SendsPlain
  <2> QED
    BY <1>1, <2>7
<1>8. tun' = <<>> /\ astray' = astray
  BY <1>1, <1>2, SendsFlat
<1>9. ASSUME ~astray' PROVE Matched'
  <2>1. MatchedIn(fCSeq', S, Line', conn', resp', frames', answered')
    BY <1>1, <1>7, <1>8, <1>9
  <2>2. MatchedIn(fCSeq', Records(conn') \cup Records(resp') \cup RecordsIn(frames'),
                  Line', conn', resp', frames', answered')
    BY <2>1, MatchedBy
  <2> QED
    BY <2>2 DEF Matched, Held
<1> QED
  BY <1>1, <1>8, <1>9 DEF PlainInv, Plain

(* A request that the server owes an answer waits for it.                    *)
LEMMA AskedWaits ==
  ASSUME PlainInv, ~astray, asked # <<>>
  PROVE  /\ Head(asked) \in Recs(tunnel) /\ Head(asked).id \in Ids(resp)
         /\ Head(asked).id \in Requests /\ Head(asked).id \in sent
         /\ answered[Head(asked).id] = "none"
<1> DEFINE r == Head(asked)
<1>1. r \in Recs(tunnel) /\ r \in Record /\ r.id # HTTP /\ r.id \in Requests /\ Len(asked) \in Nat
  <2>1. asked \in Seq(Recs(tunnel))
    BY PlainBase
  <2>2. r \in Recs(tunnel) /\ Len(asked) \in Nat
    BY <2>1
  <2> QED
    BY <2>2, PlainBase
<1>2. Matched /\ OwnInv
  BY DEF PlainInv, Plain
<1>3. Present(Line, resp) /\ Matching(Line, answered)
  BY <1>2 DEF Matched, MatchedIn
<1>4. PICK n \in 1..Len(Line) : Line[n] = r
  <2>1. buffer \in Seq(Messages) /\ wire \in Seq(Messages) /\ asked \in Seq(Record)
    BY PlainBase
  <2>2. /\ Len(Line) = Len(buffer) + Len(wire) + Len(asked)
        /\ \A i \in 1..Len(asked) : Line[(Len(buffer) + Len(wire)) + i] = asked[i]
    BY <2>1, JoinAt DEF Line
  <2>3. 1 \in 1..Len(asked) /\ asked[1] = r
    BY <2>1
  <2>4. (Len(buffer) + Len(wire)) + 1 \in 1..Len(Line)
    BY <2>1, <2>2, <2>3
  <2> QED
    BY <2>2, <2>3, <2>4
<1>5. Due(r)
  BY <1>1, DueTyped
<1>6. r.id \in Ids(resp)
  <2>1. PICK a \in 1..Len(resp) : resp[a].id = r.id
    BY <1>3, <1>4, <1>5 DEF Present
  <2> QED
    BY <1>1, <2>1, Listed
<1>7. answered[r.id] = "none"
  BY <1>1, <1>3, <1>4, <1>5, NoHead DEF Matching, Says
<1>8. r.id \in sent
  BY <1>2, <1>6 DEF OwnInv, All
<1> QED
  BY <1>1, <1>6, <1>7, <1>8

(* A record in a frame is in somebody's hands.                               *)
LEMMA InHands ==
  ASSUME PlainInv
  PROVE  /\ \A x \in RecordsIn(frames) : x.id \in Hands(frames) /\ x.id \in Requests
         /\ \A x \in Sending(frames) : x.id \in Hands(frames) /\ x.id \in Requests
         /\ \A i \in 1..Len(frames) :
              frames[i].k = "call" => /\ Head(frames[i].todo).id \in Hands(frames)
                                      /\ Head(frames[i].todo).id \in Requests
<1> DEFINE R == Recs(tunnel)
<1>1. \A i \in 1..Len(frames) : frames[i] \in Frame(R) /\ Todo(frames[i]) \in Seq(R) /\ Filled(frames[i])
  <2> TAKE i \in 1..Len(frames)
  <2>0. frames \in Seq(Frame(R))
    BY PlainBase
  <2>1. frames[i] \in Frame(R)
    BY <2>0
  <2>2. Stack(R, frames)
    BY PlainBase, Base
  <2> QED
    BY <2>1, <2>2, PlainBase, Lists1 DEF Stack
<1>2. ASSUME NEW i \in 1..Len(frames), NEW j \in 1..Len(Todo(frames[i]))
      PROVE  /\ Todo(frames[i])[j].id \in Hands(frames)
             /\ Todo(frames[i])[j].id \in Requests
  <2>1. Todo(frames[i])[j] \in R
    BY <1>1
  <2>2. Todo(frames[i])[j].id \in Requests /\ Todo(frames[i])[j].id # HTTP
    BY <2>1, PlainBase
  <2>3. Todo(frames[i])[j].id \in Ids(Todo(frames[i]))
    BY <2>2, Listed
  <2> QED
    BY <2>2, <2>3 DEF Hands
<1>3. \A x \in RecordsIn(frames) : x.id \in Hands(frames) /\ x.id \in Requests
  BY <1>2 DEF RecordsIn, Records
<1>4. \A x \in Sending(frames) : x.id \in Hands(frames) /\ x.id \in Requests
  BY <1>2 DEF Sending, Records
<1>5. ASSUME NEW i \in 1..Len(frames), frames[i].k = "call"
      PROVE  Head(frames[i].todo).id \in Hands(frames) /\ Head(frames[i].todo).id \in Requests
  <2>1. Todo(frames[i]) = frames[i].todo /\ Todo(frames[i]) \in Seq(R) /\ Todo(frames[i]) # <<>>
    BY <1>1, <1>5, PlainBase, Lists1 DEF Filled
  <2> DEFINE q == Todo(frames[i])
  <2>2. 1 \in 1..Len(q) /\ Head(q) = q[1]
    <3>1. q \in Seq(R) /\ q # <<>>
      BY <2>1
    <3> HIDE DEF q
    <3> QED
      BY <3>1
  <2> QED
    BY <1>2, <2>1, <2>2
<1> QED
  BY <1>3, <1>4, <1>5

(* The server serves the next request: what it says is v, or nothing.         *)
LEMMA ServedPlain ==
  ASSUME PlainInv, asked # <<>>, NEW v \in Seq(Messages),
         asked' = Tail(asked), wire' = wire \o v,
         UNCHANGED <<tunnel, fCSeq, tun, conn, resp, buffer, frames, sent, astray>>,
         \A q \in Requests : q # Head(asked).id => answered'[q] = answered[q],
         \A j \in 1..Len(v) : Due(v[j]) =>
           /\ j = 1 /\ v[j].cseq = Head(asked).cseq /\ v[j].id = Head(asked).id
           /\ answered'[Head(asked).id] = Says(v[j])
  PROVE  Plain'
<1> DEFINE r == Head(asked)
<1>0. tunnel' = FALSE /\ tun' = <<>>
  BY PlainBase
<1>1. ASSUME ~astray PROVE Matched' /\ \A q \in Requests \ sent : answered'[q] = "none"
  <2>1. MatchedIn(fCSeq, Held, Line, conn, resp, frames, answered)
    BY <1>1 DEF PlainInv, Plain, Matched
  <2>2. r \in Recs(tunnel) /\ r.id \in Ids(resp) /\ r.id \in Requests /\ r.id \in sent
    BY <1>1, AskedWaits
  <2>3. \A q \in Requests \ sent : answered'[q] = "none"
    BY <1>1, <2>2 DEF PlainInv, Plain
  <2>4. /\ buffer \in Seq(Messages) /\ wire \in Seq(Messages) /\ asked \in Seq(Record)
        /\ OwnInv /\ Once(resp) /\ Len(resp) \in Nat
    BY PlainBase DEF Good
  <2> DEFINE l == Line  k == Join(buffer, wire \o v, Tail(asked))
  <2>5. Line' = k
    BY DEF Line
  <2>6. InOrder(l, resp) /\ Present(l, resp) /\ Matching(l, answered)
    BY <2>1 DEF MatchedIn
  <2>7. InOrder(k, resp)
    BY <2>4, <2>6, Served DEF Line
  <2>8. Present(k, resp)
    BY <2>4, <2>6, Served DEF Line
  <2>9. PICK n \in 1..Len(l) :
          /\ l[n] = r
          /\ \A i \in 1..Len(k) : (\E j \in 1..Len(l) : j # n /\ k[i] = l[j])
                                    \/ (\E j \in 1..Len(v) : k[i] = v[j])
    BY <2>4, Served, ZenonT(60) DEF Line
  <2>10. Len(l) \in Nat /\ l \in Seq(Messages \cup Record)
    <3>1. l \in Seq(Messages \cup Record)
      BY <2>4, JoinAt DEF Line
    <3> QED
      BY <3>1
  <2>11. Due(r) /\ r.id # HTTP
    BY <2>2, PlainBase, DueTyped
  <2> HIDE DEF l, k
  <2>12. Matching(k, answered')
    <3> SUFFICES ASSUME NEW i \in 1..Len(k), Due(k[i]) PROVE answered'[k[i].id] = Says(k[i])
      BY DEF Matching
    <3>1. CASE \E j \in 1..Len(l) : j # n /\ k[i] = l[j]
      <4>1. PICK j \in 1..Len(l) : j # n /\ k[i] = l[j]
        BY <3>1
      <4>2. l[n].id # l[j].id
        BY <2>4, <2>6, <2>9, <2>10, <2>11, <4>1, DueOnce
      <4>3. l[j].id \in Requests
        <5>1. PICK a \in 1..Len(resp) : resp[a].id = l[j].id
          BY <2>6, <4>1 DEF Present
        <5>0. resp \in Seq(Recs(tunnel))
          BY PlainBase
        <5>2. resp[a] \in Recs(tunnel)
          BY <5>0
        <5> QED
          BY <5>1, <5>2, PlainBase
      <4> QED
        BY <2>6, <2>9, <4>1, <4>2, <4>3, SMTT(60) DEF Matching
    <3>2. CASE \E j \in 1..Len(v) : k[i] = v[j]
      BY <3>2
    <3> QED
      BY <2>9, <3>1, <3>2
  <2>13. /\ Ids(conn) \cap Ids(resp) = {} /\ Ids(resp) \cap Hands(frames) = {}
    BY <2>4, Base DEF Owned
  <2>14. Unanswered(Records(conn), answered')
    <3> SUFFICES ASSUME NEW i \in 1..Len(conn) PROVE answered'[conn[i].id] = "none"
      BY DEF Unanswered, Records
    <3>0. conn \in Seq(Recs(tunnel))
      BY PlainBase
    <3>1. conn[i] \in Recs(tunnel)
      BY <3>0
    <3>2. conn[i].id \in Ids(conn) /\ conn[i].id \in Requests
      BY <3>1, PlainBase, Listed
    <3>3. answered[conn[i].id] = "none"
      BY <2>1 DEF MatchedIn, Unanswered, Records
    <3> QED
      BY <2>2, <2>13, <3>2, <3>3
  <2>15. Seen(frames, Held, answered')
    <3>1. Seen(frames, Held, answered)
      BY <2>1 DEF MatchedIn
    <3>2. ASSUME NEW q \in Requests, q \in Hands(frames) PROVE answered'[q] = answered[q]
      BY <2>2, <2>13, <3>2
    <3>3. Unanswered(Sending(frames), answered')
      BY <3>1, <3>2, InHands DEF Seen, Unanswered
    <3>4. Calls(frames, answered')
      BY <3>1, <3>2, InHands DEF Seen, Calls
    <3> QED
      BY <3>1, <3>3, <3>4 DEF Seen
  <2>16. MatchedIn(fCSeq', Held, Line', conn', resp', frames', answered')
    BY <2>1, <2>5, <2>7, <2>8, <2>12, <2>14, <2>15 DEF MatchedIn
  <2>17. Matched'
    BY <2>16, MatchedBy DEF Matched, Held
  <2> QED
    BY <2>3, <2>17
<1> QED
  BY <1>0, <1>1 DEF Plain

(* What is put on the wire behind w is the answer of the request r.          *)
Speaks(w, u, r, how) ==
  \E v \in Seq(Messages) :
     /\ u = w \o v
     /\ \A j \in 1..Len(v) : Due(v[j]) =>
          /\ j = 1 /\ v[j].cseq = r.cseq /\ v[j].id = r.id /\ Says(v[j]) = how

LEMMA Said ==
  ASSUME NEW kind \in {"ok", "fail", "again", "moved", "bad"}, NEW r \in Record, r.id # HTTP,
         NEW close \in BOOLEAN, NEW body \in BOOLEAN, Put(Head1(kind, r, close, body))
  PROVE  Speaks(wire, wire', r, IF kind \in {"ok", "fail"} THEN kind ELSE "none")
<1> SUFFICES \E v \in Seq(Messages) :
           /\ wire' = wire \o v
           /\ \A j \in 1..Len(v) : Due(v[j]) =>
                /\ j = 1 /\ v[j].cseq = r.cseq /\ v[j].id = r.id
                /\ Says(v[j]) = IF kind \in {"ok", "fail"} THEN kind ELSE "none"
  BY DEF Speaks
<1> DEFINE h == Head1(kind, r, close, body)
<1>1. h \in Heads /\ h.what = kind /\ h.id = r.id /\ h.cseq = r.cseq
  BY DEF Head1, Heads, Record
<1>2. h \in Messages /\ Body \in Messages /\ ~Due(Body)
  BY <1>1 DEF Messages, Due
<1>3. wire' = wire \o (IF h.body THEN <<h, Body>> ELSE <<h>>)
  BY DEF Put
<1> HIDE DEF h
<1>4. Says(h) = IF kind \in {"ok", "fail"} THEN kind ELSE "none"
  BY <1>1 DEF Says
<1>5. CASE h.body
  <2>1. <<h, Body>> \in Seq(Messages)
    BY <1>2
  <2>2. \A j \in 1..Len(<<h, Body>>) : Due(<<h, Body>>[j]) => j = 1 /\ <<h, Body>>[j] = h
    BY <1>2
  <2> QED
    BY <1>1, <1>3, <1>4, <1>5, <2>1, <2>2
<1>6. CASE ~h.body
  <2>1. <<h>> \in Seq(Messages)
    BY <1>2
  <2>2. \A j \in 1..Len(<<h>>) : j = 1 /\ <<h>>[j] = h
    OBVIOUS
  <2> QED
    BY <1>1, <1>3, <1>4, <1>6, <2>1, <2>2
<1> QED
  BY <1>5, <1>6

(* A final answer says how it ends; the others say nothing.                   *)
LEMMA SaidLast ==
  ASSUME NEW kind \in {"ok", "fail"}, NEW r \in Record, r.id # HTTP,
         NEW close \in BOOLEAN, NEW body \in BOOLEAN, Put(Head1(kind, r, close, body))
  PROVE  \E v \in Seq(Messages) :
           /\ wire' = wire \o v
           /\ \A j \in 1..Len(v) : Due(v[j]) =>
                /\ j = 1 /\ v[j].cseq = r.cseq /\ v[j].id = r.id /\ Says(v[j]) = kind
<1>1. kind \in {"ok", "fail", "again", "moved", "bad"} /\ kind \in {"ok", "fail"}
  OBVIOUS
<1>2. Speaks(wire, wire', r, IF kind \in {"ok", "fail"} THEN kind ELSE "none")
  BY <1>1, Said
<1>3. Speaks(wire, wire', r, kind)
  BY ONLY <1>1, <1>2
<1> QED
  BY ONLY <1>3 DEF Speaks

(* The server asks again, sends elsewhere or answers nonsense.                 *)
LEMMA SaidOnce ==
  ASSUME NEW kind \in {"again", "moved", "bad"}, NEW r \in Record, r.id # HTTP,
         NEW close \in BOOLEAN, NEW body \in BOOLEAN, Put(Head1(kind, r, close, body))
  PROVE  \E v \in Seq(Messages) :
           /\ wire' = wire \o v
           /\ \A j \in 1..Len(v) : Due(v[j]) =>
                /\ j = 1 /\ v[j].cseq = r.cseq /\ v[j].id = r.id /\ Says(v[j]) = "none"
<1>1. kind \in {"ok", "fail", "again", "moved", "bad"} /\ kind \notin {"ok", "fail"}
  OBVIOUS
<1>2. Speaks(wire, wire', r, IF kind \in {"ok", "fail"} THEN kind ELSE "none")
  BY <1>1, Said
<1>3. Speaks(wire, wire', r, "none")
  BY ONLY <1>1, <1>2
<1> QED
  BY ONLY <1>3 DEF Speaks

LEMMA ReplyPlain ==
  ASSUME PlainInv, Reply PROVE Plain'
<1> DEFINE r == Head(asked)
<1>1. /\ asked # <<>> /\ asked' = Tail(asked)
      /\ UNCHANGED <<tunnel, fCSeq, in, out, connecting, closed, tunneling, queues, buffer, frames,
                     sent, told, flaws>>
  BY DEF Reply
<1>2. UNCHANGED <<tunnel, fCSeq, tun, conn, resp, buffer, frames, sent, astray>>
  BY <1>1 DEF queues, flaws
<1>3. r \in Record /\ r.id # HTTP /\ r.id \in Requests
  <2>1. asked \in Seq(Recs(tunnel))
    BY PlainBase
  <2>2. r \in Recs(tunnel)
    BY <1>1, <2>1
  <2> QED
    BY <2>2, PlainBase
<1>4. answered \in [Requests -> {"none", "ok", "fail", "skip"}]
  BY PlainBase DEF OwnInv, Typed
<1>5. PICK body \in BOOLEAN, close \in BOOLEAN :
        \/ \E kind \in {"ok", "fail"} :
             /\ Put(Head1(kind, r, close, body))
             /\ answered' = IF r.id = HTTP THEN answered ELSE [answered EXCEPT ![r.id] = kind]
        \/ \E kind \in {"again", "moved", "bad"} :
             /\ Put(Head1(kind, r, close, body))
             /\ answered' = answered
  BY DEF Reply
<1> HIDE DEF r
<1>6. CASE \E kind \in {"ok", "fail"} :
             /\ Put(Head1(kind, r, close, body))
             /\ answered' = IF r.id = HTTP THEN answered ELSE [answered EXCEPT ![r.id] = kind]
  <2>1. PICK kind \in {"ok", "fail"} :
             /\ Put(Head1(kind, r, close, body))
             /\ answered' = IF r.id = HTTP THEN answered ELSE [answered EXCEPT ![r.id] = kind]
    BY <1>6
  <2>2. PICK v \in Seq(Messages) :
           /\ wire' = wire \o v
           /\ \A j \in 1..Len(v) : Due(v[j]) =>
                /\ j = 1 /\ v[j].cseq = r.cseq /\ v[j].id = r.id /\ Says(v[j]) = kind
    <3>2. Put(Head1(kind, r, close, body))
      BY <2>1
    <3> QED
      BY <1>3, <1>5, <2>1, <3>2, SaidLast
  <2>3. answered'[r.id] = kind /\ \A q \in Requests : q # r.id => answered'[q] = answered[q]
    BY <1>3, <1>4, <2>1
  <2> QED
    BY <1>1, <1>2, <2>2, <2>3, ServedPlain DEF r
<1>7. CASE \E kind \in {"again", "moved", "bad"} :
             /\ Put(Head1(kind, r, close, body))
             /\ answered' = answered
  <2>1. PICK kind \in {"again", "moved", "bad"} : Put(Head1(kind, r, close, body)) /\ answered' = answered
    BY <1>7
  <2>2. PICK v \in Seq(Messages) :
           /\ wire' = wire \o v
           /\ \A j \in 1..Len(v) : Due(v[j]) =>
                /\ j = 1 /\ v[j].cseq = r.cseq /\ v[j].id = r.id /\ Says(v[j]) = "none"
    <3>2. Put(Head1(kind, r, close, body))
      BY <2>1
    <3> QED
      BY <1>3, <1>5, <2>1, <3>2, SaidOnce
  <2>3. CASE astray
    BY <1>2, <2>3, PlainBase DEF Plain
  <2>4. CASE ~astray
    <3>1. answered'[r.id] = "none"
      BY <1>1, <2>1, <2>4, AskedWaits DEF r
    <3> QED
      BY <1>1, <1>2, <2>1, <2>2, <3>1, ServedPlain DEF r
  <2> QED
    BY <2>3, <2>4
<1> QED
  BY <1>5, <1>6, <1>7

LEMMA SkipPlain ==
  ASSUME PlainInv, Skip PROVE Plain'
<1>1. /\ asked # <<>> /\ asked' = Tail(asked) /\ wire' = wire
      /\ answered' = [answered EXCEPT ![Head(asked).id] = "skip"]
      /\ UNCHANGED <<tunnel, fCSeq, tun, conn, resp, buffer, frames, sent, astray>>
  BY DEF Skip, queues, flaws
<1>2. <<>> \in Seq(Messages) /\ Len(<<>>) = 0 /\ wire' = wire \o <<>>
  <2>1. wire \in Seq(Messages)
    BY PlainBase
  <2> QED
    BY <1>1, <2>1
<1>3. answered \in [Requests -> {"none", "ok", "fail", "skip"}]
  BY PlainBase DEF OwnInv, Typed
<1>4. \A q \in Requests : q # Head(asked).id => answered'[q] = answered[q]
  BY <1>1, <1>3
<1>5. \A j \in 1..Len(<<>>) : FALSE
  BY <1>2
<1> QED
  BY <1>1, <1>2, <1>4, <1>5, ServedPlain

(* The line and the queue change, nothing else that matters.                 *)
LEMMA PlainLine ==
  ASSUME PlainInv, UNCHANGED <<tunnel, tun, conn, resp, fCSeq, sent, answered, astray>>,
         ~astray => Seen(frames', Held, answered),
         ~astray => InOrder(Line', resp) /\ Present(Line', resp) /\ Matching(Line', answered)
  PROVE  Plain'
<1>1. ASSUME ~astray PROVE MatchedIn(fCSeq', Held, Line', conn', resp', frames', answered)
  <2>1. MatchedIn(fCSeq, Held, Line, conn, resp, frames, answered)
    BY <1>1 DEF PlainInv, Plain, Matched
  <2> QED
    BY <1>1, <2>1 DEF MatchedIn
<1> QED
  BY <1>1, PlainBase, PlainBy

LEMMA AskPlain ==
  ASSUME PlainInv, AskClient \/ Close PROVE Plain'
<1>1. /\ UNCHANGED <<tunnel, tun, conn, resp, fCSeq, sent, answered, astray, frames, buffer, asked>>
      /\ wire' = Append(wire, Ask) \/ wire' = wire
  BY DEF AskClient, Close, queues, history, flaws
<1>2. buffer \in Seq(Messages) /\ wire \in Seq(Messages) /\ asked \in Seq(Record)
  BY PlainBase
<1>3. ASSUME ~astray
      PROVE  /\ Seen(frames', Held, answered)
             /\ InOrder(Line', resp) /\ Present(Line', resp) /\ Matching(Line', answered)
  <2>1. /\ InOrder(Line, resp) /\ Present(Line, resp) /\ Matching(Line, answered)
        /\ Seen(frames, Held, answered)
    BY <1>3 DEF PlainInv, Plain, Matched, MatchedIn
  <2>2. CASE wire' = wire
    <3>1. Line' = Line
      BY <1>1, <2>2 DEF Line
    <3> QED
      BY <1>1, <2>1, <3>1
  <2>3. CASE wire' = Append(wire, Ask)
    <3> DEFINE v == <<Ask>>
    <3>1. Ask \in Messages /\ v \in Seq(Messages)
      BY DEF Messages
    <3>2. wire' = wire \o v
      BY <1>2, <2>3, <3>1, AppendIsConcat
    <3>3. \A j \in 1..Len(v) : ~Due(v[j])
      BY DEF Due
    <3> HIDE DEF v
    <3>4. Line' = Join(buffer, wire \o v, asked)
      BY <1>1, <3>2 DEF Line
    <3>5. InOrder(Line', resp)
      BY <1>2, <2>1, <3>1, <3>3, <3>4, AskedFor DEF Line
    <3>6. Present(Line', resp)
      BY <1>2, <2>1, <3>1, <3>3, <3>4, AskedFor DEF Line
    <3>7. \A i \in 1..Len(Line') : Due(Line'[i]) => \E j \in 1..Len(Line) : Line'[i] = Line[j]
      <4>1. \A i \in 1..Len(Join(buffer, wire \o v, asked)) :
              Due(Join(buffer, wire \o v, asked)[i])
                => \E j \in 1..Len(Join(buffer, wire, asked)) :
                     Join(buffer, wire \o v, asked)[i] = Join(buffer, wire, asked)[j]
        BY <1>2, <3>1, <3>3, AskedFor, SMTT(30)
      <4> QED
        BY <3>4, <4>1 DEF Line
    <3>8. Matching(Line', answered)
      BY <2>1, <3>7 DEF Matching
    <3> QED
      BY <1>1, <2>1, <3>5, <3>6, <3>8
  <2> QED
    BY <1>1, <2>2, <2>3
<1> QED
  BY <1>1, <1>3, PlainLine

LEMMA CallPlain ==
  ASSUME PlainInv, CallHandler PROVE Plain'
<1>1. /\ frames # <<>> /\ frames' = <<Handler>> \o Tail(frames)
      /\ UNCHANGED <<tunnel, tun, conn, resp, buffer, wire, asked, fCSeq, sent, answered, astray>>
  BY DEF CallHandler, Top, Below, socks, queues, flaws
<1>2. ASSUME ~astray PROVE Seen(frames', Held, answered)
  <2>1. Seen(frames, Held, answered)
    BY <1>2 DEF PlainInv, Plain, Matched, MatchedIn
  <2>2. Seen(Tail(frames), Held, answered) /\ Tail(frames) \in Seq(Frame(Recs(tunnel)))
    BY <1>1, <2>1, PlainBase, SeenPop
  <2>3. Handler \in Frame(Recs(tunnel)) /\ Todo(Handler) = <<>> /\ Handler.k = "handler"
    BY DEF Handler, Frame, Todo
  <2>4. Records(<<>>) = {}
    BY DEF Records
  <2>5. Seen(<<Handler>> \o Tail(frames), Held, answered)
    BY <2>2, <2>3, <2>4, PlainBase, SeenPush
  <2> QED
    BY <1>1, <2>5
<1> QED
  BY <1>1, <1>2, PlainFrames

(* There is no GET.                                                         *)
LEMMA NoGET ==
  ASSUME PlainInv, HandleGET PROVE FALSE
<1>1. /\ frames # <<>> /\ Head(frames).k = "call" /\ Head(Head(frames).todo).id = HTTP
  BY DEF HandleGET, Top
<1>2. OwnInv
  BY PlainBase
<1>3. Todo(Head(frames)) = Head(frames).todo /\ Head(frames).todo # <<>>
  BY <1>1, <1>2, Topmost, Base, Lists1 DEF Filled
<1>4. Head(Head(frames).todo) \in Recs(tunnel)
  BY <1>1, <1>2, <1>3, Topmost, Base, Dequeued
<1> QED
  BY <1>1, <1>4, PlainBase

(* The front of the line is gone, or all that is behind the buffer.           *)
LEMMA LineCut ==
  ASSUME PlainInv, NEW c \in Seq(Messages), NEW n \in Nat, Len(c) + n = Len(buffer),
         Ends(c, buffer, n),
         NEW v, NEW d, (v = wire /\ d = asked) \/ (v = <<>> /\ d = <<>>), NEW p, NEW ans
  PROVE  /\ InOrder(Line, p) => InOrder(Join(c, v, d), p)
         /\ Present(Line, p) => Present(Join(c, v, d), p)
         /\ Matching(Line, ans) => Matching(Join(c, v, d), ans)
         /\ Ends(Join(c, v, d), Line, n)
<1>1. buffer \in Seq(Messages) /\ wire \in Seq(Messages) /\ asked \in Seq(Record)
  BY PlainBase
<1>2. v \in Seq(Messages) /\ d \in Seq(Record)
  <2>1. <<>> \in Seq(Messages) /\ <<>> \in Seq(Record)
    OBVIOUS
  <2> QED
    BY <1>1, <2>1
<1>3. Ends(Join(c, v, d), Line, n)
  BY <1>1, <1>2, Cut DEF Line
<1> QED
  BY <1>3, CutKeeps

LEMMA FailsPlain ==
  ASSUME PlainInv, ConnectionFails PROVE Plain'
<1>1. /\ conn' = <<>> /\ asked' = <<>> /\ wire' = <<>> /\ frames' = Step(TellAll(conn)) \o frames
      /\ UNCHANGED <<tunnel, tun, resp, buffer, fCSeq, sent, answered, astray>>
  BY DEF ConnectionFails, ResetSockets, ForgetThem, history
<1>2. Line' = Join(buffer, <<>>, <<>>)
  BY <1>1 DEF Line
<1>3. ASSUME ~astray PROVE MatchedIn(fCSeq', Held, Line', conn', resp', frames', answered)
  <2>1. MatchedIn(fCSeq, Held, Line, conn, resp, frames, answered)
    BY <1>3 DEF PlainInv, Plain, Matched
  <2>2. /\ InOrder(Line, resp) => InOrder(Line', resp)
        /\ Present(Line, resp) => Present(Line', resp)
        /\ Matching(Line, answered) => Matching(Line', answered)
    <3>1. buffer \in Seq(Messages) /\ Len(buffer) \in Nat
      BY PlainBase
    <3>2. 0 \in Nat /\ Len(buffer) + 0 = Len(buffer) /\ Ends(buffer, buffer, 0)
      BY <3>1 DEF Ends
    <3> QED
      BY <1>2, <3>1, <3>2, LineCut
  <2>3. Records(<<>>) = {}
    BY DEF Records
  <2>4. Seen(frames', Held, answered)
    <3>1. Seen(frames, Held, answered) /\ Records(conn) \subseteq Held
      BY <2>1 DEF MatchedIn
    <3>2. CASE conn = <<>>
      <4>1. frames' = frames
        BY <1>1, <3>2, PlainBase DEF Step, TellAll
      <4> QED
        BY <3>1, <4>1
    <3>3. CASE conn # <<>>
      <4>1. frames' = <<TellAll(conn)>> \o frames
        BY <1>1, <3>3 DEF Step, TellAll
      <4>2. TellAll(conn) \in Frame(Recs(tunnel)) /\ Todo(TellAll(conn)) = conn /\ TellAll(conn).k = "tell"
        BY PlainBase DEF Frame, Todo, TellAll
      <4> QED
        BY <3>1, <4>1, <4>2, PlainBase, SeenPush
    <3> QED
      BY <3>2, <3>3
  <2> QED
    BY <1>1, <2>1, <2>2, <2>3, <2>4 DEF MatchedIn, Unanswered
<1> QED
  BY <1>1, <1>3, PlainBase, PlainBy

LEMMA ReadErrorPlain ==
  ASSUME PlainInv, ReadError PROVE Plain'
<1>1. /\ resp' = <<>> /\ buffer' = <<>> /\ asked' = <<>> /\ wire' = <<>>
      /\ frames' = Step(TellAll(resp)) \o frames
      /\ UNCHANGED <<tunnel, tun, conn, fCSeq, sent, answered, astray>>
  BY DEF ReadError, ResetSockets, ForgetThem, history
<1>2. Len(Line') = 0
  BY <1>1 DEF Line, Join
<1>3. ASSUME ~astray PROVE MatchedIn(fCSeq', Held, Line', conn', resp', frames', answered)
  <2>1. MatchedIn(fCSeq, Held, Line, conn, resp, frames, answered)
    BY <1>3 DEF PlainInv, Plain, Matched
  <2>2. InOrder(Line', resp') /\ Present(Line', resp') /\ Matching(Line', answered)
    BY <1>2 DEF InOrder, Present, Matching
  <2>3. Records(<<>>) = {}
    BY DEF Records
  <2>4. Seen(frames', Held, answered)
    <3>1. Seen(frames, Held, answered) /\ Records(resp) \subseteq Held
      BY <2>1 DEF MatchedIn
    <3>2. CASE resp = <<>>
      <4>1. frames' = frames
        BY <1>1, <3>2, PlainBase DEF Step, TellAll
      <4> QED
        BY <3>1, <4>1
    <3>3. CASE resp # <<>>
      <4>1. frames' = <<TellAll(resp)>> \o frames
        BY <1>1, <3>3 DEF Step, TellAll
      <4>2. TellAll(resp) \in Frame(Recs(tunnel)) /\ Todo(TellAll(resp)) = resp /\ TellAll(resp).k = "tell"
        BY PlainBase DEF Frame, Todo, TellAll
      <4> QED
        BY <3>1, <4>1, <4>2, PlainBase, SeenPush
    <3> QED
      BY <3>2, <3>3
  <2> QED
    BY <1>1, <2>1, <2>2, <2>3, <2>4 DEF MatchedIn
<1> QED
  BY <1>1, <1>3, PlainBase, PlainBy

(* Bytes come in: they go from the wire to the buffer.                       *)
LEMMA Received ==
  ASSUME PlainInv, Recv PROVE buffer' \o wire' = buffer \o wire
<1>2. PICK n \in 1..Len(wire) : /\ buffer' = buffer \o SubSeq(wire, 1, n)
                                /\ wire' = SubSeq(wire, n + 1, Len(wire))
  BY DEF Recv
<1>11. buffer \in Seq(Messages) /\ wire \in Seq(Messages) /\ Len(wire) \in Nat
  BY PlainBase
<1>12. SubSeq(wire, 1, n) \in Seq(Messages) /\ SubSeq(wire, n + 1, Len(wire)) \in Seq(Messages)
  BY <1>11
<1>13. SubSeq(wire, 1, n) \o SubSeq(wire, n + 1, Len(wire)) = wire
  <2>1. 1 \in 1..(Len(wire) + 1) /\ n \in (1 - 1)..Len(wire) /\ Len(wire) \in n..Len(wire)
    BY <1>11
  <2>2. SubSeq(wire, 1, n) \o SubSeq(wire, n + 1, Len(wire)) = SubSeq(wire, 1, Len(wire))
    BY <1>11, <2>1, ConcatAdjacentSubSeq
  <2> QED
    BY <1>11, <2>2, SubSeqFull
<1>14. (buffer \o SubSeq(wire, 1, n)) \o SubSeq(wire, n + 1, Len(wire)) = buffer \o wire
  <2>1. \A s, t, u \in Seq(Messages) : (s \o t) \o u = s \o (t \o u)
    BY ONLY ConcatAssociative
  <2> DEFINE s == SubSeq(wire, 1, n)  t == SubSeq(wire, n + 1, Len(wire))
  <2>2. s \in Seq(Messages) /\ t \in Seq(Messages) /\ s \o t = wire
    BY <1>12, <1>13
  <2> HIDE DEF s, t
  <2>3. (buffer \o s) \o t = buffer \o (s \o t)
    BY ONLY <1>11, <2>1, <2>2, Zenon
  <2>4. (buffer \o s) \o t = buffer \o wire
    BY <2>2, <2>3
  <2> QED
    BY <2>4 DEF s, t
<1> QED
  BY <1>2, <1>14

(* ... and stay in the line.                                     *)
LEMMA RecvPlain ==
  ASSUME PlainInv, Recv PROVE Plain'
<1>1. /\ UNCHANGED <<tunnel, tun, conn, resp, fCSeq, sent, answered, astray, asked>>
      /\ frames' = <<Parse(0)>> \o frames
  BY DEF Recv, queues, history, flaws
<1>3. Line' = Line
  BY <1>1, Received DEF Line, Join
<1>4. ASSUME ~astray
      PROVE  /\ Seen(frames', Held, answered)
             /\ InOrder(Line', resp) /\ Present(Line', resp) /\ Matching(Line', answered)
  <2>1. /\ InOrder(Line, resp) /\ Present(Line, resp) /\ Matching(Line, answered)
        /\ Seen(frames, Held, answered)
    BY <1>4 DEF PlainInv, Plain, Matched, MatchedIn
  <2>2. Parse(0) \in Frame(Recs(tunnel)) /\ Todo(Parse(0)) = <<>> /\ Parse(0).k = "parse"
    BY DEF Parse, Frame, Todo
  <2>3. Records(<<>>) = {}
    BY DEF Records
  <2>4. Seen(<<Parse(0)>> \o frames, Held, answered)
    BY <2>1, <2>2, <2>3, PlainBase, SeenPush
  <2> QED
    BY <1>1, <1>3, <2>1, <2>4
<1> QED
  BY <1>1, <1>4, PlainLine

(* handleIncomingRequest empties the buffer from its front.                  *)
LEMMA IncomingCuts ==
  ASSUME PlainInv, IncomingRequest
  PROVE  \E n \in Nat : /\ buffer' \in Seq(Messages) /\ Len(buffer') + n = Len(buffer)
                        /\ Ends(buffer', buffer, n)
<1>1. /\ frames # <<>> /\ Head(frames).k = "parse"
      /\ buffer' = SubSeq(buffer, Max({1, Len(buffer) - Head(frames).extra + 1}), Len(buffer))
  BY DEF IncomingRequest, Top
<1>2. buffer \in Seq(Messages) /\ Len(buffer) \in Nat /\ OwnInv /\ Len(buffer) >= 1
  <2>1. buffer \in Seq(Messages) /\ Len(buffer) \in Nat /\ OwnInv
    BY PlainBase
  <2> QED
    BY <2>1 DEF IncomingRequest
<1>3. PICK n \in Nat : /\ buffer' = SubSeq(buffer, n + 1, Len(buffer)) /\ n <= Len(buffer)
  <2> DEFINE e == Len(buffer) - Head(frames).extra + 1
  <2>1. Head(frames).extra \in Nat
    BY <1>1, <1>2, Topmost DEF Frame
  <2>2. e \in Int /\ e <= Len(buffer) + 1
    BY <1>2, <2>1
  <2> HIDE DEF e
  <2>3. \E x \in {1, e} : \A y \in {1, e} : x >= y
    <3>1. CASE e >= 1
      BY <2>2, <3>1
    <3>2. CASE ~(e >= 1)
      BY <2>2, <3>2
    <3> QED
      BY <3>1, <3>2
  <2>4. Max({1, e}) \in {1, e} /\ \A y \in {1, e} : Max({1, e}) >= y
    BY <2>3 DEF Max
  <2>5. Max({1, e}) - 1 \in Nat /\ (Max({1, e}) - 1) + 1 = Max({1, e}) /\ Max({1, e}) - 1 <= Len(buffer)
    BY <1>2, <2>2, <2>4
  <2>6. buffer' = SubSeq(buffer, Max({1, e}), Len(buffer))
    BY <1>1 DEF e
  <2> QED
    BY <2>5, <2>6
<1>4. /\ buffer' \in Seq(Messages) /\ Len(buffer') + n = Len(buffer)
      /\ Ends(buffer', buffer, n)
  <2>1. PICK c : c = buffer'
    OBVIOUS
  <2>2. c = SubSeq(buffer, n + 1, Len(buffer))
    BY <1>3, <2>1
  <2>3. c \in Seq(Messages) /\ Len(c) + n = Len(buffer) /\ \A i \in 1..Len(c) : c[i] = buffer[n + i]
    BY <1>2, <1>3, <2>2, SMTT(60)
  <2>4. Ends(c, buffer, n)
    BY <1>2, <2>3 DEF Ends
  <2> QED
    BY <2>1, <2>3, <2>4
<1> QED
  BY <1>4

LEMMA IncomingPlain ==
  ASSUME PlainInv, IncomingRequest PROVE Plain'
<1>1. /\ frames # <<>> /\ Head(frames).k = "parse" /\ frames' = Tail(frames)
      /\ UNCHANGED <<tunnel, tun, conn, resp, fCSeq, sent, answered, astray, asked, wire>>
      /\ buffer' = SubSeq(buffer, Max({1, Len(buffer) - Head(frames).extra + 1}), Len(buffer))
  BY DEF IncomingRequest, Top, Below, socks, queues, history
<1>4. PICK n \in Nat : /\ buffer' \in Seq(Messages) /\ Len(buffer') + n = Len(buffer)
                       /\ Ends(buffer', buffer, n)
  BY IncomingCuts
<1>5. Line' = Join(buffer', wire, asked)
  BY <1>1 DEF Line
<1>6. ASSUME ~astray
      PROVE  /\ Seen(frames', Held, answered)
             /\ InOrder(Line', resp) /\ Present(Line', resp) /\ Matching(Line', answered)
  <2>1. /\ InOrder(Line, resp) /\ Present(Line, resp) /\ Matching(Line, answered)
        /\ Seen(frames, Held, answered)
    BY <1>6 DEF PlainInv, Plain, Matched, MatchedIn
  <2>2. Seen(Tail(frames), Held, answered)
    BY <1>1, <2>1, PlainBase, SeenPop
  <2>3. InOrder(Line', resp) /\ Present(Line', resp) /\ Matching(Line', answered)
    BY <1>4, <1>5, <2>1, LineCut
  <2> QED
    BY <1>1, <2>2, <2>3
<1> QED
  BY <1>1, <1>6, PlainLine

(* A response finds the record of its own request, if none goes astray, and    *)
(* whatever is due behind it has its record behind that one.                 *)
LEMMA FindsOwn ==
  ASSUME PlainInv, ~astray, buffer # <<>>, IsHead(Head(buffer)), ~Astray(Head(buffer))
  PROVE  \E n \in 1..Len(resp) :
           /\ Found(Head(buffer)) = <<resp[n]>> /\ resp[n] \in Recs(tunnel)
           /\ resp[n].id = Head(buffer).id
           /\ Rest(Head(buffer)) = SubSeq(resp, n + 1, Len(resp))
           /\ answered[resp[n].id] = Says(Head(buffer)) /\ Head(buffer) \in Heads
           /\ \A i \in 1..Len(Line) : Due(Line[i]) =>
                \E a \in 1..Len(resp) : /\ a >= n /\ (i > 1 => a > n)
                                        /\ resp[a].cseq = Line[i].cseq /\ resp[a].id = Line[i].id
<1> DEFINE h == Head(buffer)  R == Recs(tunnel)
<1>1. /\ buffer \in Seq(Messages) /\ wire \in Seq(Messages) /\ asked \in Seq(Record) /\ OwnInv
      /\ R \in SUBSET Record /\ Good(R, resp)
  BY PlainBase
<1>2. h \in Heads /\ h.cseq \in Nat
  BY <1>1, HeadTyped
<1>3. resp \in Seq(R) /\ Len(resp) \in Nat /\ \A i \in 1..Len(resp) : resp[i] \in R /\ resp[i].cseq \in Nat
  <2>1. resp \in Seq(R)
    BY <1>1 DEF Good
  <2>2. \A i \in 1..Len(resp) : resp[i] \in R
    BY <2>1
  <2> QED
    BY <2>1, <2>2 DEF Recs, Record
<1>4. /\ InOrder(Line, resp) /\ Present(Line, resp) /\ Matching(Line, answered)
      /\ Numbers(Held, fCSeq) /\ Records(resp) \subseteq Held
  BY DEF PlainInv, Plain, Matched, MatchedIn
<1>5. 1 \in 1..Len(Line) /\ Line[1] = h /\ Len(Line) \in Nat
  <2>1. /\ Len(Line) = Len(buffer) + Len(wire) + Len(asked)
        /\ \A i \in 1..Len(buffer) : Line[i] = buffer[i]
    BY <1>1, JoinAt DEF Line
  <2>2. 1 \in 1..Len(buffer) /\ buffer[1] = h /\ Len(buffer) \in Nat /\ Len(wire) \in Nat /\ Len(asked) \in Nat
    BY <1>1
  <2> QED
    BY <2>1, <2>2
<1>6. Due(h)
  <2>1. h \in Messages \cup Record
    BY <1>2 DEF Messages
  <2> QED
    BY <1>2, <2>1, DueTyped
<1> HIDE DEF h
<1>7. PICK n \in 1..Len(resp) : resp[n].cseq = h.cseq /\ resp[n].id = h.id
  BY <1>4, <1>5, <1>6 DEF Present
<1>8. ASSUME NEW i \in 1..Len(resp) PROVE resp[i] \in Held /\ resp[i].cseq > 0
  <2>1. resp[i] \in Held
    BY <1>4 DEF Records
  <2> QED
    BY <1>4, <2>1 DEF Numbers
<1>9. h.cseq # 0
  BY <1>3, <1>7, <1>8
<1>10. \A i \in 1..(n - 1) : resp[i].cseq < h.cseq
  <2> SUFFICES ASSUME NEW i \in 1..(n - 1) PROVE resp[i].cseq < h.cseq
    OBVIOUS
  <2>1. i \in 1..Len(resp) /\ i < n
    BY <1>3
  <2>2. ~(resp[i].cseq > h.cseq)
    BY <1>7, <2>1 DEF Astray, h
  <2>3. resp[i].cseq # h.cseq
    <3> SUFFICES ASSUME resp[i].cseq = h.cseq PROVE FALSE
      OBVIOUS
    <3>1. resp[i].id = resp[n].id
      BY <1>4, <1>7, <1>8, <2>1 DEF Numbers
    <3>2. resp[n].id # HTTP
      BY <1>3, PlainBase
    <3>3. i = n
      BY <1>1, <2>1, <3>1, <3>2 DEF Good, Once
    <3> QED
      BY <2>1, <3>3
  <2> QED
    BY <1>2, <1>3, <2>1, <2>2, <2>3
<1>11. Taker(h.cseq) = n
  <2>1. resp[n].cseq >= h.cseq
    BY <1>2, <1>7
  <2>2. Taker(h.cseq) = IF h.cseq = 0 \/ resp[n].cseq = h.cseq THEN n ELSE n + 1
    BY <1>1, <1>2, <1>10, <2>1, TakerAt
  <2> QED
    BY <1>7, <2>2
<1>12. Found(h) = <<resp[n]>> /\ Rest(h) = SubSeq(resp, n + 1, Len(resp))
  <2>1. n \in DOMAIN resp
    BY <1>3
  <2> QED
    BY <1>11, <2>1 DEF Found, Rest
<1>13. answered[resp[n].id] = Says(h)
  BY <1>4, <1>5, <1>6, <1>7 DEF Matching
<1>14. ASSUME NEW i \in 1..Len(Line), Due(Line[i])
       PROVE  \E a \in 1..Len(resp) : /\ a >= n /\ (i > 1 => a > n)
                                      /\ resp[a].cseq = Line[i].cseq /\ resp[a].id = Line[i].id
  <2>1. CASE i = 1
    BY <1>3, <1>5, <1>7, <2>1
  <2>2. CASE i # 1
    <3>1. PICK a \in 1..Len(resp) : resp[a].cseq = Line[i].cseq /\ resp[a].id = Line[i].id
      BY <1>4, <1>14 DEF Present
    <3>2. 1 < i
      BY <1>5, <2>2
    <3>3. n < a
      BY <1>4, <1>5, <1>6, <1>7, <1>14, <3>1, <3>2 DEF InOrder
    <3>4. a >= n /\ a > n
      BY <1>3, <3>3
    <3> QED
      BY <3>1, <3>4
  <2> QED
    BY <2>1, <2>2
<1> QED
  BY <1>2, <1>3, <1>7, <1>12, <1>13, <1>14 DEF h

(* What a response leaves of the queue.                                      *)
LEMMA QueueRest ==
  ASSUME NEW R, NEW p \in Seq(R), NEW n \in 1..Len(p)
  PROVE  /\ Ends(SubSeq(p, n + 1, Len(p)), p, n)
         /\ SubSeq(p, n + 1, Len(p)) \in Seq(R) /\ Len(SubSeq(p, n + 1, Len(p))) + n = Len(p)
         /\ Ends(<<p[n]>> \o SubSeq(p, n + 1, Len(p)), p, n - 1)
         /\ Len(<<p[n]>> \o SubSeq(p, n + 1, Len(p))) + (n - 1) = Len(p)
         /\ <<p[n]>> \o SubSeq(p, n + 1, Len(p)) \in Seq(R)
<1> DEFINE s == SubSeq(p, n + 1, Len(p))  t == <<p[n]>> \o s
<1>1. Len(p) \in Nat /\ n \in Nat /\ n >= 1 /\ n <= Len(p) /\ p[n] \in R
  OBVIOUS
<1>2. s \in Seq(R) /\ Len(s) + n = Len(p) /\ \A i \in 1..Len(s) : s[i] = p[n + i]
  BY <1>1
<1> HIDE DEF s
<1>3. /\ t \in Seq(R) /\ Len(t) = Len(s) + 1 /\ t[1] = p[n]
      /\ \A i \in 1..Len(t) : i # 1 => i - 1 \in 1..Len(s) /\ t[i] = s[i - 1]
  BY <1>1, <1>2
<1> HIDE DEF t
<1>4. Len(s) \in Nat
  BY <1>2
<1>5. Ends(s, p, n)
  BY <1>1, <1>2, <1>4 DEF Ends
<1>6. Ends(t, p, n - 1)
  <2> SUFFICES ASSUME NEW i \in 1..Len(t) PROVE (n - 1) + i \in 1..Len(p) /\ t[i] = p[(n - 1) + i]
    BY DEF Ends
  <2>1. i \in Nat /\ i >= 1 /\ i <= Len(s) + 1
    BY <1>3, <1>4
  <2>2. (n - 1) + i \in 1..Len(p)
    BY <1>1, <1>2, <1>4, <2>1
  <2>3. CASE i = 1
    <3>1. (n - 1) + i = n
      BY <1>1, <2>3
    <3> QED
      BY <1>3, <2>2, <2>3, <3>1
  <2>4. CASE i # 1
    <3>1. i - 1 \in 1..Len(s) /\ t[i] = s[i - 1]
      BY <1>3, <2>4
    <3>2. s[i - 1] = p[n + (i - 1)] /\ n + (i - 1) = (n - 1) + i
      BY <1>1, <1>2, <2>1, <3>1
    <3> QED
      BY <2>2, <3>1, <3>2
  <2> QED
    BY <2>3, <2>4
<1>7. Len(t) + (n - 1) = Len(p)
  <2>1. Len(t) = Len(s) + 1 /\ Len(s) + n = Len(p)
    BY <1>2, <1>3
  <2> DEFINE a == Len(t)  b == Len(s)  c == Len(p)
  <2>2. a = b + 1 /\ b + n = c /\ b \in Nat /\ c \in Nat /\ n \in Nat
    BY <1>1, <1>4, <2>1
  <2> HIDE DEF a, b, c
  <2>3. a + (n - 1) = c
    BY <2>2
  <2> QED
    BY <2>3 DEF a, c
<1> QED
  BY <1>2, <1>3, <1>5, <1>6, <1>7 DEF s, t

LEMMA EndsRecords ==
  ASSUME NEW q, NEW p, NEW n, Ends(q, p, n)
  PROVE  Records(q) \subseteq Records(p)
BY DEF Ends, Records

(* The response takes the records before it from the queue, and cuts the line. *)
LEMMA LineTaken ==
  ASSUME PlainInv, ~astray, NEW n \in 1..Len(resp), NEW m \in Nat,
         \A i \in 1..Len(Line) : Due(Line[i]) =>
           \E a \in 1..Len(resp) : /\ a >= n /\ (i > 1 => a > n)
                                   /\ resp[a].cseq = Line[i].cseq /\ resp[a].id = Line[i].id,
         m \in {n, n - 1},
         NEW q \in Seq(Recs(tunnel)), Ends(q, resp, m), Len(q) + m = Len(resp),
         NEW c \in Seq(Messages), NEW k \in Nat, Len(c) + k = Len(buffer), Ends(c, buffer, k),
         k >= 1 \/ m = n - 1,
         NEW v, NEW d, (v = wire /\ d = asked) \/ (v = <<>> /\ d = <<>>)
  PROVE  /\ InOrder(Join(c, v, d), q) /\ Present(Join(c, v, d), q)
         /\ Matching(Join(c, v, d), answered) /\ Records(q) \subseteq Held
<1> DEFINE l == Join(c, v, d)
<1>1. InOrder(Line, resp) /\ Matching(Line, answered) /\ Records(resp) \subseteq Held
  BY DEF PlainInv, Plain, Matched, MatchedIn
<1>2. InOrder(l, resp) /\ Matching(l, answered) /\ Ends(l, Line, k)
  BY <1>1, LineCut
<1> HIDE DEF l
<1>3. Len(resp) \in Nat /\ Len(q) \in Nat /\ n \in Nat
  <2>1. resp \in Seq(Recs(tunnel))
    BY PlainBase
  <2> QED
    BY <2>1
<1>4. ASSUME NEW i \in 1..Len(l), Due(l[i])
      PROVE  \E a \in 1..Len(resp) : a > m /\ resp[a].cseq = l[i].cseq /\ resp[a].id = l[i].id
  <2>1. k + i \in 1..Len(Line) /\ l[i] = Line[k + i]
    BY <1>2 DEF Ends
  <2>2. PICK a \in 1..Len(resp) : /\ a >= n /\ (k + i > 1 => a > n)
                                  /\ resp[a].cseq = Line[k + i].cseq /\ resp[a].id = Line[k + i].id
    BY <1>4, <2>1
  <2>3. a > m
    <3>1. CASE m = n - 1
      BY <1>3, <2>2, <3>1
    <3>2. CASE m = n /\ k >= 1
      <4>1. i \in Nat /\ i >= 1
        <5>1. l \in Seq(Messages \cup Record)
          <6>1. /\ c \in Seq(Messages) /\ v \in Seq(Messages) /\ d \in Seq(Record)
            <7>1. <<>> \in Seq(Messages) /\ <<>> \in Seq(Record)
              OBVIOUS
            <7> QED
              BY <7>1, PlainBase
          <6> QED
            BY <6>1, JoinAt DEF l
        <5>2. Len(l) \in Nat
          BY <5>1
        <5> QED
          BY <5>2
      <4>2. k + i > 1
        BY <3>2, <4>1
      <4> QED
        BY <2>2, <3>2, <4>2
    <3> QED
      BY <1>3, <3>1, <3>2
  <2> QED
    BY <2>1, <2>2, <2>3
<1>5. InOrder(l, q) /\ Present(l, q)
  BY <1>2, <1>3, <1>4, QueueCut
<1>6. Records(q) \subseteq Held
  BY <1>1, EndsRecords
<1> QED
  BY <1>2, <1>5, <1>6 DEF l

(* A response whose record is its own: the queue and the line afterwards.     *)
LEMMA AwaitBodyPlain ==
  ASSUME PlainInv, AwaitBody PROVE Plain'
<1> DEFINE h == Head(buffer)  R == Recs(tunnel)
<1>1. /\ frames # <<>> /\ buffer # <<>> /\ IsHead(h) /\ Head(frames).k = "parse"
      /\ UNCHANGED <<tunnel, fCSeq, conn, tun, buffer, sent, answered>>
      /\ resp' = Found(h) \o Rest(h) /\ frames' = Tail(frames)
      /\ SocketsAfter(Closes(h), <<>>) /\ astray' = (astray \/ Astray(h))
  BY DEF AwaitBody, Top, Below, history
<1>2. (wire' = wire /\ asked' = asked) \/ (wire' = <<>> /\ asked' = <<>>)
  BY <1>1 DEF SocketsAfter, ResetSockets, socks
<1>3. ASSUME ~astray' PROVE MatchedIn(fCSeq', Held, Line', conn', resp', frames', answered)
  <2>1. MatchedIn(fCSeq, Held, Line, conn, resp, frames, answered) /\ ~astray /\ ~Astray(h)
    BY <1>1, <1>3 DEF PlainInv, Plain, Matched
  <2>2. PICK n \in 1..Len(resp) :
           /\ Found(h) = <<resp[n]>> /\ resp[n] \in R
           /\ resp[n].id = h.id
           /\ Rest(h) = SubSeq(resp, n + 1, Len(resp))
           /\ answered[resp[n].id] = Says(h) /\ h \in Heads
           /\ \A i \in 1..Len(Line) : Due(Line[i]) =>
                \E a \in 1..Len(resp) : /\ a >= n /\ (i > 1 => a > n)
                                        /\ resp[a].cseq = Line[i].cseq /\ resp[a].id = Line[i].id
    BY <1>1, <2>1, FindsOwn
  <2>3. resp \in Seq(R) /\ buffer \in Seq(Messages) /\ Len(resp) \in Nat /\ Len(buffer) \in Nat
    <3>1. resp \in Seq(R) /\ buffer \in Seq(Messages)
      BY PlainBase
    <3> QED
      BY <3>1
  <2>4. /\ Ends(<<resp[n]>> \o SubSeq(resp, n + 1, Len(resp)), resp, n - 1)
        /\ Len(<<resp[n]>> \o SubSeq(resp, n + 1, Len(resp))) + (n - 1) = Len(resp)
        /\ <<resp[n]>> \o SubSeq(resp, n + 1, Len(resp)) \in Seq(R)
    BY <2>3, QueueRest
  <2>5. resp' = <<resp[n]>> \o SubSeq(resp, n + 1, Len(resp))
    BY <1>1, <2>2
  <2>6. Ends(resp', resp, n - 1) /\ Len(resp') + (n - 1) = Len(resp) /\ resp' \in Seq(R)
    BY <2>4, <2>5
  <2>7. n - 1 \in Nat /\ n - 1 \in {n, n - 1} /\ 0 \in Nat /\ Len(buffer) + 0 = Len(buffer)
    BY <2>3
  <2>8. Ends(buffer, buffer, 0)
    BY <2>3 DEF Ends
  <2>9. /\ InOrder(Join(buffer, wire', asked'), resp') /\ Present(Join(buffer, wire', asked'), resp')
        /\ Matching(Join(buffer, wire', asked'), answered) /\ Records(resp') \subseteq Held
    <3> DEFINE m == n - 1
    <3>1. /\ m \in Nat /\ m \in {n, n - 1} /\ m = n - 1
          /\ Ends(resp', resp, m) /\ Len(resp') + m = Len(resp)
      BY <2>6, <2>7
    <3> HIDE DEF m
    <3>2. \A i \in 1..Len(Line) : Due(Line[i]) =>
                \E a \in 1..Len(resp) : /\ a >= n /\ (i > 1 => a > n)
                                        /\ resp[a].cseq = Line[i].cseq /\ resp[a].id = Line[i].id
      BY <2>2
    <3> QED
      BY <1>2, <2>1, <2>3, <2>6, <2>7, <2>8, <3>1, <3>2, LineTaken
  <2>10. Line' = Join(buffer, wire', asked')
    BY <1>1 DEF Line
  <2>11. Seen(frames', Held, answered)
    <3>1. Seen(frames, Held, answered)
      BY <2>1 DEF MatchedIn
    <3> QED
      BY <1>1, <3>1, PlainBase, SeenPop
  <2> QED
    BY <1>1, <2>1, <2>9, <2>10, <2>11 DEF MatchedIn
<1>4. tun' = <<>> /\ (astray => astray')
  BY <1>1, PlainBase
<1> QED
  BY <1>1, <1>3, <1>4, PlainAfter

(* Seen, of the frames that a response leaves: n is for what came with it.      *)
LEMMA SeenAfter ==
  ASSUME PlainInv, frames # <<>>, Seen(frames, Held, answered), NEW n \in Nat,
         NEW next, next = Below \/ next = <<Parse(n)>> \o Below,
         NEW r \in Recs(tunnel), r \in Held
  PROVE  /\ answered[r.id] = "none" => Seen(<<Resend(r)>> \o Below, Held, answered)
         /\ \A how \in Hows : how = "error" \/ answered[r.id] = how =>
              Seen(<<Call(r, how)>> \o next, Held, answered)
<1> DEFINE R == Recs(tunnel)
<1>1. R \in SUBSET Record /\ frames \in Seq(Frame(R))
  BY PlainBase
<1>2. Seen(Below, Held, answered) /\ Below \in Seq(Frame(R))
  BY <1>1, SeenPop DEF Below
<1>3. <<>> \in Seq(R) /\ Records(<<>>) \subseteq Held
  BY DEF Records
<1>4. answered[r.id] = "none" => Seen(<<Resend(r)>> \o Below, Held, answered)
  BY <1>1, <1>2, <1>3, SeenMade
<1>5. Seen(<<Parse(n)>> \o Below, Held, answered)
  BY <1>1, <1>2, <1>3, SeenMade
<1>6. <<Parse(n)>> \o Below \in Seq(Frame(R))
  <2>1. Parse(n) \in Frame(R)
    BY DEF Parse, Frame
  <2>2. <<Parse(n)>> \in Seq(Frame(R))
    BY <2>1
  <2> QED
    BY <1>2, <2>2
<1>7. Seen(next, Held, answered) /\ next \in Seq(Frame(R))
  BY <1>2, <1>5, <1>6
<1>8. ASSUME NEW how \in Hows, how = "error" \/ answered[r.id] = how
      PROVE  Seen(<<Call(r, how)>> \o next, Held, answered)
  <2>1. CASE how = "error"
    <3>1. Seen(<<Call(r, "error")>> \o next, Held, answered)
      BY <1>1, <1>3, <1>7, SeenMade
    <3> QED
      BY <2>1, <3>1
  <2>2. CASE answered[r.id] = how
    BY <1>1, <1>3, <1>7, <2>2, SeenMade
  <2> QED
    BY <1>8, <2>1, <2>2
<1> QED
  BY <1>4, <1>8

LEMMA ResponsePlain ==
  ASSUME PlainInv, Response PROVE Plain'
<1> DEFINE R     == Recs(tunnel)
           h     == Head(buffer)
           size  == IF h.body THEN 2 ELSE 1
           extra == SubSeq(buffer, size + 1, Len(buffer))
           found == Found(h)
           again == h.what \in {"again", "moved"} /\ found # <<>>
           next  == ParseRest(h, extra) \o Below
           how   == IF h.what = "bad" THEN "error" ELSE h.what
<1>1. /\ frames # <<>> /\ buffer # <<>> /\ IsHead(h) /\ size <= Len(buffer)
      /\ UNCHANGED <<tunnel, fCSeq, conn, tun, sent, answered>>
      /\ resp' = Rest(h) /\ astray' = (astray \/ Astray(h))
      /\ IF again
         THEN /\ buffer' = <<>>
              /\ SocketsAfter(Closes(h) \/ h.what = "moved" \/ Ids(found) = {}, extra)
              /\ frames' = <<Resend(Head(found))>> \o Below
         ELSE /\ buffer' = extra
              /\ SocketsAfter(Closes(h), IF h.what = "bad" \/ Closes(h) THEN extra ELSE <<>>)
              /\ frames' = IF found = <<>> THEN next ELSE <<Call(Head(found), how)>> \o next
  BY DEF Response, Top, history
<1>2. (wire' = wire /\ asked' = asked) \/ (wire' = <<>> /\ asked' = <<>>)
  <2>1. \E reset, lost : SocketsAfter(reset, lost)
    BY <1>1
  <2> QED
    BY <2>1 DEF SocketsAfter, ResetSockets, socks
<1>3. /\ buffer \in Seq(Messages) /\ Len(buffer) \in Nat /\ OwnInv
      /\ R \in SUBSET Record /\ resp \in Seq(R)
      /\ size \in Nat /\ size >= 1
  <2>1. buffer \in Seq(Messages) /\ OwnInv /\ R \in SUBSET Record /\ resp \in Seq(R)
    BY PlainBase
  <2> QED
    BY <2>1
<1> HIDE DEF size
<1>4. /\ extra \in Seq(Messages) /\ Len(extra) + size = Len(buffer) /\ Len(extra) \in Nat
      /\ \A i \in 1..Len(extra) : extra[i] = buffer[size + i]
  BY <1>1, <1>3
<1> HIDE DEF extra
<1>5. PICK k \in Nat : /\ k >= 1 /\ buffer' \in Seq(Messages)
                       /\ Len(buffer') + k = Len(buffer) /\ Ends(buffer', buffer, k)
  <2>1. CASE buffer' = extra
    <3>1. Ends(extra, buffer, size)
      BY <1>3, <1>4 DEF Ends
    <3> QED
      BY <1>3, <1>4, <2>1, <3>1
  <2>2. CASE buffer' = <<>>
    <3>1. Ends(<<>>, buffer, Len(buffer)) /\ <<>> \in Seq(Messages) /\ Len(<<>>) = 0
      BY DEF Ends
    <3>2. Len(buffer) >= 1
      BY <1>1, <1>3
    <3> QED
      BY <1>3, <2>2, <3>1, <3>2
  <2> HIDE DEF again, next, how
  <2> QED
    BY <1>1, <2>1, <2>2
<1>6. ASSUME ~astray' PROVE MatchedIn(fCSeq', Held, Line', conn', resp', frames', answered)
  <2>1. MatchedIn(fCSeq, Held, Line, conn, resp, frames, answered) /\ ~astray /\ ~Astray(h)
    BY <1>1, <1>6 DEF PlainInv, Plain, Matched
  <2>2. PICK n \in 1..Len(resp) :
           /\ Found(h) = <<resp[n]>> /\ resp[n] \in R
           /\ resp[n].id = h.id
           /\ Rest(h) = SubSeq(resp, n + 1, Len(resp))
           /\ answered[resp[n].id] = Says(h) /\ h \in Heads
           /\ \A i \in 1..Len(Line) : Due(Line[i]) =>
                \E a \in 1..Len(resp) : /\ a >= n /\ (i > 1 => a > n)
                                        /\ resp[a].cseq = Line[i].cseq /\ resp[a].id = Line[i].id
    BY <1>1, <2>1, FindsOwn
  <2>3. /\ Ends(SubSeq(resp, n + 1, Len(resp)), resp, n)
        /\ Len(SubSeq(resp, n + 1, Len(resp))) + n = Len(resp)
        /\ SubSeq(resp, n + 1, Len(resp)) \in Seq(R)
    BY <1>3, QueueRest
  <2>4. Ends(resp', resp, n) /\ Len(resp') + n = Len(resp) /\ resp' \in Seq(R)
    BY <1>1, <2>2, <2>3
  <2>5. n \in Nat /\ n \in {n, n - 1}
    BY <1>3
  <2>6. /\ InOrder(Join(buffer', wire', asked'), resp') /\ Present(Join(buffer', wire', asked'), resp')
        /\ Matching(Join(buffer', wire', asked'), answered) /\ Records(resp') \subseteq Held
    <3>1. \A i \in 1..Len(Line) : Due(Line[i]) =>
                \E a \in 1..Len(resp) : /\ a >= n /\ (i > 1 => a > n)
                                        /\ resp[a].cseq = Line[i].cseq /\ resp[a].id = Line[i].id
      BY <2>2
    <3> HIDE DEF again, next, how, h, found
    <3> QED
      BY <1>2, <1>5, <2>1, <2>4, <2>5, <3>1, LineTaken
  <2>7. Line' = Join(buffer', wire', asked')
    BY DEF Line
  <2>8. Seen(frames', Held, answered)
    <3>1. Seen(frames, Held, answered) /\ Records(resp) \subseteq Held
      BY <2>1 DEF MatchedIn
    <3>2. resp[n] \in Held /\ Head(found) = resp[n] /\ found # <<>>
      BY <2>2, <3>1 DEF Records
    <3>3. next = Below \/ next = <<Parse(Len(extra))>> \o Below
      <4>1. Below \in Seq(Frame(R))
        BY <1>1, <3>1, PlainBase, SeenPop DEF Below
      <4>2. <<>> \o Below = Below
        BY <4>1
      <4> QED
        BY <4>2 DEF ParseRest
    <3>4. h \in Heads /\ answered[resp[n].id] = Says(h) /\ resp[n] \in R
      BY <2>2
    <3>5. CASE again
      <4>1. frames' = <<Resend(resp[n])>> \o Below
        BY <1>1, <3>2, <3>5
      <4>2. answered[resp[n].id] = "none"
        BY <3>4, <3>5 DEF Says
      <4> QED
        BY <1>1, <1>4, <3>1, <3>2, <3>3, <3>4, <4>1, <4>2, SeenAfter
    <3>6. CASE ~again
      <4>1. frames' = <<Call(resp[n], how)>> \o next
        BY <1>1, <3>2, <3>6
      <4>2. h.what \in {"ok", "fail", "bad"}
        BY <3>2, <3>4, <3>6 DEF Heads
      <4>3. how \in Hows /\ (how = "error" \/ answered[resp[n].id] = how)
        BY <3>4, <4>2 DEF Hows, Says
      <4> HIDE DEF how, next
      <4> QED
        BY <1>1, <1>4, <3>1, <3>2, <3>3, <3>4, <4>1, <4>3, SeenAfter
    <3> QED
      BY <3>5, <3>6
  <2> QED
    BY <1>1, <2>1, <2>6, <2>7, <2>8 DEF MatchedIn
<1>7. tun' = <<>> /\ (astray => astray')
  BY <1>1, PlainBase
<1> QED
  BY <1>1, <1>6, <1>7, PlainAfter

LEMMA PlainInit ==
  ASSUME Tunnels = {FALSE}, Init PROVE PlainInv
<1>1. OwnInv
  BY OwnInit
<1>2. /\ tunnel = FALSE /\ tun = <<>> /\ conn = <<>> /\ resp = <<>> /\ frames = <<>>
      /\ buffer = <<>> /\ wire = <<>> /\ asked = <<>> /\ sent = {} /\ fCSeq = 1
      /\ answered = [r \in Requests |-> "none"]
  BY DEF Init
<1>3. Records(conn) = {} /\ Records(resp) = {} /\ RecordsIn(frames) = {} /\ Sending(frames) = {}
  BY <1>2 DEF Records, RecordsIn, Sending
<1>4. Len(Line) = 0
  BY <1>2 DEF Line, Join
<1>5. InOrder(Line, resp) /\ Present(Line, resp) /\ Matching(Line, answered)
  BY <1>4 DEF InOrder, Present, Matching
<1>6. Held = {}
  BY <1>3 DEF Held
<1>7. Numbers(Held, fCSeq) /\ Unanswered(Records(conn), answered)
  BY <1>3, <1>6 DEF Numbers, Unanswered
<1>8. Seen(frames, Held, answered)
  BY <1>2, <1>3, <1>6 DEF Seen, Unanswered, Calls
<1>9. Matched
  BY <1>3, <1>5, <1>6, <1>7, <1>8 DEF Matched, MatchedIn
<1> QED
  BY <1>1, <1>2, <1>9 DEF PlainInv, Plain

LEMMA PlainNext ==
  ASSUME PlainInv, [Next]_vars PROVE PlainInv'
<1>1. OwnInv'
  BY OwnNext DEF PlainInv
<1> SUFFICES Plain'
  BY <1>1 DEF PlainInv
<1>2. CASE Client
  BY <1>2, ResumePlain, FramesPlain, ResendPlain, CallPlain, NoGET, IncomingPlain, AwaitBodyPlain,
     ResponsePlain DEF Client
<1>3. CASE Events
  BY <1>3, FramesPlain, FailsPlain, ReadErrorPlain, RecvPlain DEF Events
<1>4. CASE Program
  BY <1>4, FramesPlain, MakePlain DEF Program
<1>5. CASE Server
  BY <1>5, ReplyPlain, SkipPlain, AskPlain DEF Server
<1>6. CASE UNCHANGED vars
  <2>1. UNCHANGED <<tunnel, tun, fCSeq, conn, resp, frames, answered, astray, sent, buffer, wire, asked>>
    BY <1>6 DEF vars, socks, queues, history, flaws
  <2>2. Held' = Held /\ Line' = Line
    BY <2>1 DEF Held, Line
  <2> QED
    BY <2>1, <2>2 DEF PlainInv, Plain, Matched
<1> QED
  BY <1>2, <1>3, <1>4, <1>5, <1>6 DEF Next

(* In a client without a tunnel, as long as no response is taken for that of   *)
(* another request, what the server has been asked and has answered stands in  *)
(* the order of the queue of the requests that await a response, each next to  *)
(* a record of its own.                                                     *)
THEOREM LineKept == Tunnels = {FALSE} => (Spec => []PlainInv)
<1> SUFFICES ASSUME Tunnels = {FALSE} PROVE Spec => []PlainInv
  OBVIOUS
<1>1. Init => PlainInv
  BY PlainInit
<1>2. PlainInv /\ [Next]_vars => PlainInv'
  BY PlainNext
<1> QED
  BY <1>1, <1>2, PTL DEF Spec

-----------------------------------------------------------------------------
(* The refinement, action by action: what the program and the server see.      *)
Shown == [r \in Requests |-> IF answered[r] = "skip" THEN "none" ELSE answered[r]]
Promise == Service!Next \/ UNCHANGED <<sent, Shown, told>>

LEMMA MakeServes ==
  ASSUME PlainInv, NEW r \in Requests, Make(r) PROVE Service!Make(r)
<1>1. r = Cardinality(sent) + 1 /\ sent' = sent \cup {r} /\ UNCHANGED <<answered, told>>
  BY DEF Make
<1>2. r \notin sent
  <2>1. PICK n \in 0..MaxRequests : sent = 1..n
    BY PlainBase DEF OwnInv
  <2>2. Cardinality(1..n) = n
    BY <2>1, FS_Interval
  <2> QED
    BY <1>1, <2>1, <2>2
<1> QED
  BY <1>1, <1>2 DEF Service!Make

LEMMA ReplyServes ==
  ASSUME PlainInv, ~astray, Reply PROVE Promise
<1> DEFINE r == Head(asked)
<1>1. asked # <<>> /\ UNCHANGED <<sent, told>>
  BY DEF Reply
<1>2. r.id \in Requests /\ r.id \in sent /\ answered[r.id] = "none"
  BY <1>1, AskedWaits
<1>3. answered \in [Requests -> {"none", "ok", "fail", "skip"}]
  BY PlainBase DEF OwnInv, Typed
<1>4. \/ answered' = answered
      \/ \E kind \in {"ok", "fail"} :
           answered' = IF r.id = HTTP THEN answered ELSE [answered EXCEPT ![r.id] = kind]
  BY DEF Reply
<1> HIDE DEF r
<1>5. CASE answered' = answered
  BY <1>1, <1>5 DEF Promise, Shown
<1>6. ASSUME NEW kind \in {"ok", "fail"}, NEW x \in Requests, x = r.id,
             answered' = [answered EXCEPT ![x] = kind]
      PROVE  Service!Answer(x)
  <2>1. Shown' = [Shown EXCEPT ![x] = kind]
    BY <1>2, <1>3, <1>6 DEF Shown
  <2>2. Shown[x] = "none"
    BY <1>2, <1>6 DEF Shown
  <2> QED
    BY <1>1, <1>2, <1>6, <2>1, <2>2 DEF Service!Answer, Service!Answers, Shown
<1>7. r.id # HTTP
  BY <1>2 DEF Requests, HTTP
<1>8. CASE answered' # answered
  <2>1. PICK kind \in {"ok", "fail"} : answered' = [answered EXCEPT ![r.id] = kind]
    BY <1>4, <1>7, <1>8
  <2>2. PICK x \in Requests : x = r.id
    BY <1>2
  <2>3. Service!Answer(x)
    BY <1>6, <2>1, <2>2
  <2> QED
    BY <2>2, <2>3 DEF Promise, Service!Next
<1> QED
  BY <1>5, <1>8

LEMMA SkipServes ==
  ASSUME PlainInv, ~astray, Skip PROVE UNCHANGED <<sent, Shown, told>>
<1> DEFINE r == Head(asked)
<1>1. asked # <<>> /\ UNCHANGED <<sent, told>> /\ answered' = [answered EXCEPT ![r.id] = "skip"]
  BY DEF Skip
<1>2. r.id \in Requests /\ answered[r.id] = "none"
  BY <1>1, AskedWaits
<1>3. answered \in [Requests -> {"none", "ok", "fail", "skip"}]
  BY PlainBase DEF OwnInv, Typed
<1> HIDE DEF r
<1>4. Shown' = Shown
  BY <1>1, <1>2, <1>3 DEF Shown
<1> QED
  BY <1>1, <1>4

LEMMA CallServes ==
  ASSUME PlainInv, ~astray, CallHandler PROVE Promise
<1> DEFINE f == Head(frames)  r == Head(f.todo).id
<1>1. /\ frames # <<>> /\ f.k = "call" /\ r # HTTP
      /\ told' = [told EXCEPT ![r] = Append(@, f.how)] /\ UNCHANGED <<sent, answered>>
  BY DEF CallHandler, Top
<1>2. OwnInv /\ told \in [Requests -> Seq(Hows)]
  BY PlainBase DEF OwnInv, Typed
<1>3. Todo(f) = f.todo /\ f.todo # <<>> /\ f.how \in Hows
  BY <1>1, <1>2, Topmost, Base, Lists1 DEF Filled
<1>4. r \in Requests /\ r \in sent \ Told
  <2>1. Good(Recs(tunnel), f.todo)
    BY <1>1, <1>2, <1>3, Topmost
  <2>2. Head(f.todo) \in Recs(tunnel) /\ r \in Ids(f.todo)
    <3>1. /\ Head(f.todo) \in Recs(tunnel)
          /\ Ids(f.todo) = Ids(Tail(f.todo)) \cup ({Head(f.todo).id} \ {HTTP})
      BY <1>2, <1>3, <2>1, Base, Dequeued
    <3> QED
      BY <1>1, <3>1
  <2>3. r \in sent \ Told
    BY <1>1, <1>2, <1>3, <2>2, Topmost DEF OwnInv
  <2> QED
    BY <2>2, <2>3, PlainBase
<1>5. told[r] = <<>>
  BY <1>4 DEF Told
<1>6. f.how = "error" \/ answered[r] = f.how
  <2>1. Seen(frames, Held, answered)
    BY DEF PlainInv, Plain, Matched, MatchedIn
  <2> QED
    BY <1>1, <2>1, PlainBase, SeenPop, ZenonT(60)
<1> HIDE DEF f, r
<1>7. told' = [told EXCEPT ![r] = <<f.how>>]
  BY <1>1, <1>2, <1>4, <1>5
<1>8. f.how \in {Shown[r], "error"} \ {"none"}
  BY <1>3, <1>4, <1>6 DEF Hows, Shown
<1>9. Shown' = Shown
  BY <1>1 DEF Shown
<1>10. Service!Tell(r)
  BY <1>1, <1>4, <1>5, <1>7, <1>8, <1>9 DEF Service!Tell, Shown
<1> QED
  BY <1>4, <1>10 DEF Promise, Service!Next

LEMMA NextServes ==
  ASSUME PlainInv, [Next]_vars, ~astray PROVE Promise
<1>1. CASE CallHandler
  BY <1>1, CallServes
<1>2. CASE \E r \in Requests : Make(r)
  BY <1>2, MakeServes DEF Promise, Service!Next
<1>3. CASE Reply
  BY <1>3, ReplyServes
<1>4. CASE Skip
  BY <1>4, SkipServes DEF Promise
<1>5. ASSUME UNCHANGED <<sent, answered, told>> PROVE Promise
  BY <1>5 DEF Promise, Shown
<1>6. CASE Client /\ ~CallHandler
  BY <1>5, <1>6 DEF Client, ResumeNext, DrainNext, TellNext, ResendCommand, HandleGET, Incomplete,
     IncomingRequest, AwaitBody, Response, history
<1>7. CASE Events
  BY <1>5, <1>7 DEF Events, Connected, ConnectionFails, ReadError, Recv, history
<1>8. CASE Return \/ AskClient \/ Close \/ UNCHANGED vars
  BY <1>5, <1>8 DEF Return, AskClient, Close, vars, history
<1> QED
  BY <1>1, <1>2, <1>3, <1>4, <1>6, <1>7, <1>8 DEF Next, Program, Server

(* What RTSPClient.hh promises: without a tunnel, whatever the program and the  *)
(* server do, and however a connection fails, a response handler is called once *)
(* at most, with the server's answer to its own request or with an error of    *)
(* the client's, as long as no response has gone astray.                     *)
THEOREM Promised == Tunnels = {FALSE} => (Spec => ImplementsService)
<1> SUFFICES ASSUME Tunnels = {FALSE} PROVE Spec => ImplementsService
  OBVIOUS
<1>1. Spec => []PlainInv
  BY LineKept
<1>2. Init => Service!Init
  BY DEF Init, Service!Init
<1>3. PlainInv /\ [Next]_vars
        => [astray \/ (tunnel /\ forgot) \/ Service!Next]_<<sent, Service!vars>>
  <2> SUFFICES ASSUME PlainInv, [Next]_vars, ~astray
               PROVE  Service!Next \/ UNCHANGED <<sent, Service!vars>>
    OBVIOUS
  <2>1. Promise
    BY NextServes
  <2> QED
    BY <2>1 DEF Promise, Shown, Service!vars
<1> QED
  BY <1>1, <1>2, <1>3, PTL DEF Spec, ImplementsService

-----------------------------------------------------------------------------
(* No request is forgotten, as long as none of the branches that lose requests *)
(* is taken and no response goes astray: one that is owed a call is in the     *)
(* hands of something under way, or waits for the connection, or stands in the *)
(* line.  That the connection is there, or is pending, comes with it (Linked);  *)
(* a body comes right behind its header (Bodied), so that cutting off both     *)
(* takes nobody else's response along.                                       *)
DueIds(l) == {l[i].id : i \in {j \in 1..Len(l) : Due(l[j])}}
Reached(c, l, fs) == Hands(fs) \cup Ids(c) \cup DueIds(l)
Linked == (conn # <<>> => connecting # 0) /\ (resp # <<>> => in # 0)
Bodied(s) ==
  \A i \in 1..Len(s) : Due(s[i]) /\ s[i].body => i + 1 \in 1..Len(s) /\ s[i + 1] = Body

WayInv ==
  ~(forgot \/ astray) =>
    /\ Linked /\ Bodied(buffer \o wire)
    /\ \A r \in Requests : Owed(r) => r \in Reached(conn, Line, frames)

(* What two sequences have between them.                                     *)
Halved(u, s, t) ==
  /\ \A i \in 1..Len(s) : i \in 1..Len(u) /\ u[i] = s[i]
  /\ \A i \in 1..Len(t) : Len(s) + i \in 1..Len(u) /\ u[Len(s) + i] = t[i]
  /\ \A i \in 1..Len(u) : i \in 1..Len(s) \/ \E j \in 1..Len(t) : i = Len(s) + j

LEMMA HalvesOf ==
  ASSUME NEW M, NEW s \in Seq(M), NEW t \in Seq(M)
  PROVE  Halved(s \o t, s, t)
<1>1. /\ s \o t \in Seq(M) /\ Len(s \o t) = Len(s) + Len(t)
      /\ Len(s) \in Nat /\ Len(t) \in Nat
  OBVIOUS
<1>2. /\ \A i \in 1..Len(s) : i \in 1..Len(s \o t) /\ (s \o t)[i] = s[i]
      /\ \A i \in 1..Len(t) : Len(s) + i \in 1..Len(s \o t) /\ (s \o t)[Len(s) + i] = t[i]
  OBVIOUS
<1>3. \A i \in 1..Len(s \o t) :
         i \in 1..Len(s) \/ \E j \in 1..Len(t) : i = Len(s) + j
  <2> TAKE i \in 1..Len(s \o t)
  <2> SUFFICES ASSUME i \notin 1..Len(s) PROVE \E j \in 1..Len(t) : i = Len(s) + j
    OBVIOUS
  <2>1. i - Len(s) \in 1..Len(t) /\ i = Len(s) + (i - Len(s))
    BY <1>1
  <2> QED
    BY <2>1
<1> QED
  BY ONLY <1>2, <1>3, Zenon DEF Halved

LEMMA Halves ==
  ASSUME NEW M, NEW s \in Seq(M), NEW t \in Seq(M)
  PROVE  /\ s \o t \in Seq(M) /\ Len(s \o t) = Len(s) + Len(t)
         /\ Len(s) \in Nat /\ Len(t) \in Nat /\ Len(s \o t) \in Nat
         /\ \A i \in 1..Len(s) : i \in 1..Len(s \o t) /\ (s \o t)[i] = s[i]
         /\ \A i \in 1..Len(t) : Len(s) + i \in 1..Len(s \o t) /\ (s \o t)[Len(s) + i] = t[i]
         /\ \A i \in 1..Len(s \o t) :
              i \in 1..Len(s) \/ \E j \in 1..Len(t) : i = Len(s) + j
<1>1. /\ s \o t \in Seq(M) /\ Len(s \o t) = Len(s) + Len(t)
      /\ Len(s) \in Nat /\ Len(t) \in Nat /\ Len(s \o t) \in Nat
  OBVIOUS
<1>2. Halved(s \o t, s, t)
  BY HalvesOf
<1> QED
  BY ONLY <1>1, <1>2, Zenon DEF Halved

LEMMA DueJoin ==
  ASSUME NEW M, NEW s \in Seq(M), NEW t \in Seq(M)
  PROVE  DueIds(s \o t) = DueIds(s) \cup DueIds(t)
<1>0. Halved(s \o t, s, t)
  BY HalvesOf
<1>1. PICK u : u = s \o t
  OBVIOUS
<1>2. /\ \A i \in 1..Len(s) : i \in 1..Len(u) /\ u[i] = s[i]
      /\ \A i \in 1..Len(t) : Len(s) + i \in 1..Len(u) /\ u[Len(s) + i] = t[i]
  BY ONLY <1>0, <1>1, Zenon DEF Halved
<1>3. \A i \in 1..Len(u) : i \in 1..Len(s) \/ \E j \in 1..Len(t) : i = Len(s) + j
  BY ONLY <1>0, <1>1, Zenon DEF Halved
<1>4. DueIds(u) \subseteq DueIds(s) \cup DueIds(t)
  <2> SUFFICES ASSUME NEW i \in 1..Len(u), Due(u[i])
               PROVE  u[i].id \in DueIds(s) \cup DueIds(t)
    BY DEF DueIds
  <2>1. CASE i \in 1..Len(s)
    BY <1>2, <2>1 DEF DueIds
  <2>2. CASE \E j \in 1..Len(t) : i = Len(s) + j
    BY <1>2, <2>2 DEF DueIds
  <2> QED
    BY <1>3, <2>1, <2>2
<1>5. DueIds(s) \subseteq DueIds(u)
  BY <1>2 DEF DueIds
<1>6. DueIds(t) \subseteq DueIds(u)
  BY <1>2 DEF DueIds
<1> QED
  BY <1>1, <1>4, <1>5, <1>6

LEMMA DueLine ==
  ASSUME NEW b \in Seq(Messages), NEW w \in Seq(Messages), NEW a \in Seq(Record)
  PROVE  DueIds(Join(b, w, a)) = DueIds(b) \cup DueIds(w) \cup DueIds(a)
<1>1. DueIds(b \o w) = DueIds(b) \cup DueIds(w) /\ b \o w \in Seq(Messages)
  BY DueJoin
<1>2. PICK u, M : u = b \o w /\ M = Messages \cup Record
  OBVIOUS
<1>3. u \in Seq(M) /\ a \in Seq(M)
  BY <1>1, <1>2
<1>4. DueIds(u \o a) = DueIds(u) \cup DueIds(a)
  BY <1>3, DueJoin
<1> QED
  BY <1>1, <1>2, <1>4 DEF Join

LEMMA DueHead ==
  ASSUME NEW M, NEW s \in Seq(M), s # <<>>, Due(Head(s))
  PROVE  DueIds(s) = {Head(s).id} \cup DueIds(Tail(s))
<1>1. Head(s) \in M /\ Tail(s) \in Seq(M) /\ s = <<Head(s)>> \o Tail(s)
  OBVIOUS
<1>2. PICK x, t : x = Head(s) /\ t = Tail(s)
  OBVIOUS
<1>3. t \in Seq(M) /\ <<x>> \in Seq(M) /\ s = <<x>> \o t
  BY <1>1, <1>2
<1>4. DueIds(<<x>> \o t) = DueIds(<<x>>) \cup DueIds(t)
  BY <1>3, DueJoin, ZenonT(60)
<1>5. Len(<<x>>) = 1 /\ <<x>>[1] = x
  OBVIOUS
<1>6. DueIds(<<x>>) = {x.id}
  BY <1>2, <1>5 DEF DueIds
<1> QED
  BY <1>2, <1>3, <1>4, <1>6

LEMMA BodiedJoin ==
  ASSUME NEW s \in Seq(Messages), NEW t \in Seq(Messages), Bodied(s), Bodied(t)
  PROVE  Bodied(s \o t)
<1>0. Halved(s \o t, s, t) /\ Len(s) \in Nat
  BY HalvesOf
<1>1. PICK u : u = s \o t
  OBVIOUS
<1>2. /\ \A i \in 1..Len(s) : i \in 1..Len(u) /\ u[i] = s[i]
      /\ \A i \in 1..Len(t) : Len(s) + i \in 1..Len(u) /\ u[Len(s) + i] = t[i]
  BY ONLY <1>0, <1>1, Zenon DEF Halved
<1>3. /\ \A i \in 1..Len(u) : i \in 1..Len(s) \/ \E j \in 1..Len(t) : i = Len(s) + j
      /\ Len(s) \in Nat
  BY ONLY <1>0, <1>1, Zenon DEF Halved
<1> SUFFICES ASSUME NEW i \in 1..Len(u), Due(u[i]), u[i].body
             PROVE  i + 1 \in 1..Len(u) /\ u[i + 1] = Body
  BY <1>1 DEF Bodied
<1>4. CASE i \in 1..Len(s)
  <2>1. i + 1 \in 1..Len(s) /\ s[i + 1] = Body
    BY <1>2, <1>4 DEF Bodied
  <2> QED
    BY <1>2, <2>1
<1>5. CASE \E j \in 1..Len(t) : i = Len(s) + j
  <2>1. PICK j \in 1..Len(t) : i = Len(s) + j
    BY <1>5
  <2>2. j + 1 \in 1..Len(t) /\ t[j + 1] = Body
    BY <1>2, <2>1 DEF Bodied
  <2>3. i + 1 = Len(s) + (j + 1)
    BY <1>3, <2>1
  <2>4. Len(s) + (j + 1) \in 1..Len(u) /\ u[Len(s) + (j + 1)] = t[j + 1]
    BY <1>2, <2>2
  <2> QED
    BY <2>2, <2>3, <2>4
<1> QED
  BY <1>3, <1>4, <1>5

(* What is cut off in front.                                                 *)
LEMMA BodiedCut ==
  ASSUME NEW s, NEW k, NEW n \in Nat, Ends(k, s, n), Len(k) \in Nat, Len(k) + n = Len(s), Bodied(s)
  PROVE  Bodied(k)
<1> SUFFICES ASSUME NEW i \in 1..Len(k), Due(k[i]), k[i].body
             PROVE  i + 1 \in 1..Len(k) /\ k[i + 1] = Body
  BY DEF Bodied
<1>1. n + i \in 1..Len(s) /\ k[i] = s[n + i]
  BY DEF Ends
<1>2. (n + i) + 1 \in 1..Len(s) /\ s[(n + i) + 1] = Body
  BY <1>1 DEF Bodied
<1>3. i + 1 \in 1..Len(k) /\ (n + i) + 1 = n + (i + 1)
  BY <1>2
<1>4. k[i + 1] = s[n + (i + 1)]
  BY <1>3 DEF Ends
<1> QED
  BY <1>2, <1>3, <1>4

LEMMA DueCut ==
  ASSUME NEW l, NEW k, NEW n \in Nat, Ends(k, l, n), Len(k) \in Nat, Len(k) + n = Len(l)
  PROVE  \A x \in DueIds(l) : x \in DueIds(k) \/ \E i \in 1..n : i \in 1..Len(l) /\ Due(l[i]) /\ x = l[i].id
<1> SUFFICES ASSUME NEW j \in 1..Len(l), Due(l[j]), ~(j \in 1..n)
             PROVE  l[j].id \in DueIds(k)
  BY DEF DueIds
<1>1. j - n \in 1..Len(k) /\ n + (j - n) = j
  OBVIOUS
<1>2. k[j - n] = l[j]
  BY <1>1 DEF Ends
<1> QED
  BY <1>1, <1>2 DEF DueIds

(* A push and a pop, seen by the requests in hand.                           *)
LEMMA HandsPush ==
  ASSUME NEW R, NEW fs \in Seq(Frame(R)), NEW f \in Frame(R)
  PROVE  Hands(<<f>> \o fs) = Ids(Todo(f)) \cup Hands(fs)
<1>1. PICK u, M : u = <<f>> \o fs /\ M = Frame(R)
  OBVIOUS
<1>2. <<f>> \in Seq(M) /\ fs \in Seq(M) /\ Len(<<f>>) = 1 /\ <<f>>[1] = f
  BY <1>1
<1>3. /\ \A i \in 1..Len(<<f>>) : i \in 1..Len(u) /\ u[i] = <<f>>[i]
      /\ \A i \in 1..Len(fs) : Len(<<f>>) + i \in 1..Len(u) /\ u[Len(<<f>>) + i] = fs[i]
  BY <1>1, <1>2, Halves
<1>4. \A i \in 1..Len(u) : i \in 1..Len(<<f>>) \/ \E j \in 1..Len(fs) : i = Len(<<f>>) + j
  BY <1>1, <1>2, Halves
<1>5. 1 \in 1..Len(u) /\ u[1] = f /\ \A i \in 1..Len(fs) : 1 + i \in 1..Len(u) /\ u[1 + i] = fs[i]
  BY <1>2, <1>3
<1>6. \A i \in 1..Len(u) : i = 1 \/ \E j \in 1..Len(fs) : i = 1 + j
  BY <1>2, <1>4
<1>7. Ids(Todo(f)) \cup Hands(fs) \subseteq Hands(u)
  BY <1>5 DEF Hands
<1>8. Hands(u) \subseteq Ids(Todo(f)) \cup Hands(fs)
  <2> SUFFICES ASSUME NEW i \in 1..Len(u) PROVE Ids(Todo(u[i])) \subseteq Ids(Todo(f)) \cup Hands(fs)
    BY DEF Hands
  <2>1. CASE i = 1
    BY <1>5, <2>1
  <2>2. CASE \E j \in 1..Len(fs) : i = 1 + j
    BY <1>5, <2>2 DEF Hands
  <2> QED
    BY <1>6, <2>1, <2>2
<1> QED
  BY <1>1, <1>7, <1>8

LEMMA NoTodo ==
  ASSUME NEW R, NEW f \in Frame(R), f.k \in {"drain", "handler", "parse"}
  PROVE  Todo(f) = <<>> /\ Ids(Todo(f)) = {}
<1>1. "todo" \notin DOMAIN f
  <2>1. f \in [k : {"drain", "handler"}] \/ f \in [k : {"parse"}, extra : Nat]
    BY DEF Frame
  <2> QED
    BY <2>1
<1>2. Todo(f) = <<>>
  BY <1>1 DEF Todo
<1> QED
  BY <1>2 DEF Ids

LEMMA DueAppend ==
  ASSUME NEW M, NEW s \in Seq(M), NEW x \in M, Due(x)
  PROVE  DueIds(Append(s, x)) = DueIds(s) \cup {x.id}
<1>1. Append(s, x) = s \o <<x>> /\ <<x>> \in Seq(M)
  BY AppendIsConcat
<1>2. DueIds(Append(s, x)) = DueIds(s) \cup DueIds(<<x>>)
  BY <1>1, DueJoin
<1>3. DueIds(<<x>>) = {x.id}
  <2>1. Len(<<x>>) = 1 /\ <<x>>[1] = x
    OBVIOUS
  <2> QED
    BY <2>1 DEF DueIds
<1> QED
  BY <1>2, <1>3

(* Whoever the line owes something waits for it.                             *)
LEMMA DueWaits ==
  ASSUME PlainInv, ~astray
  PROVE  DueIds(Line) \subseteq Ids(resp)
<1>1. Present(Line, resp)
  BY DEF PlainInv, Plain, Matched, MatchedIn
<1>2. resp \in Seq(Recs(tunnel))
  BY PlainBase
<1> SUFFICES ASSUME NEW i \in 1..Len(Line), Due(Line[i]) PROVE Line[i].id \in Ids(resp)
  BY DEF DueIds
<1>3. PICK a \in 1..Len(resp) : resp[a].id = Line[i].id
  BY <1>1 DEF Present
<1>4. resp[a] \in Recs(tunnel)
  BY <1>2
<1>5. resp[a].id # HTTP
  BY <1>4, PlainBase
<1> QED
  BY <1>3, <1>5 DEF Ids

LEMMA WayStill ==
  ASSUME WayInv, UNCHANGED <<sent, told, answered>>, forgot => forgot', astray => astray',
         ~(forgot' \/ astray') =>
           /\ Linked' /\ Bodied(buffer' \o wire')
           /\ Reached(conn, Line, frames) \subseteq Reached(conn', Line', frames')
  PROVE  WayInv'
<1> SUFFICES ASSUME ~(forgot' \/ astray')
             PROVE  /\ Linked' /\ Bodied(buffer' \o wire')
                    /\ \A r \in Requests : Owed(r)' => r \in Reached(conn', Line', frames')
  BY DEF WayInv
<1>1. \A r \in Requests : Owed(r) => r \in Reached(conn, Line, frames)
  BY DEF WayInv
<1>2. \A r \in Requests : Owed(r)' => Owed(r)
  BY DEF Owed
<1> QED
  BY <1>1, <1>2

LEMMA WayNow ==
  ASSUME WayInv, ~forgot, ~astray
  PROVE  /\ conn # <<>> => connecting # 0
         /\ resp # <<>> => in # 0
         /\ Bodied(buffer \o wire)
BY DEF WayInv, Linked

LEMMA FramesWay ==
  ASSUME PlainInv, WayInv, Return \/ Incomplete \/ TellNext \/ Connected PROVE WayInv'
<1> DEFINE R == Recs(tunnel)
<1>1. UNCHANGED <<sent, told, answered, forgot, astray, buffer, wire, asked, in, resp>> /\ Line' = Line
  <2>1. UNCHANGED <<sent, told, answered, forgot, astray, buffer, wire, asked, in, resp>>
    BY DEF Return, Incomplete, TellNext, Connected, socks, queues, history, flaws
  <2> QED
    BY <2>1 DEF Line
<1>2. OwnInv /\ R \in SUBSET Record /\ frames \in Seq(Frame(R))
  BY PlainBase
<1>3. CASE Return \/ Incomplete
  <2>1. /\ frames # <<>> /\ frames' = Below /\ Head(frames).k \in {"handler", "parse"}
        /\ UNCHANGED <<conn, connecting>>
    BY <1>3 DEF Return, Incomplete, Top, queues, socks
  <2>2. Hands(frames') = Hands(frames)
    BY <1>2, <2>1, Topmost, NoTodo
  <2> QED
    BY <1>1, <2>1, <2>2, WayStill, WayNow DEF Linked, Reached
<1>4. CASE TellNext
  <2> DEFINE f == Head(frames)  q == f.todo
  <2>1. frames # <<>> /\ f.k = "tell" /\ UNCHANGED <<conn, connecting>>
    BY <1>4 DEF TellNext, Top, queues, socks
  <2>2. Todo(f) = q /\ Good(R, q) /\ Stack(R, Below) /\ Ids(q) \cap Hands(Below) = {}
        /\ Hands(frames) = Ids(q) \cup Hands(Below)
    BY <1>2, <2>1, Topmost, Lists1
  <2>3. CASE q = <<>>
    <3>1. frames' = Below
      BY <1>4, <2>3 DEF TellNext
    <3>2. Hands(frames') = Hands(frames)
      BY <2>2, <2>3, <3>1 DEF Ids
    <3> QED
      BY <1>1, <2>1, <3>2, WayStill, WayNow DEF Linked, Reached
  <2>4. CASE q # <<>>
    <3>1. /\ Head(q) \in R /\ Good(R, Tail(q))
          /\ Ids(q) = Ids(Tail(q)) \cup ({Head(q).id} \ {HTTP})
      BY <1>2, <2>2, <2>4, Dequeued
    <3> DEFINE step == Step(TellAll(Tail(q)))  call == Call(Head(q), "error")
    <3>2. /\ Stack(R, step \o Below) /\ Hands(step \o Below) = Ids(Tail(q)) \cup Hands(Below)
          /\ step \in Seq(Frame(R))
      <4>1. Ids(Tail(q)) \cap Hands(Below) = {}
        BY <2>2, <3>1
      <4> QED
        BY <1>2, <2>2, <3>1, <4>1, Stepped
    <3>3. call \in Frame(R) /\ Todo(call) = <<Head(q)>> /\ Ids(<<Head(q)>>) = {Head(q).id} \ {HTTP}
      <4>1. "error" \in Hows /\ <<Head(q)>> \in Seq(R)
        BY <3>1 DEF Hows
      <4>2. call \in Frame(R) /\ Todo(call) = <<Head(q)>>
        BY <4>1 DEF Frame, Call, Todo
      <4> QED
        BY <4>2 DEF Ids
    <3>4. Below \in Seq(Frame(R)) /\ step \o Below \in Seq(Frame(R))
      BY <2>2, <3>2 DEF Stack
    <3>5. frames' = <<call>> \o (step \o Below)
      <4>1. frames' = <<call>> \o step \o Below
        BY <1>4, <2>4 DEF TellNext
      <4> HIDE DEF step, call
      <4> QED
        BY <3>2, <3>3, <3>4, <4>1
    <3> HIDE DEF step, call
    <3>6. Hands(frames') = Hands(frames)
      <4>1. PICK fs : fs = step \o Below
        OBVIOUS
      <4>2. fs \in Seq(Frame(R))
        BY <3>4, <4>1
      <4>3. Hands(<<call>> \o fs) = Ids(Todo(call)) \cup Hands(fs)
        BY <3>3, <4>2, HandsPush
      <4> QED
        BY <2>2, <3>1, <3>2, <3>3, <3>5, <4>1, <4>3
    <3> QED
      BY <1>1, <2>1, <3>6, WayStill, WayNow DEF Linked, Reached
  <2> QED
    BY <2>3, <2>4
<1>5. CASE Connected
  <2>1. conn' = <<>> /\ connecting' = 0 /\ frames' = Step(Resume(conn)) \o frames
    BY <1>5 DEF Connected
  <2>2. Hands(frames') = Ids(conn) \cup Hands(frames)
    BY <1>2, <2>1, Base, Stepped DEF Owned
  <2> QED
    BY <1>1, <2>1, <2>2, WayStill, WayNow DEF Linked, Reached
<1> QED
  BY <1>3, <1>4, <1>5

(* A request that is sent is reached afterwards, and so are all the others.    *)
LEMMA SendsWay ==
  ASSUME PlainInv, WayInv, NEW r \in Recs(tunnel), NEW rest \in Seq(Frame(Recs(tunnel))),
         SendRequest(r, <<>>, rest), buffer' = buffer, ~(forgot' \/ astray')
  PROVE  /\ ~(forgot \/ astray)
         /\ Linked' /\ Bodied(buffer' \o wire')
         /\ Reached(conn, Line, rest) \cup {r.id} \subseteq Reached(conn', Line', frames')
<1> DEFINE R == Recs(tunnel)
<1>1. /\ tunnel = FALSE /\ r \in Record /\ r.id # HTTP /\ R \in SUBSET Record
      /\ conn \in Seq(R) /\ asked \in Seq(Record)
      /\ buffer \in Seq(Messages) /\ wire \in Seq(Messages) /\ in \in 0..1
  BY PlainBase DEF OwnInv, Socks
<1>2. UNCHANGED flaws /\ wire' = wire
  BY <1>1 DEF SendRequest, Enqueue, Open, Tunnel, TunnelFails, Emit, Opened, NeedsTunnel, socks
<1>3. ~(forgot \/ astray)
  BY <1>2 DEF flaws
<1>4. /\ conn # <<>> => connecting # 0
      /\ resp # <<>> => in # 0
      /\ Bodied(buffer' \o wire')
  BY <1>2, <1>3, WayNow
<1>5. /\ Hands(<<Call(r, "error")>> \o rest) = {r.id} \cup Hands(rest)
  <2>1. "error" \in Hows /\ <<r>> \in Seq(R)
    BY DEF Hows
  <2>2. Call(r, "error") \in Frame(R) /\ Todo(Call(r, "error")) = <<r>>
    BY <2>1 DEF Frame, Call, Todo
  <2>3. Ids(<<r>>) = {r.id}
    BY <1>1 DEF Ids
  <2> QED
    BY <2>2, <2>3, HandsPush
<1>6. Ids(<<r>>) = {r.id} /\ Ids(Append(conn, r)) = Ids(conn) \cup {r.id} /\ Append(conn, r) # <<>>
  <2>1. Ids(<<r>>) = {r.id}
    BY <1>1 DEF Ids
  <2>2. PICK c : c = Append(conn, r)
    OBVIOUS
  <2>3. /\ Len(c) = Len(conn) + 1 /\ Len(conn) \in Nat /\ c[Len(conn) + 1] = r
        /\ \A i \in 1..Len(conn) : c[i] = conn[i]
    BY <1>1, <2>2
  <2>4. Ids(c) = Ids(conn) \cup {r.id}
    <3>1. 1..Len(c) = 1..Len(conn) \cup {Len(conn) + 1}
      BY <2>3
    <3>2. \A x : (\E i \in 1..Len(c) : x = c[i].id) <=> (\E i \in 1..Len(conn) : x = conn[i].id) \/ x = r.id
      BY <2>3, <3>1
    <3>3. Ids(c) = Ids(conn) \cup ({r.id} \ {HTTP})
      BY <3>2 DEF Ids
    <3> QED
      BY <1>1, <3>3
  <2> QED
    BY <2>1, <2>2, <2>3, <2>4
<1>7. CASE Enqueue(r, <<>>, rest)
  <2>1. /\ conn # <<>> /\ conn' = Append(conn, r) /\ frames' = rest /\ Line' = Line
        /\ UNCHANGED <<connecting, in, resp>>
    BY <1>7 DEF Enqueue, socks, Line
  <2> QED
    BY <1>3, <1>4, <1>6, <2>1 DEF Linked, Reached
<1>8. CASE Open(r, <<>>, rest)
  <2>1. conn = <<>> /\ Line' = Line /\ resp' = resp /\ Ids(conn) = {}
    BY <1>8 DEF Open, socks, Line, Ids
  <2>2. CASE Fail(r, <<>>, rest) /\ UNCHANGED <<socks, conn>>
    <3>1. frames' = <<Call(r, "error")>> \o rest /\ UNCHANGED <<conn, connecting, in>>
      BY <2>2 DEF Fail, socks
    <3> QED
      BY <1>3, <1>4, <1>5, <2>1, <3>1 DEF Linked, Reached
  <2>3. CASE in' = 1 /\ connecting' = 1 /\ conn' = <<r>> /\ frames' = rest
    BY <1>3, <1>4, <1>6, <2>1, <2>3 DEF Linked, Reached
  <2> QED
    BY <1>8, <2>2, <2>3 DEF Open
<1>9. CASE Tunnel(r, <<>>, rest) \/ TunnelFails(r, <<>>, rest)
  BY <1>1, <1>9 DEF Tunnel, TunnelFails, NeedsTunnel
<1>10. CASE Emit(r, <<>>, rest)
  <2>2. conn = <<>> /\ conn' = conn /\ in' # 0
    BY <1>1, <1>10 DEF Emit, Opened
  <2>3. CASE Transmit(r) /\ frames' = rest
    <3>1. Line' = Join(buffer, wire, Append(asked, r))
      BY <1>2, <2>3 DEF Transmit, Line
    <3>2. Due(r)
      <4>1. r \in Messages \cup Record
        BY <1>1
      <4> QED
        BY <1>1, <4>1, DueTyped
    <3>3. PICK a : a = Append(asked, r)
      OBVIOUS
    <3>31. DueIds(a) = DueIds(asked) \cup {r.id}
      <4>1. PICK M : M = Record
        OBVIOUS
      <4>2. asked \in Seq(M) /\ r \in M
        BY <1>1, <4>1
      <4>3. DueIds(Append(asked, r)) = DueIds(asked) \cup {r.id}
        BY <3>2, <4>2, DueAppend
      <4> QED
        BY <3>3, <4>3
    <3>32. a \in Seq(Record)
      BY <1>1, <3>3
    <3>4. DueIds(Line') = DueIds(buffer) \cup DueIds(wire) \cup DueIds(a)
      <4>1. DueIds(Join(buffer, wire, a)) = DueIds(buffer) \cup DueIds(wire) \cup DueIds(a)
        BY <1>1, <3>32, DueLine
      <4> QED
        BY <3>1, <3>3, <4>1
    <3>5. DueIds(Line) = DueIds(buffer) \cup DueIds(wire) \cup DueIds(asked)
      BY <1>1, DueLine DEF Line
    <3>6. Reached(conn, Line, rest) \cup {r.id} \subseteq Reached(conn', Line', frames')
      BY <2>2, <2>3, <3>31, <3>4, <3>5 DEF Reached
    <3> QED
      BY <1>3, <1>4, <2>2, <3>6 DEF Linked
  <2>4. CASE Fail(r, <<>>, rest) /\ UNCHANGED <<asked, resp>>
    <3>1. frames' = <<Call(r, "error")>> \o rest /\ Line' = Line
      BY <1>2, <2>4 DEF Fail, Line
    <3> QED
      BY <1>3, <1>4, <1>5, <2>2, <3>1 DEF Linked, Reached
  <2> QED
    BY <1>10, <2>3, <2>4 DEF Emit
<1> QED
  BY <1>7, <1>8, <1>9, <1>10 DEF SendRequest

LEMMA SendsCalm ==
  ASSUME PlainInv, NEW r, NEW rest, SendRequest(r, <<>>, rest)
  PROVE  UNCHANGED <<forgot, astray>>
<1>1. tunnel = FALSE
  BY PlainBase
<1> QED
  BY <1>1 DEF SendRequest, Enqueue, Open, Tunnel, TunnelFails, Emit, NeedsTunnel, flaws

(* A request under way is sent, and nothing else is gone from the stack.       *)
LEMMA SendsWayOn ==
  ASSUME PlainInv, WayInv, NEW r \in Recs(tunnel), NEW rest \in Seq(Frame(Recs(tunnel))),
         SendRequest(r, <<>>, rest), buffer' = buffer, UNCHANGED <<sent, told, answered>>,
         Hands(frames) \subseteq {r.id} \cup Hands(rest)
  PROVE  WayInv'
<1>1. UNCHANGED <<forgot, astray>>
  BY SendsCalm
<1>2. ASSUME ~(forgot' \/ astray')
      PROVE  /\ Linked' /\ Bodied(buffer' \o wire')
             /\ Reached(conn, Line, frames) \subseteq Reached(conn', Line', frames')
  <2>1. /\ Linked' /\ Bodied(buffer' \o wire')
        /\ Reached(conn, Line, rest) \cup {r.id} \subseteq Reached(conn', Line', frames')
    BY <1>2, SendsWay
  <2>2. Reached(conn, Line, frames) \subseteq Reached(conn, Line, rest) \cup {r.id}
    BY DEF Reached
  <2> QED
    BY <2>1, <2>2
<1> QED
  BY <1>1, <1>2, WayStill

LEMMA ResumeWay ==
  ASSUME PlainInv, WayInv, ResumeNext \/ DrainNext PROVE WayInv'
<1> DEFINE R == Recs(tunnel)
<1>1. tun = <<>> /\ OwnInv /\ R \in SUBSET Record /\ frames \in Seq(Frame(R))
  BY PlainBase
<1>2. CASE ResumeNext
  <2> DEFINE f == Head(frames)  q == f.todo  rest == Step(Resume(Tail(q))) \o Below
  <2>1. /\ frames # <<>> /\ f.k = "resume" /\ SendRequest(Head(q), tun, rest)
        /\ buffer' = buffer /\ UNCHANGED <<sent, told, answered>>
    BY <1>2 DEF ResumeNext, Top, history
  <2>2. /\ Todo(f) = q /\ q # <<>> /\ Good(R, q) /\ Stack(R, Below) /\ Ids(q) \cap Hands(Below) = {}
        /\ Hands(frames) = Ids(q) \cup Hands(Below)
    BY <1>1, <2>1, Topmost, Lists1 DEF Filled
  <2>3. /\ Head(q) \in R /\ Good(R, Tail(q))
        /\ Ids(q) = Ids(Tail(q)) \cup ({Head(q).id} \ {HTTP})
    BY <1>1, <2>2, Dequeued
  <2>4. Stack(R, rest) /\ Hands(rest) = Ids(Tail(q)) \cup Hands(Below)
    <3>1. Ids(Tail(q)) \cap Hands(Below) = {}
      BY <2>2, <2>3
    <3> QED
      BY <1>1, <2>2, <2>3, <3>1, Stepped
  <2>5. Hands(frames) \subseteq {Head(q).id} \cup Hands(rest)
    BY <2>2, <2>3, <2>4
  <2>6. rest \in Seq(Frame(R)) /\ SendRequest(Head(q), <<>>, rest)
    BY <1>1, <2>1, <2>4 DEF Stack
  <2> HIDE DEF q, rest
  <2> QED
    BY <2>1, <2>3, <2>5, <2>6, SendsWayOn
<1>3. CASE DrainNext
  <2>1. /\ frames # <<>> /\ Head(frames).k = "drain" /\ frames' = Below
        /\ UNCHANGED <<sent, told, answered, forgot, astray, buffer, wire, asked, in, connecting, conn, resp>>
    BY <1>1, <1>3 DEF DrainNext, Top, history, socks, queues, flaws
  <2>2. Hands(frames') = Hands(frames) /\ Line' = Line
    BY <1>1, <2>1, Topmost, NoTodo DEF Line
  <2> QED
    BY <2>1, <2>2, WayStill, WayNow DEF Linked, Reached
<1> QED
  BY <1>2, <1>3

LEMMA ResendWay ==
  ASSUME PlainInv, WayInv, ResendCommand PROVE WayInv'
<1> DEFINE R == Recs(tunnel)  f == Head(frames)  r == Head(f.todo)  s == Renumbered(r)
<1>1. /\ frames # <<>> /\ f.k = "resend" /\ SendRequest(s, tun, Below)
      /\ buffer' = buffer /\ UNCHANGED <<sent, told, answered>>
  BY DEF ResendCommand, Top, history
<1>2. tun = <<>> /\ OwnInv /\ R \in SUBSET Record /\ fCSeq \in Nat
  BY PlainBase DEF OwnInv, Typed
<1>3. /\ Todo(f) = f.todo /\ f.todo = <<r>> /\ Good(R, f.todo) /\ Stack(R, Below)
      /\ Hands(frames) = Ids(f.todo) \cup Hands(Below)
  BY <1>1, <1>2, Topmost, Lists1 DEF Filled
<1>4. r \in R
  <2>1. f.todo # <<>>
    BY <1>1, <1>2, <1>3, Topmost DEF Filled
  <2> QED
    BY <1>2, <1>3, <2>1, Dequeued
<1>5. r.id # HTTP /\ r \in Record
  BY <1>4, PlainBase
<1>6. s \in R /\ s.id = r.id
  <2>1. r = [id |-> r.id, cseq |-> r.cseq] /\ r.id \in {HTTP} \cup Requests
    BY <1>5 DEF Record
  <2>2. fCSeq + 1 \in Nat
    BY <1>2
  <2>3. [r EXCEPT !.cseq = fCSeq + 1] = [id |-> r.id, cseq |-> fCSeq + 1]
    BY <2>1
  <2>4. s = [id |-> r.id, cseq |-> fCSeq + 1]
    BY <1>5, <2>3 DEF Renumbered
  <2>5. [id |-> r.id, cseq |-> fCSeq + 1] \in R
    BY <1>5, <2>1, <2>2 DEF Recs, Record
  <2> QED
    BY <2>4, <2>5
<1>7. Hands(frames) \subseteq {s.id} \cup Hands(Below)
  <2>1. Ids(<<r>>) = {r.id} \ {HTTP}
    BY <1>2, <1>4, Short
  <2> QED
    BY <1>3, <1>6, <2>1
<1>8. Below \in Seq(Frame(R)) /\ SendRequest(s, <<>>, Below)
  BY <1>1, <1>2, <1>3 DEF Stack
<1> HIDE DEF s
<1> QED
  BY <1>1, <1>6, <1>7, <1>8, SendsWayOn

LEMMA MakeWay ==
  ASSUME PlainInv, WayInv, NEW r \in Requests, Make(r) PROVE WayInv'
<1> DEFINE R == Recs(tunnel)  rec == [id |-> r, cseq |-> fCSeq + 1]
<1>1. /\ sent' = sent \cup {r} /\ SendRequest(rec, tun, frames)
      /\ UNCHANGED <<buffer, answered, told>>
  BY DEF Make
<1>2. tun = <<>> /\ fCSeq \in Nat /\ r # HTTP /\ frames \in Seq(Frame(R))
  <2>1. tun = <<>> /\ OwnInv /\ frames \in Seq(Frame(R))
    BY PlainBase
  <2>2. fCSeq \in Nat
    BY <2>1 DEF OwnInv, Typed
  <2>3. r # HTTP
    BY ClientAssumption DEF Requests, HTTP
  <2> QED
    BY <2>1, <2>2, <2>3
<1>3. rec \in R /\ rec.id = r
  BY <1>2 DEF Recs, Record
<1> HIDE DEF rec
<1>4. SendRequest(rec, <<>>, frames) /\ buffer' = buffer
  BY <1>1, <1>2
<1> SUFFICES ASSUME ~(forgot' \/ astray')
             PROVE  /\ Linked' /\ Bodied(buffer' \o wire')
                    /\ \A x \in Requests : Owed(x)' => x \in Reached(conn', Line', frames')
  BY DEF WayInv
<1>5. /\ Linked' /\ Bodied(buffer' \o wire') /\ ~(forgot \/ astray)
      /\ Reached(conn, Line, frames) \cup {rec.id} \subseteq Reached(conn', Line', frames')
  BY <1>2, <1>3, <1>4, SendsWay
<1>6. \A x \in Requests : Owed(x) => x \in Reached(conn, Line, frames)
  BY <1>5 DEF WayInv
<1>7. \A x \in Requests : Owed(x)' => Owed(x) \/ x = r
  BY <1>1 DEF Owed
<1> QED
  BY <1>3, <1>5, <1>6, <1>7

LEMMA CallWay ==
  ASSUME PlainInv, WayInv, CallHandler PROVE WayInv'
<1> DEFINE f == Head(frames)  r == Head(f.todo).id  R == Recs(tunnel)
<1>1. /\ frames # <<>> /\ f.k = "call" /\ r # HTTP /\ frames' = <<Handler>> \o Below
      /\ told' = [told EXCEPT ![r] = Append(@, f.how)]
      /\ UNCHANGED <<sent, answered, forgot, astray, buffer, wire, asked, conn, resp, in, connecting>>
  BY DEF CallHandler, Top, socks, queues, flaws
<1>2. OwnInv /\ R \in SUBSET Record /\ told \in [Requests -> Seq(Hows)]
  BY PlainBase DEF OwnInv, Typed
<1>3. /\ Todo(f) = f.todo /\ f.todo # <<>> /\ f.todo = <<Head(f.todo)>> /\ Good(R, f.todo)
      /\ f.how \in Hows /\ Stack(R, Below) /\ Hands(frames) = Ids(f.todo) \cup Hands(Below)
  BY <1>1, <1>2, Topmost, Lists1 DEF Filled
<1>4. Head(f.todo) \in R
  BY <1>2, <1>3, Dequeued
<1>5. r \in Requests
  BY <1>4, PlainBase
<1>6. Hands(frames) \subseteq {r} \cup Hands(Below)
  <2>1. Ids(<<Head(f.todo)>>) = {r} \ {HTTP}
    BY <1>2, <1>4, Short
  <2> QED
    BY <1>3, <2>1
<1>7. Hands(frames') = Hands(Below)
  <2>1. Handler \in Frame(R) /\ Handler.k = "handler"
    BY DEF Handler, Frame
  <2>2. Ids(Todo(Handler)) = {}
    BY <2>1, NoTodo
  <2>3. Below \in Seq(Frame(R))
    BY <1>3 DEF Stack
  <2> QED
    BY <1>1, <2>1, <2>2, <2>3, HandsPush
<1>8. told'[r] # <<>>
  <2>1. told'[r] = Append(told[r], f.how) /\ told[r] \in Seq(Hows)
    BY <1>1, <1>2, <1>5
  <2>2. PICK t, x : t = told[r] /\ x = f.how
    OBVIOUS
  <2>6. t \in Seq(Hows)
    BY <2>1, <2>2
  <2>3. Len(Append(t, x)) = Len(t) + 1 /\ Len(t) \in Nat
    BY ONLY <2>6
  <2>4. Append(t, x) # <<>>
    BY <2>3
  <2> QED
    BY <2>1, <2>2, <2>4
<1> HIDE DEF f, r
<1>9. \A x \in Requests : Owed(x)' => Owed(x) /\ x # r
  <2>1. \A x \in Requests : x # r => told'[x] = told[x]
    BY <1>1, <1>2
  <2> QED
    BY <1>1, <1>8, <2>1 DEF Owed
<1>10. Line' = Line
  BY <1>1 DEF Line
<1> SUFFICES ASSUME ~(forgot \/ astray)
             PROVE  /\ Linked' /\ Bodied(buffer' \o wire')
                    /\ \A x \in Requests : Owed(x)' => x \in Reached(conn', Line', frames')
  BY <1>1 DEF WayInv
<1>11. Linked' /\ Bodied(buffer' \o wire')
  BY <1>1, WayNow DEF Linked
<1>12. \A x \in Requests : Owed(x) => x \in Reached(conn, Line, frames)
  BY DEF WayInv
<1> QED
  BY <1>1, <1>6, <1>7, <1>9, <1>10, <1>11, <1>12 DEF Reached

LEMMA AskWay ==
  ASSUME PlainInv, WayInv, AskClient \/ Close PROVE WayInv'
<1>1. /\ UNCHANGED <<sent, told, answered, forgot, astray, buffer, asked, conn, resp, in, connecting, frames>>
      /\ wire' = Append(wire, Ask) \/ wire' = wire
  BY DEF AskClient, Close, queues, history, flaws
<1>2. buffer \in Seq(Messages) /\ wire \in Seq(Messages) /\ asked \in Seq(Record)
  BY PlainBase
<1>3. CASE wire' = wire
  <2>1. Line' = Line
    BY <1>1, <1>3 DEF Line
  <2> QED
    BY <1>1, <1>3, <2>1, WayStill, WayNow DEF Linked, Reached
<1>4. CASE wire' = Append(wire, Ask)
  <2>1. wire' = wire \o <<Ask>> /\ <<Ask>> \in Seq(Messages) /\ wire \o <<Ask>> \in Seq(Messages)
    <3>1. Ask \in Messages
      BY DEF Messages
    <3>2. <<Ask>> \in Seq(Messages)
      BY <3>1
    <3> QED
      BY <1>2, <1>4, <3>2, AppendIsConcat
  <2>2. DueIds(Line) \subseteq DueIds(Line')
    <3>1. DueIds(Line') = DueIds(buffer) \cup DueIds(wire \o <<Ask>>) \cup DueIds(asked)
      <4>1. PICK w : w = wire \o <<Ask>>
        OBVIOUS
      <4>2. w \in Seq(Messages) /\ Line' = Join(buffer, w, asked)
        BY <1>1, <2>1, <4>1 DEF Line
      <4>3. DueIds(Join(buffer, w, asked)) = DueIds(buffer) \cup DueIds(w) \cup DueIds(asked)
        BY <1>2, <4>2, DueLine
      <4> QED
        BY <4>1, <4>2, <4>3
    <3>2. DueIds(Line) = DueIds(buffer) \cup DueIds(wire) \cup DueIds(asked)
      BY <1>2, DueLine DEF Line
    <3>3. DueIds(wire \o <<Ask>>) = DueIds(wire) \cup DueIds(<<Ask>>)
      BY <1>2, <2>1, DueJoin, ZenonT(60)
    <3> QED
      BY <3>1, <3>2, <3>3
  <2>3. ASSUME Bodied(buffer \o wire) PROVE Bodied(buffer \o wire')
    <3>1. buffer \o wire' = (buffer \o wire) \o <<Ask>>
      BY <1>2, <2>1, ConcatAssociative
    <3>2. Bodied(<<Ask>>)
      <4>1. \A i \in 1..Len(<<Ask>>) : <<Ask>>[i] = Ask
        OBVIOUS
      <4> QED
        BY <4>1 DEF Bodied, Due
    <3>3. buffer \o wire \in Seq(Messages)
      BY <1>2
    <3> QED
      BY <2>1, <2>3, <3>1, <3>2, <3>3, BodiedJoin
  <2> QED
    BY <1>1, <2>2, <2>3, WayStill, WayNow DEF Linked, Reached
<1> QED
  BY <1>1, <1>3, <1>4

(* The server serves the next request: what it says is v, or nothing.         *)
LEMMA ServedWay ==
  ASSUME PlainInv, WayInv, asked # <<>>, asked' = Tail(asked),
         UNCHANGED <<buffer, conn, resp, frames, forgot, astray, in, connecting>>,
         NEW v \in Seq(Messages), wire' = wire \o v, Bodied(v),
         ~astray => \A x \in Requests :
                      Owed(x)' => Owed(x) /\ (x # Head(asked).id \/ x \in DueIds(v))
  PROVE  WayInv'
<1> SUFFICES ASSUME ~(forgot \/ astray)
             PROVE  /\ Linked' /\ Bodied(buffer' \o wire')
                    /\ \A x \in Requests : Owed(x)' => x \in Reached(conn', Line', frames')
  BY DEF WayInv
<1>1. buffer \in Seq(Messages) /\ wire \in Seq(Messages) /\ asked \in Seq(Record)
  BY PlainBase
<1>2. PICK w, a, r : w = wire \o v /\ a = Tail(asked) /\ r = Head(asked)
  OBVIOUS
<1>3. w \in Seq(Messages) /\ a \in Seq(Record) /\ r \in Record
  BY <1>1, <1>2
<1>4. Line' = Join(buffer, w, a)
  BY <1>2 DEF Line
<1>5. DueIds(Line') = DueIds(buffer) \cup DueIds(w) \cup DueIds(a)
  <2>1. DueIds(Join(buffer, w, a)) = DueIds(buffer) \cup DueIds(w) \cup DueIds(a)
    BY <1>1, <1>3, DueLine
  <2> QED
    BY <1>4, <2>1
<1>6. DueIds(w) = DueIds(wire) \cup DueIds(v)
  BY <1>1, <1>2, DueJoin
<1>7. DueIds(Line) = DueIds(buffer) \cup DueIds(wire) \cup DueIds(asked)
  BY <1>1, DueLine DEF Line
<1>8. DueIds(asked) = {r.id} \cup DueIds(a)
  <2>1. Due(r)
    <3>1. r \in Messages \cup Record
      BY <1>3
    <3> QED
      BY <1>3, <3>1, DueTyped
  <2>2. asked # <<>> /\ Due(Head(asked))
    BY <1>2, <2>1
  <2>3. DueIds(asked) = {Head(asked).id} \cup DueIds(Tail(asked))
    BY <1>1, <2>2, DueHead
  <2> QED
    BY <1>2, <2>3
<1>9. Bodied(buffer' \o wire')
  <2>1. buffer \o wire' = (buffer \o wire) \o v
    <3>1. \A s, t \in Seq(Messages) : (s \o t) \o v = s \o (t \o v)
      BY ONLY v \in Seq(Messages), ConcatAssociative
    <3>2. (buffer \o wire) \o v = buffer \o (wire \o v)
      BY <1>1, <3>1
    <3> QED
      BY <3>2
  <2>2. buffer \o wire \in Seq(Messages) /\ Bodied(buffer \o wire)
    BY <1>1, WayNow
  <2>3. PICK s : s = buffer \o wire
    OBVIOUS
  <2>4. Bodied(s \o v)
    BY <2>2, <2>3, BodiedJoin
  <2> QED
    BY <2>1, <2>3, <2>4
<1>10. Linked'
  BY WayNow DEF Linked
<1>11. \A x \in Requests : Owed(x) => x \in Reached(conn, Line, frames)
  BY DEF WayInv
<1>12. \A x \in Requests : Owed(x)' => Owed(x) /\ (x # r.id \/ x \in DueIds(v))
  BY <1>2
<1> HIDE DEF Owed
<1> QED
  BY <1>5, <1>6, <1>7, <1>8, <1>9, <1>10, <1>11, <1>12 DEF Reached

LEMMA SkipWay ==
  ASSUME PlainInv, WayInv, Skip PROVE WayInv'
<1>1. /\ asked # <<>> /\ asked' = Tail(asked) /\ wire' = wire
      /\ answered' = [answered EXCEPT ![Head(asked).id] = "skip"]
      /\ UNCHANGED <<buffer, conn, resp, frames, forgot, astray, in, connecting, sent, told>>
  BY DEF Skip, queues, flaws
<1>2. <<>> \in Seq(Messages) /\ wire' = wire \o <<>>
  <2>1. wire \in Seq(Messages)
    BY PlainBase
  <2> QED
    BY <1>1, <2>1
<1>3. Bodied(<<>>)
  BY DEF Bodied
<1>4. answered \in [Requests -> {"none", "ok", "fail", "skip"}]
  BY PlainBase DEF OwnInv, Typed
<1>5. \A x \in Requests : Owed(x)' => Owed(x) /\ x # Head(asked).id
  BY <1>1, <1>4 DEF Owed
<1> HIDE DEF Owed
<1> QED
  BY <1>1, <1>2, <1>3, <1>5, ServedWay

(* The server's answer is a header, and its body right behind it.             *)
LEMMA PutWay ==
  ASSUME NEW kind \in {"ok", "fail", "again", "moved", "bad"}, NEW r \in Record,
         NEW close \in BOOLEAN, NEW body \in BOOLEAN, Put(Head1(kind, r, close, body))
  PROVE  \E v \in Seq(Messages) : wire' = wire \o v /\ Bodied(v) /\ r.id \in DueIds(v)
<1> DEFINE h == Head1(kind, r, close, body)
<1>1. h \in Heads /\ h.id = r.id
  BY DEF Head1, Heads, Record
<1>2. h \in Messages /\ Body \in Messages /\ ~Due(Body)
  BY <1>1 DEF Messages, Due
<1>3. Due(h)
  <2>1. h \in Messages \cup Record
    BY <1>2
  <2> QED
    BY <1>1, <2>1, DueTyped
<1>4. wire' = wire \o (IF h.body THEN <<h, Body>> ELSE <<h>>)
  BY DEF Put
<1> HIDE DEF h
<1>5. CASE h.body
  <2>1. PICK v : v = <<h, Body>>
    OBVIOUS
  <2>2. v \in Seq(Messages) /\ Len(v) = 2 /\ v[1] = h /\ v[2] = Body /\ wire' = wire \o v
    BY <1>2, <1>4, <1>5, <2>1
  <2>3. Bodied(v)
    <3>1. \A i \in 1..Len(v) : Due(v[i]) => i + 1 \in 1..Len(v) /\ v[i + 1] = Body
      BY <1>2, <2>2
    <3> QED
      BY <3>1 DEF Bodied
  <2>4. r.id \in DueIds(v)
    <3>1. 1 \in 1..Len(v)
      BY <2>2
    <3> QED
      BY <1>1, <1>3, <2>2, <3>1 DEF DueIds
  <2> QED
    BY <2>2, <2>3, <2>4
<1>6. CASE ~h.body
  <2>1. PICK v : v = <<h>>
    OBVIOUS
  <2>2. v \in Seq(Messages) /\ Len(v) = 1 /\ v[1] = h /\ wire' = wire \o v
    BY <1>2, <1>4, <1>6, <2>1
  <2>3. Bodied(v)
    <3>1. \A i \in 1..Len(v) : v[i] = h
      BY <2>2
    <3> QED
      BY <1>6, <3>1 DEF Bodied
  <2>4. r.id \in DueIds(v)
    <3>1. 1 \in 1..Len(v)
      BY <2>2
    <3> QED
      BY <1>1, <1>3, <2>2, <3>1 DEF DueIds
  <2> QED
    BY <2>2, <2>3, <2>4
<1> QED
  BY <1>5, <1>6

LEMMA ReplyWay ==
  ASSUME PlainInv, WayInv, Reply PROVE WayInv'
<1> DEFINE r == Head(asked)
<1>1. /\ asked # <<>> /\ asked' = Tail(asked)
      /\ UNCHANGED <<buffer, conn, resp, frames, forgot, astray, in, connecting, sent, told>>
  BY DEF Reply, queues, flaws
<1>2. r \in Record
  <2>1. asked \in Seq(Record)
    BY PlainBase
  <2> QED
    BY <1>1, <2>1
<1>3. answered \in [Requests -> {"none", "ok", "fail", "skip"}]
  BY PlainBase DEF OwnInv, Typed
<1>4. PICK body \in BOOLEAN, close \in BOOLEAN, kind \in {"ok", "fail", "again", "moved", "bad"} :
        /\ Put(Head1(kind, r, close, body))
        /\ answered' = answered \/ answered' = [answered EXCEPT ![r.id] = kind]
  <2>1. PICK body \in BOOLEAN, close \in BOOLEAN :
        \/ \E kind \in {"ok", "fail"} :
             /\ Put(Head1(kind, r, close, body))
             /\ answered' = IF r.id = HTTP THEN answered ELSE [answered EXCEPT ![r.id] = kind]
        \/ \E kind \in {"again", "moved", "bad"} :
             /\ Put(Head1(kind, r, close, body))
             /\ answered' = answered
    BY DEF Reply
  <2> HIDE DEF r
  <2>2. \E kind \in {"ok", "fail", "again", "moved", "bad"} :
          /\ Put(Head1(kind, r, close, body))
          /\ answered' = answered \/ answered' = [answered EXCEPT ![r.id] = kind]
    BY <2>1
  <2> QED
    BY <2>1, <2>2
<1>5. PICK v \in Seq(Messages) : wire' = wire \o v /\ Bodied(v) /\ r.id \in DueIds(v)
  BY <1>2, <1>4, PutWay
<1>6. ASSUME ~astray, NEW x \in Requests, Owed(x)'
      PROVE  Owed(x) /\ (x # Head(asked).id \/ x \in DueIds(v))
  <2>1. answered[r.id] = "none"
    BY <1>1, <1>6, AskedWaits
  <2>2. answered'[x] = answered[x] \/ x = r.id
    BY <1>3, <1>4
  <2>3. answered[x] # "skip"
    BY <1>6, <2>1, <2>2 DEF Owed
  <2> QED
    BY <1>1, <1>5, <1>6, <2>3 DEF Owed
<1> QED
  BY <1>1, <1>5, <1>6, ServedWay

(* Where nothing is due.                                                     *)
LEMMA NoneDue ==
  ASSUME NEW s, DueIds(s) = {} PROVE Bodied(s) /\ \A i \in 1..Len(s) : ~Due(s[i])
<1>1. \A i \in 1..Len(s) : ~Due(s[i])
  BY DEF DueIds
<1> QED
  BY <1>1 DEF Bodied

LEMMA FailsWay ==
  ASSUME PlainInv, WayInv, ConnectionFails PROVE WayInv'
<1>1. /\ conn' = <<>> /\ resp' = resp /\ asked' = <<>> /\ wire' = <<>> /\ buffer' = buffer
      /\ frames' = Step(TellAll(conn)) \o frames
      /\ UNCHANGED <<sent, told, answered, astray>>
      /\ forgot' = (forgot \/ conn' # <<>> \/ resp' # <<>> \/ <<>> # <<>>)
  BY DEF ConnectionFails, ResetSockets, ForgetThem, Forget, history
<1>2. ASSUME ~(forgot' \/ astray')
      PROVE  /\ Linked' /\ Bodied(buffer' \o wire')
             /\ Reached(conn, Line, frames) \subseteq Reached(conn', Line', frames')
  <2>1. resp = <<>> /\ ~astray
    BY <1>1, <1>2
  <2>2. DueIds(Line) = {}
    <3>1. Ids(resp) = {}
      BY <2>1 DEF Ids
    <3> QED
      BY <2>1, <3>1, DueWaits
  <2>3. Hands(frames') = Ids(conn) \cup Hands(frames)
    BY <1>1, PlainBase, Base, Stepped DEF Owned
  <2>4. Bodied(buffer' \o wire')
    <3>1. buffer \in Seq(Messages) /\ wire \in Seq(Messages) /\ asked \in Seq(Record)
      BY PlainBase
    <3>2. DueIds(buffer) = {}
      BY <2>2, <3>1, DueLine DEF Line
    <3>3. buffer' \o wire' = buffer
      BY <1>1, <3>1
    <3> QED
      BY <3>2, <3>3, NoneDue
  <2> QED
    BY <1>1, <2>1, <2>2, <2>3, <2>4 DEF Linked, Reached
<1> QED
  BY <1>1, <1>2, WayStill

LEMMA ReadErrorWay ==
  ASSUME PlainInv, WayInv, ReadError PROVE WayInv'
<1>1. /\ conn' = conn /\ resp' = <<>> /\ buffer' = <<>> /\ asked' = <<>> /\ wire' = <<>>
      /\ frames' = Step(TellAll(resp)) \o frames
      /\ UNCHANGED <<sent, told, answered, astray>>
      /\ forgot' = (forgot \/ conn' # <<>> \/ resp' # <<>> \/ <<>> # <<>>)
  BY DEF ReadError, ResetSockets, ForgetThem, Forget, history
<1>2. ASSUME ~(forgot' \/ astray')
      PROVE  /\ Linked' /\ Bodied(buffer' \o wire')
             /\ Reached(conn, Line, frames) \subseteq Reached(conn', Line', frames')
  <2>1. conn = <<>> /\ ~astray
    BY <1>1, <1>2
  <2>2. DueIds(Line) \subseteq Ids(resp)
    BY <2>1, DueWaits
  <2>3. Hands(frames') = Ids(resp) \cup Hands(frames)
    BY <1>1, PlainBase, Base, Stepped DEF Owned
  <2>4. Bodied(buffer' \o wire')
    BY <1>1 DEF Bodied
  <2> QED
    BY <1>1, <2>1, <2>2, <2>3, <2>4 DEF Linked, Reached
<1> QED
  BY <1>1, <1>2, WayStill

LEMMA RecvWay ==
  ASSUME PlainInv, WayInv, Recv PROVE WayInv'
<1>1. /\ UNCHANGED <<conn, resp, in, connecting, sent, told, answered, forgot, astray, asked>>
      /\ frames' = <<Parse(0)>> \o frames
  BY DEF Recv, queues, history, flaws
<1>2. buffer' \o wire' = buffer \o wire
  BY Received
<1>3. Line' = Line
  BY <1>1, <1>2 DEF Line, Join
<1>4. Hands(frames') = Hands(frames)
  <2>1. frames \in Seq(Frame(Recs(tunnel)))
    BY PlainBase
  <2>2. Parse(0) \in Frame(Recs(tunnel)) /\ Parse(0).k = "parse"
    BY DEF Parse, Frame
  <2>3. Ids(Todo(Parse(0))) = {}
    BY <2>2, NoTodo
  <2> QED
    BY <1>1, <2>1, <2>2, <2>3, HandsPush
<1> QED
  BY <1>1, <1>2, <1>3, <1>4, WayStill, WayNow DEF Linked, Reached

(* The buffer loses its front.                                                *)
LEMMA BodiedOn ==
  ASSUME NEW b \in Seq(Messages), NEW w \in Seq(Messages), NEW c \in Seq(Messages),
         NEW n \in Nat, Len(c) + n = Len(b), Ends(c, b, n), Bodied(b \o w)
  PROVE  Bodied(c \o w)
<1>1. <<>> \in Seq(Record)
  OBVIOUS
<1>2. Ends(Join(c, w, <<>>), Join(b, w, <<>>), n)
  BY <1>1, Cut
<1>3. Join(c, w, <<>>) = c \o w /\ Join(b, w, <<>>) = b \o w
  <2>1. PICK x, y : x = c \o w /\ y = b \o w
    OBVIOUS
  <2>2. x \in Seq(Messages) /\ y \in Seq(Messages)
    BY <2>1
  <2>3. x \o <<>> = x /\ y \o <<>> = y
    BY <2>2
  <2> QED
    BY <2>1, <2>3 DEF Join
<1>4. PICK x, y : x = c \o w /\ y = b \o w
  OBVIOUS
<1>5. Len(x) \in Nat /\ Len(x) + n = Len(y)
  <2>1. Len(x) = Len(c) + Len(w) /\ Len(y) = Len(b) + Len(w) /\ Len(x) \in Nat
    BY <1>4, Halves
  <2>2. Len(c) \in Nat /\ Len(w) \in Nat /\ Len(b) \in Nat
    OBVIOUS
  <2>3. \A i, j, k, l, m \in Nat : i = k + l /\ j = m + l /\ k + n = m => i + n = j
    OBVIOUS
  <2>4. Len(y) \in Nat
    BY <2>1, <2>2
  <2> QED
    BY <2>1, <2>2, <2>3, <2>4, SMTT(60)
<1>6. Ends(x, y, n) /\ Bodied(y)
  BY <1>2, <1>3, <1>4
<1>7. Bodied(x)
  BY <1>5, <1>6, BodiedCut
<1> QED
  BY <1>4, <1>7

LEMMA IncomingWay ==
  ASSUME PlainInv, WayInv, IncomingRequest PROVE WayInv'
<1>1. /\ frames # <<>> /\ Head(frames).k = "parse" /\ frames' = Below
      /\ UNCHANGED <<conn, resp, sent, told, answered, astray, asked, wire, in, connecting>>
      /\ forgot' = (forgot \/ Len(buffer) > 1)
  BY DEF IncomingRequest, Top, socks, queues, history
<1>2. PICK n \in Nat : /\ buffer' \in Seq(Messages) /\ Len(buffer') + n = Len(buffer)
                       /\ Ends(buffer', buffer, n)
  BY IncomingCuts
<1>3. buffer \in Seq(Messages) /\ wire \in Seq(Messages) /\ asked \in Seq(Record) /\ OwnInv
  BY PlainBase
<1>4. Hands(frames') = Hands(frames)
  BY <1>1, <1>3, Topmost, NoTodo
<1>5. ASSUME ~(forgot' \/ astray')
      PROVE  /\ Linked' /\ Bodied(buffer' \o wire')
             /\ Reached(conn, Line, frames) \subseteq Reached(conn', Line', frames')
  <2>1. ~forgot /\ ~astray /\ Len(buffer) <= 1
    <3>1. ~forgot' /\ ~astray'
      BY <1>5
    <3>2. ~forgot /\ ~(Len(buffer) > 1) /\ ~astray
      BY <1>1, <3>1
    <3>3. Len(buffer) \in Nat
      BY <1>3
    <3> QED
      BY <3>2, <3>3
  <2>2. DueIds(buffer) = {}
    <3>1. ASSUME NEW i \in 1..Len(buffer) PROVE ~Due(buffer[i])
      <4>1. i = 1 /\ buffer[1] = Head(buffer) /\ buffer[1] \in Messages
        BY <1>3, <2>1
      <4>2. Head(buffer).what \in {"body", "ask"}
        BY DEF IncomingRequest, IsHead
      <4>3. Head(buffer) \notin Heads
        BY <4>2 DEF Heads
      <4> QED
        BY <4>1, <4>3 DEF Messages, Due
    <3> QED
      BY <3>1 DEF DueIds
  <2>3. DueIds(Line) = DueIds(wire) \cup DueIds(asked)
    BY <1>3, <2>2, DueLine DEF Line
  <2>4. DueIds(Line') = DueIds(buffer') \cup DueIds(wire) \cup DueIds(asked)
    <3>1. DueIds(Join(buffer', wire, asked)) = DueIds(buffer') \cup DueIds(wire) \cup DueIds(asked)
      BY <1>2, <1>3, DueLine
    <3> QED
      BY <1>1, <3>1 DEF Line
  <2>5. Bodied(buffer' \o wire')
    <3>1. Bodied(buffer \o wire)
      BY <2>1, WayNow
    <3>2. Bodied(buffer' \o wire)
      BY <1>2, <1>3, <3>1, BodiedOn
    <3> QED
      BY <1>1, <3>2
  <2> QED
    BY <1>1, <1>4, <2>1, <2>3, <2>4, <2>5, WayNow DEF Linked, Reached
<1> QED
  BY <1>1, <1>5, WayStill

LEMMA AwaitBodyWay ==
  ASSUME PlainInv, WayInv, AwaitBody PROVE WayInv'
<1> DEFINE h == Head(buffer)
<1>1. /\ frames # <<>> /\ buffer # <<>> /\ IsHead(h) /\ Head(frames).k = "parse"
      /\ UNCHANGED <<conn, buffer, sent, answered, told>>
      /\ resp' = Found(h) \o Rest(h) /\ frames' = Below
      /\ SocketsAfter(Closes(h), <<>>) /\ astray' = (astray \/ Astray(h))
  BY DEF AwaitBody, Top, history
<1>2. /\ forgot' \/ (UNCHANGED socks /\ forgot' = (forgot \/ <<>> # <<>>)) \/ resp' = <<>>
      /\ forgot => forgot'
  BY <1>1 DEF SocketsAfter, Forget
<1>3. Hands(frames') = Hands(frames)
  BY <1>1, PlainBase, Topmost, NoTodo
<1>4. ASSUME ~(forgot' \/ astray')
      PROVE  /\ ~forgot /\ Linked' /\ Bodied(buffer' \o wire')
             /\ Reached(conn, Line, frames) \subseteq Reached(conn', Line', frames')
  <2>1. ~astray /\ ~Astray(h)
    BY <1>1, <1>4
  <2>2. PICK n \in 1..Len(resp) :
           /\ Found(h) = <<resp[n]>> /\ Rest(h) = SubSeq(resp, n + 1, Len(resp))
    BY <1>1, <2>1, FindsOwn
  <2>3. resp \in Seq(Recs(tunnel))
    BY PlainBase
  <2>4. resp # <<>> /\ resp' # <<>>
    <3>1. resp # <<>>
      BY <2>2, <2>3
    <3>2. Len(<<resp[n]>> \o SubSeq(resp, n + 1, Len(resp))) + (n - 1) = Len(resp)
      BY <2>3, QueueRest
    <3>3. Len(resp) \in Nat /\ n <= Len(resp) /\ n \in Nat
      BY <2>3
    <3>4. PICK x : x = <<resp[n]>> \o SubSeq(resp, n + 1, Len(resp))
      OBVIOUS
    <3>5. Len(x) # 0
      BY <3>2, <3>3, <3>4
    <3>6. x # <<>>
      BY <3>5
    <3> QED
      BY <1>1, <2>2, <3>1, <3>4, <3>6
  <2>5. UNCHANGED <<in, connecting, wire, asked>> /\ ~forgot
    BY <1>2, <1>4, <2>4 DEF socks
  <2>6. Line' = Line
    BY <1>1, <2>5 DEF Line
  <2> QED
    BY <1>1, <1>3, <2>1, <2>4, <2>5, <2>6, WayNow DEF Linked, Reached
<1> QED
  BY <1>1, <1>2, <1>4, WayStill

(* A whole response takes its record to a frame, and itself from the line.    *)
LEMMA ResponseWay ==
  ASSUME PlainInv, WayInv, Response PROVE WayInv'
<1> DEFINE R     == Recs(tunnel)
           h     == Head(buffer)
           size  == IF h.body THEN 2 ELSE 1
           extra == SubSeq(buffer, size + 1, Len(buffer))
           found == Found(h)
           again == h.what \in {"again", "moved"} /\ found # <<>>
           next  == ParseRest(h, extra) \o Below
           how   == IF h.what = "bad" THEN "error" ELSE h.what
<1>1. /\ frames # <<>> /\ Head(frames).k = "parse" /\ buffer # <<>> /\ IsHead(h) /\ size <= Len(buffer)
      /\ UNCHANGED <<conn, sent, answered, told>>
      /\ resp' = Rest(h) /\ astray' = (astray \/ Astray(h))
      /\ IF again
         THEN /\ buffer' = <<>>
              /\ SocketsAfter(Closes(h) \/ h.what = "moved" \/ Ids(found) = {}, extra)
              /\ frames' = <<Resend(Head(found))>> \o Below
         ELSE /\ buffer' = extra
              /\ SocketsAfter(Closes(h), IF h.what = "bad" \/ Closes(h) THEN extra ELSE <<>>)
              /\ frames' = IF found = <<>> THEN next ELSE <<Call(Head(found), how)>> \o next
  BY DEF Response, Top, history
<1>2. forgot => forgot'
  <2>1. \E reset, lost : SocketsAfter(reset, lost)
    BY <1>1
  <2> QED
    BY <2>1 DEF SocketsAfter, Forget
<1>3. /\ buffer \in Seq(Messages) /\ Len(buffer) \in Nat /\ OwnInv
      /\ wire \in Seq(Messages) /\ asked \in Seq(Record)
      /\ R \in SUBSET Record /\ resp \in Seq(R) /\ frames \in Seq(Frame(R))
      /\ size \in Nat /\ size >= 1
  <2>1. /\ buffer \in Seq(Messages) /\ OwnInv /\ R \in SUBSET Record /\ resp \in Seq(R)
        /\ wire \in Seq(Messages) /\ asked \in Seq(Record) /\ frames \in Seq(Frame(R))
    BY PlainBase
  <2> QED
    BY <2>1
<1>4. size \in {1, 2} /\ (size = 2 => h.body)
  OBVIOUS
<1> HIDE DEF size
<1>5. /\ extra \in Seq(Messages) /\ Len(extra) + size = Len(buffer) /\ Len(extra) \in Nat
      /\ Ends(extra, buffer, size)
  <2>1. PICK c : c = extra
    OBVIOUS
  <2>2. c \in Seq(Messages) /\ Len(c) + size = Len(buffer) /\ \A i \in 1..Len(c) : c[i] = buffer[size + i]
    BY <1>1, <1>3, <2>1
  <2>3. Len(c) \in Nat
    BY <2>2
  <2>4. Ends(c, buffer, size)
    BY <1>3, <2>2, <2>3 DEF Ends
  <2> QED
    BY <2>1, <2>2, <2>3, <2>4
<1> HIDE DEF extra
<1>6. ASSUME ~(forgot' \/ astray')
      PROVE  /\ Linked' /\ Bodied(buffer' \o wire')
             /\ Reached(conn, Line, frames) \subseteq Reached(conn', Line', frames')
  <2>1. ~forgot /\ ~astray /\ ~Astray(h)
    BY <1>1, <1>2, <1>6
  <2>2. PICK n \in 1..Len(resp) :
           /\ found = <<resp[n]>> /\ resp[n] \in R
           /\ resp[n].id = h.id
           /\ Rest(h) = SubSeq(resp, n + 1, Len(resp)) /\ h \in Heads
           /\ \A i \in 1..Len(Line) : Due(Line[i]) =>
                \E a \in 1..Len(resp) : /\ a >= n /\ (i > 1 => a > n)
                                        /\ resp[a].cseq = Line[i].cseq /\ resp[a].id = Line[i].id
    BY <1>1, <2>1, FindsOwn
  <2>3. found # <<>> /\ Head(found) = resp[n]
    BY <2>2
  <2>4. /\ buffer' = extra
        /\ \/ UNCHANGED <<in, connecting, wire, asked>>
           \/ conn' = <<>> /\ resp' = <<>> /\ wire' = <<>> /\ asked' = <<>> /\ extra = <<>>
    <3>1. CASE again
      <4>1. extra = <<>> /\ (UNCHANGED socks \/ (ResetSockets /\ conn' = <<>> /\ resp' = <<>>))
        BY <1>1, <1>6, <3>1 DEF SocketsAfter, Forget
      <4> QED
        BY <1>1, <3>1, <4>1 DEF socks, ResetSockets
    <3>2. CASE ~again
      <4>1. \/ UNCHANGED socks
            \/ ResetSockets /\ conn' = <<>> /\ resp' = <<>> /\ extra = <<>>
        BY <1>1, <1>6, <3>2 DEF SocketsAfter, Forget
      <4> QED
        BY <1>1, <3>2, <4>1 DEF socks, ResetSockets
    <3> QED
      BY <3>1, <3>2
  <2>5. {resp[n].id} \cup Hands(frames) \subseteq Hands(frames')
    <3>1. Hands(frames) = Hands(Below) /\ Below \in Seq(Frame(R))
      BY <1>1, <1>3, Topmost, NoTodo DEF Stack
    <3>2. next \in Seq(Frame(R)) /\ Hands(next) = Hands(Below)
      <4>1. CASE ParseRest(h, extra) = <<>>
        <5>1. next = Below
          BY <3>1, <4>1
        <5> QED
          BY <3>1, <5>1
      <4>2. CASE ParseRest(h, extra) = <<Parse(Len(extra))>>
        <5>1. Parse(Len(extra)) \in Frame(R) /\ Parse(Len(extra)).k = "parse"
          BY <1>5 DEF Parse, Frame
        <5>2. PICK f, b : f = Parse(Len(extra)) /\ b = Below
          OBVIOUS
        <5>3. f \in Frame(R) /\ b \in Seq(Frame(R)) /\ Ids(Todo(f)) = {}
          BY <3>1, <5>1, <5>2, NoTodo
        <5>4. Hands(<<f>> \o b) = Ids(Todo(f)) \cup Hands(b)
          BY <5>3, HandsPush
        <5>5. <<f>> \o b \in Seq(Frame(R))
          <6>1. <<f>> \in Seq(Frame(R))
            BY <5>3
          <6> QED
            BY <5>3, <6>1
        <5> QED
          BY <3>1, <4>2, <5>2, <5>3, <5>4, <5>5
      <4> QED
        BY <4>1, <4>2 DEF ParseRest
    <3> HIDE DEF next
    <3>3. Ids(<<resp[n]>>) = {resp[n].id}
      <4>1. resp[n].id # HTTP
        BY <2>2, PlainBase
      <4>2. Ids(<<resp[n]>>) = {resp[n].id} \ {HTTP}
        BY <1>3, <2>2, Short
      <4> QED
        BY <4>1, <4>2
    <3>4. CASE again
      <4>1. frames' = <<Resend(resp[n])>> \o Below
        BY <1>1, <2>3, <3>4
      <4>2. Resend(resp[n]) \in Frame(R) /\ Todo(Resend(resp[n])) = <<resp[n]>>
        <5>1. <<resp[n]>> \in Seq(R)
          BY <2>2
        <5> QED
          BY <5>1 DEF Frame, Resend, Todo
      <4>3. Hands(<<Resend(resp[n])>> \o Below) = Ids(<<resp[n]>>) \cup Hands(Below)
        BY <3>1, <4>2, HandsPush
      <4> QED
        BY <3>1, <3>3, <4>1, <4>3
    <3>5. CASE ~again
      <4>1. frames' = <<Call(resp[n], how)>> \o next
        BY <1>1, <2>3, <3>5
      <4>2. h.what \in {"ok", "fail", "bad"}
        BY <2>2, <2>3, <3>5 DEF Heads
      <4>3. how \in Hows
        BY <4>2 DEF Hows
      <4> HIDE DEF how
      <4>4. Call(resp[n], how) \in Frame(R) /\ Todo(Call(resp[n], how)) = <<resp[n]>>
        <5>1. <<resp[n]>> \in Seq(R)
          BY <2>2
        <5> QED
          BY <4>3, <5>1 DEF Frame, Call, Todo
      <4>5. Hands(<<Call(resp[n], how)>> \o next) = Ids(<<resp[n]>>) \cup Hands(next)
        BY <3>2, <4>4, HandsPush
      <4> QED
        BY <3>1, <3>2, <3>3, <4>1, <4>5
    <3> QED
      BY <3>4, <3>5
  <2> HIDE DEF again, next, how, found
  <2>6. Line[1] = h /\ 1 \in 1..Len(Line)
    <3>1. /\ Len(Line) = Len(buffer) + Len(wire) + Len(asked)
          /\ \A i \in 1..Len(buffer) : Line[i] = buffer[i]
      BY <1>3, JoinAt DEF Line
    <3>2. 1 \in 1..Len(buffer) /\ buffer[1] = h /\ Len(wire) \in Nat /\ Len(asked) \in Nat
      BY <1>1, <1>3
    <3> QED
      BY <1>3, <3>1, <3>2
  <2>7. CASE UNCHANGED <<in, connecting, wire, asked>>
    <3>1. Bodied(buffer \o wire)
      BY <2>1, WayNow
    <3>2. Bodied(buffer' \o wire')
      <4>1. Bodied(extra \o wire)
        BY <1>3, <1>5, <3>1, BodiedOn
      <4> QED
        BY <2>4, <2>7, <4>1
    <3>3. Linked'
      <4>1. resp # <<>>
        BY <1>3, <2>2
      <4> QED
        BY <1>1, <2>1, <2>7, <4>1, WayNow DEF Linked
    <3>4. Line' = Join(extra, wire, asked)
      BY <2>4, <2>7 DEF Line
    <3>5. \A x \in DueIds(Line) : x \in DueIds(Line') \/ x = h.id
      <4>1. PICK l, k : l = Line /\ k = Line'
        OBVIOUS
      <4>2. Ends(k, l, size)
        <5>1. Ends(Join(extra, wire, asked), Join(buffer, wire, asked), size)
          BY <1>3, <1>5, Cut
        <5> QED
          BY <3>4, <4>1, <5>1 DEF Line
      <4>3. Len(k) \in Nat /\ Len(k) + size = Len(l)
        <5>1. Len(l) = Len(buffer) + Len(wire) + Len(asked) /\ Len(k) = Len(extra) + Len(wire) + Len(asked)
          BY <1>3, <1>5, <3>4, <4>1, JoinAt DEF Line
        <5>2. Len(wire) \in Nat /\ Len(asked) \in Nat
          BY <1>3
        <5> DEFINE a == Len(extra)  b == Len(buffer)  c == Len(wire)  d == Len(asked)
        <5>3. /\ a \in Nat /\ b \in Nat /\ c \in Nat /\ d \in Nat /\ size \in Nat /\ a + size = b
              /\ Len(l) = b + c + d /\ Len(k) = a + c + d
          BY <1>3, <1>5, <5>1, <5>2
        <5> HIDE DEF a, b, c, d
        <5> QED
          BY <5>3
      <4>4. \A x \in DueIds(l) : x \in DueIds(k) \/ \E i \in 1..size : i \in 1..Len(l) /\ Due(l[i]) /\ x = l[i].id
        BY <1>3, <4>2, <4>3, DueCut
      <4>5. ASSUME NEW i \in 1..size, Due(l[i]) PROVE l[i].id = h.id
        <5>1. i = 1 \/ (i = 2 /\ size = 2)
          BY <1>4
        <5>2. ~(i = 2 /\ size = 2)
          <6> SUFFICES ASSUME i = 2, size = 2 PROVE FALSE
            OBVIOUS
          <6>1. 1 \in 1..Len(buffer) /\ 2 \in 1..Len(buffer) /\ buffer[1] = h
            BY <1>1, <1>3
          <6>2. PICK u : u = buffer \o wire
            OBVIOUS
          <6>3. 1 \in 1..Len(u) /\ u[1] = h /\ u[2] = buffer[2]
            BY <1>3, <6>1, <6>2, Halves
          <6>4. Due(h)
            <7>1. h \in Messages \cup Record
              BY <2>2 DEF Messages
            <7> QED
              BY <2>2, <7>1, DueTyped
          <6>5. u[2] = Body
            <7>1. Bodied(u) /\ u[1].body
              BY <1>4, <3>1, <6>2, <6>3
            <7> QED
              BY <6>3, <6>4, <7>1 DEF Bodied
          <6>6. l[2] = buffer[2]
            BY <1>3, <4>1, <6>1, JoinAt DEF Line
          <6> QED
            BY <4>5, <6>3, <6>5, <6>6 DEF Due
        <5> QED
          BY <2>6, <4>1, <5>1, <5>2
      <4> QED
        BY <4>1, <4>4, <4>5
    <3> QED
      BY <1>1, <2>2, <2>5, <3>2, <3>3, <3>5 DEF Reached
  <2>8. CASE conn' = <<>> /\ resp' = <<>> /\ wire' = <<>> /\ asked' = <<>> /\ extra = <<>>
    <3>1. Linked' /\ Bodied(buffer' \o wire')
      BY <2>4, <2>8 DEF Linked, Bodied
    <3>2. n = Len(resp)
      <4>1. Len(SubSeq(resp, n + 1, Len(resp))) + n = Len(resp)
        BY <1>3, QueueRest
      <4>2. Len(SubSeq(resp, n + 1, Len(resp))) = 0
        BY <1>1, <2>2, <2>8
      <4>3. n \in Nat /\ Len(resp) \in Nat
        BY <1>3
      <4> QED
        BY <4>1, <4>2, <4>3
    <3>3. DueIds(Line) \subseteq {resp[n].id}
      <4> SUFFICES ASSUME NEW i \in 1..Len(Line), Due(Line[i]) PROVE Line[i].id = resp[n].id
        BY DEF DueIds
      <4>1. PICK a \in 1..Len(resp) : a >= n /\ resp[a].id = Line[i].id
        BY <2>2
      <4>2. Len(resp) \in Nat
        BY <1>3
      <4>3. a = n
        BY <3>2, <4>1, <4>2
      <4> QED
        BY <4>1, <4>3
    <3> QED
      BY <1>1, <2>5, <3>1, <3>3 DEF Reached
  <2> QED
    BY <2>4, <2>7, <2>8
<1>7. astray => astray'
  BY <1>1
<1> QED
  BY <1>1, <1>2, <1>6, <1>7, WayStill

LEMMA WayInit ==
  ASSUME Init PROVE WayInv
<1>1. /\ conn = <<>> /\ resp = <<>> /\ buffer = <<>> /\ wire = <<>> /\ sent = {}
  BY DEF Init
<1>2. Linked
  BY <1>1 DEF Linked
<1>3. Bodied(buffer \o wire)
  BY <1>1 DEF Bodied
<1> QED
  BY <1>1, <1>2, <1>3 DEF WayInv, Owed

LEMMA WayNext ==
  ASSUME PlainInv, WayInv, [Next]_vars PROVE WayInv'
<1>1. CASE Client
  BY <1>1, ResumeWay, FramesWay, ResendWay, CallWay, NoGET, IncomingWay, AwaitBodyWay,
     ResponseWay DEF Client
<1>2. CASE Events
  BY <1>2, FramesWay, FailsWay, ReadErrorWay, RecvWay DEF Events
<1>3. CASE Program
  BY <1>3, FramesWay, MakeWay DEF Program
<1>4. CASE Server
  BY <1>4, ReplyWay, SkipWay, AskWay DEF Server
<1>5. CASE UNCHANGED vars
  <2>1. UNCHANGED <<conn, resp, frames, answered, told, astray, forgot, sent, buffer, wire, asked, in, connecting>>
    BY <1>5 DEF vars, socks, queues, history, flaws
  <2>2. Line' = Line
    BY <2>1 DEF Line
  <2> QED
    BY <2>1, <2>2, WayStill, WayNow DEF Linked, Reached
<1> QED
  BY <1>1, <1>2, <1>3, <1>4, <1>5 DEF Next

(* Who is reached is in somebody's hand.                                      *)
LEMMA InSomeHand ==
  ASSUME PlainInv, WayInv, ~forgot, ~astray, NEW r \in Requests, r \in Reached(conn, Line, frames)
  PROVE  InHand(r)
<1>1. /\ conn # <<>> => connecting # 0
      /\ resp # <<>> => in # 0
  BY WayNow
<1>2. CASE r \in Hands(frames)
  <2>1. PICK i \in 1..Len(frames) : r \in Ids(Todo(frames[i]))
    BY <1>2 DEF Hands
  <2>2. PICK j \in 1..Len(Todo(frames[i])) : Todo(frames[i])[j].id = r
    BY <2>1 DEF Ids
  <2>3. Todo(frames[i])[j] \in InFrames
    BY <2>2 DEF InFrames, Records
  <2> QED
    BY <2>2, <2>3 DEF InHand
<1>3. CASE r \in Ids(conn)
  <2>1. conn # <<>>
    BY <1>3 DEF Ids
  <2> QED
    BY <1>1, <1>3, <2>1 DEF InHand
<1>4. CASE r \in DueIds(Line)
  <2>1. r \in Ids(resp)
    BY <1>4, DueWaits
  <2>2. in # 0
    <3>1. resp # <<>>
      BY <2>1 DEF Ids
    <3> QED
      BY <1>1, <3>1
  <2>3. buffer \in Seq(Messages) /\ wire \in Seq(Messages) /\ asked \in Seq(Record)
    BY PlainBase
  <2>4. r \in DueIds(buffer) \/ r \in DueIds(wire) \/ r \in DueIds(asked)
    BY <1>4, <2>3, DueLine DEF Line
  <2>5. ASSUME NEW b \in Seq(Messages), r \in DueIds(b)
        PROVE  \E i \in 1..Len(b) : IsHead(b[i]) /\ b[i].id = r
    <3>1. PICK i \in 1..Len(b) : Due(b[i]) /\ b[i].id = r
      BY <2>5 DEF DueIds
    <3>2. b[i] \in Heads
      <4>1. b[i] \in Messages
        BY <2>5
      <4> QED
        BY <3>1, <4>1 DEF Messages, Due
    <3>3. IsHead(b[i])
      BY <3>2 DEF Heads, IsHead
    <3> QED
      BY <3>1, <3>3
  <2>6. r \in DueIds(asked) => \E i \in 1..Len(asked) : asked[i].id = r
    BY DEF DueIds
  <2>7. OnItsWay(r)
    BY <2>3, <2>4, <2>5, <2>6 DEF OnItsWay
  <2> QED
    BY <2>1, <2>2, <2>7 DEF InHand
<1> QED
  BY <1>2, <1>3, <1>4 DEF Reached

(* In a client without a tunnel no request is forgotten, as long as none of    *)
(* the branches that lose requests is taken and no response goes astray.      *)
THEOREM InGoodHands == Tunnels = {FALSE} => (Spec => []NoneForgotten)
<1> SUFFICES ASSUME Tunnels = {FALSE} PROVE Spec => []NoneForgotten
  OBVIOUS
<1>1. Init => PlainInv /\ WayInv
  BY PlainInit, WayInit
<1>2. PlainInv /\ WayInv /\ [Next]_vars => PlainInv' /\ WayInv'
  BY PlainNext, WayNext
<1>3. PlainInv /\ WayInv => NoneForgotten
  BY InSomeHand DEF WayInv, NoneForgotten
<1> QED
  BY <1>1, <1>2, <1>3, PTL DEF Spec
=============================================================================
