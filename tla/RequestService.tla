---------------------------- MODULE RequestService ----------------------------
(***************************************************************************)
(* What live555's RTSPClient promises the program that sends requests by it  *)
(* (liveMedia/include/RTSPClient.hh:52-72): the response handler of a        *)
(* request is called once at most, with the server's answer to that very     *)
(* request or with an error of the client's own.                            *)
(***************************************************************************)
EXTENDS Sequences

CONSTANT Requests

Answers == {"ok", "fail"}

VARIABLES
  sent,      \* the requests that have been made
  answered,  \* what the server has answered, "none" before
  told       \* what the response handler was told, call by call

vars == <<sent, answered, told>>

Init ==
  /\ sent = {}
  /\ answered = [r \in Requests |-> "none"]
  /\ told = [r \in Requests |-> <<>>]

Make(r) ==
  /\ r \notin sent
  /\ sent' = sent \cup {r}
  /\ UNCHANGED <<answered, told>>

Answer(r) ==
  /\ r \in sent /\ answered[r] = "none"
  /\ \E a \in Answers : answered' = [answered EXCEPT ![r] = a]
  /\ UNCHANGED <<sent, told>>

Tell(r) ==
  /\ r \in sent /\ told[r] = <<>>
  /\ \E how \in {answered[r], "error"} \ {"none"} : told' = [told EXCEPT ![r] = <<how>>]
  /\ UNCHANGED <<sent, answered>>

Next == \E r \in Requests : Make(r) \/ Answer(r) \/ Tell(r)

Spec == Init /\ [][Next]_vars
=============================================================================
