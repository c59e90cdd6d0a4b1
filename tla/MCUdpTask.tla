----------------------------- MODULE MCUdpTask ------------------------------
(* Small instances of UdpTask.                                              *)
EXTENDS UdpTask

\* Any network, either direction, any call failing; and the server receiving from
\* a network that loses and overtakes but is neither slow nor repeats itself.
TwoWorlds ==
  [reverse : BOOLEAN, rand_cnt : {3},
   lossy : {TRUE}, duplicating : {TRUE}, prompt : {FALSE}, mayFail : {TRUE}]
  \cup
  [reverse : {TRUE}, rand_cnt : {5},
   lossy : {TRUE}, duplicating : {FALSE}, prompt : {TRUE}, mayFail : {FALSE}]
=============================================================================
