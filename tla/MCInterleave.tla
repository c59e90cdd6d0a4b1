---------------------------- MODULE MCInterleave ----------------------------
(* Small instances of Interleave with bytes 0, 1 and 2 (2 being the magic   *)
(* one), so that a length of three or more needs the high byte.             *)
EXTENDS Interleave

\* An RTP packet of one byte, one that holds magic bytes and has a high length
\* byte, an RTCP packet whose low length byte looks like the magic one.
Plain == {[channel |-> 0, payload |-> <<0>>],
          [channel |-> 0, payload |-> <<2, 2, 0>>],
          [channel |-> 1, payload |-> <<1, 2>>]}

Empty == [channel |-> 1, payload |-> <<>>]
OtherNal == [channel |-> 0, payload |-> <<1, 0>>]
All == Plain \cup {Empty, OtherNal}
=============================================================================
