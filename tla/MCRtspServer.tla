---------------------------- MODULE MCRtspServer ----------------------------
(* RtspServer for TLC. *)
EXTENDS RtspServer, TLC

Symmetry == Permutations(Sms) \cup Permutations(Ids) \cup Permutations(Conns) \cup Permutations(Socks) \cup Permutations(Tracks)
=============================================================================
