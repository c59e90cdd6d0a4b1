---------------------------- MODULE MCRtpSource -----------------------------
(* Small instances of RtpSource.                                            *)
EXTENDS RtpSource

\* Frames in fragments between others, aggregates, and packets too short.
MCLayouts ==
  {<<"single", "start", "middle", "end", "single", "single">>,
   <<"start", "end", "pair", "start", "end", "pair">>,
   <<"start", "bad", "end", "bad", "start", "end">>}

\* What WholeFrames of RtpSourceProofs supposes.
ASSUME FragmentsFollow == \A l \in MCLayouts : InFragments(l)
=============================================================================
