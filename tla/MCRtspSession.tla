--------------------------- MODULE MCRtspSession ---------------------------
(* Instances of RtspSession: every answer, and three frames.                *)
EXTENDS RtspSession
=============================================================================
