----------------------------- MODULE MCRtspClient -----------------------------
EXTENDS RtspClient

\* Everything the server may do, without a tunnel or with one.
Anything == AllOdd
Both == BOOLEAN
=============================================================================
