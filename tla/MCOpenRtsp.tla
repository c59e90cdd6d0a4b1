------------------------------ MODULE MCOpenRtsp ------------------------------
EXTENDS OpenRtsp

\* Every option, and together those that meet.
MCOptions ==
  {{"optionsOnly"}, {"noOptions", "duration", "keepAlive", "arrival"},
   {"noOptions", "noReceivers", "duration"}, {"noOptions", "single", "composite", "periodic"},
   {"noOptions", "duration", "periodic", "qos"},
   {"noOptions", "continuous", "duration", "gaps"}}
=============================================================================
