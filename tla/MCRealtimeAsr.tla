----------------------------- MODULE MCRealtimeAsr -----------------------------
\* TLC instance of RealtimeAsr.
EXTENDS RealtimeAsr
==============================================================================
