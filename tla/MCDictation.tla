----------------------------- MODULE MCDictation -----------------------------
\* TLC instance of Dictation; the bound and the pacing are set by each cfg.
EXTENDS Dictation
==============================================================================
