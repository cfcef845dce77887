--------------------------- MODULE MCEditLearning ---------------------------
\* TLC instance of EditLearning.
EXTENDS EditLearning, TLC
=============================================================================
