-------------------------- MODULE MCProcessingQueue --------------------------
\* TLC instance of ProcessingQueue: three meetings, two polls of the gate.
EXTENDS ProcessingQueue, TLC

Symmetry == Permutations(Meeting)
==============================================================================
