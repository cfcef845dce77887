-------------------------- MODULE MCMeetingLifecycle -------------------------
\* TLC instance of MeetingLifecycle; the bounds are set by each cfg.
EXTENDS MeetingLifecycle, TLC
MeetingSymmetry == Permutations(Meeting)
==============================================================================
