-------------------------- MODULE MCMeetingDetection --------------------------
\* TLC instance of MeetingDetection: two sessions (pids) of one application and
\* one of another.
EXTENDS MeetingDetection, TLC
CONSTANTS appA, appB, pidA, pidA2, pidB
MCAppOf == [s \in Session |-> IF s = pidB THEN appB ELSE appA]
MCSymmetry == Permutations({pidA, pidA2})
==============================================================================
