---------------------------- MODULE MCMeetingWatch ----------------------------
\* TLC instance of MeetingWatch: thresholds of a few polls.
EXTENDS MeetingWatch
MCThreshold == [silence |-> 2, duration |-> 3]
MCCountdown == [silence |-> 1, duration |-> 1]
==============================================================================
