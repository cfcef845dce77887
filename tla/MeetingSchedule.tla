--------------------------- MODULE MeetingSchedule ---------------------------
(***************************************************************************)
(* What meeting_queue.rs promises its callers: meetings are processed one  *)
(* at a time in the order they were submitted, a meeting that is waiting   *)
(* or processed is not accepted again, and one that exceeds its budget     *)
(* stops holding up the others but still counts as being processed.        *)
(* No threads, channels, gate or panics.                                   *)
(***************************************************************************)
EXTENDS Naturals, Sequences

CONSTANTS Meeting, None

VARIABLES waiting,   \* accepted meetings, in order
          holder,    \* the meeting being processed that holds up the others
          overrun    \* meetings still processed past their budget

vars == <<waiting, holder, overrun>>

Init ==
    /\ waiting = <<>>
    /\ holder = None
    /\ overrun = {}

Submit(m) ==
    /\ holder # m
    /\ m \notin overrun
    /\ \A i \in 1..Len(waiting) : waiting[i] # m
    /\ waiting' = Append(waiting, m)
    /\ UNCHANGED <<holder, overrun>>

Start ==
    /\ holder = None
    /\ waiting # <<>>
    /\ holder' = Head(waiting)
    /\ waiting' = Tail(waiting)
    /\ UNCHANGED overrun

End(m) ==
    /\ holder = m
    /\ holder' = None
    /\ UNCHANGED <<waiting, overrun>>

EndLate(m) ==
    /\ m \in overrun
    /\ overrun' = overrun \ {m}
    /\ UNCHANGED <<waiting, holder>>

Overrun(m) ==
    /\ holder = m
    /\ holder' = None
    /\ overrun' = overrun \cup {m}
    /\ UNCHANGED waiting

Release(m) == End(m) \/ Overrun(m)

Next ==
    \/ Start
    \/ \E m \in Meeting : Submit(m) \/ Release(m) \/ EndLate(m)

Spec == Init /\ [][Next]_vars

\* A free worker starts the next meeting, and never waits for one forever.
FairSpec ==
    /\ Spec
    /\ WF_vars(Start)
    /\ WF_vars(\E m \in Meeting : Release(m))
==============================================================================
