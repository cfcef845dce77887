------------------------ MODULE MeetingLifecycleProofs ------------------------
(***************************************************************************)
(* Proofs about MeetingLifecycle, for any number of meetings, versions of  *)
(* their audio and crashes, and at any pace: whatever falls between two    *)
(* steps, draft minutes yield to final ones, a row that says "recording"   *)
(* is somebody's, and a meeting in flight is left without a job only by    *)
(* the two accidents the model names.                                      *)
(***************************************************************************)
EXTENDS MeetingLifecycle, TLAPS

Row == [status : Status \cup {"absent", "deleted"}, audio : Nat, transcript : Nat,
        summaries : SUBSET {"draft", "final"}]

Working == {"preparing", "transcribing", "heard", "cleared", "written", "summarizing",
            "summarized"}

AnyEdit == [op : {"none", "trim", "delete"}, meeting : Meeting \cup {None},
            at : {"idle", "preparing", "prepared", "replaced", "removed", "deleted"},
            audio : Nat]

Recovery == [at : {"launched", "resuming", "recovering"},
             todo : SUBSET [meeting : Meeting, audio : Nat],
             meeting : Meeting \cup {None}]

USE DEF At, Editing, Exists, InFlight, InFlightStatus, Status, JobTail

\* What a statement does to the row it names.
LEMMA Updated ==
    ASSUME rows \in [Meeting -> Row], NEW m \in Meeting, NEW row \in Row, Update(m, row)
    PROVE  /\ rows' \in [Meeting -> Row]
           /\ rows'[m] = IF Exists(m) THEN row ELSE rows[m]
           /\ \A n \in Meeting \ {m} : rows'[n] = rows[n]
BY DEF Update

\* What the recovery thread lists of the meetings with a status.
LEMMA Listings ==
    ASSUME rows \in [Meeting -> Row], NEW S \in SUBSET Meeting
    PROVE  /\ Listing(S) \in SUBSET [meeting : Meeting, audio : Nat]
           /\ \A r \in Listing(S) : r.meeting \in S /\ r.audio = rows[r.meeting].audio
           /\ \A m \in S : \E r \in Listing(S) : r.meeting = m
           /\ \A r, s \in Listing(S) : r.meeting = s.meeting => r = s
<1>1. \A m \in Meeting : rows[m].audio \in Nat
  BY DEF Row
<1>2. \A m \in S : [meeting |-> m, audio |-> rows[m].audio] \in Listing(S)
  BY DEF Listing
<1>3. \A r \in Listing(S) : \E m \in S : r = [meeting |-> m, audio |-> rows[m].audio]
  BY DEF Listing
<1>4. Listing(S) \in SUBSET [meeting : Meeting, audio : Nat]
  BY <1>1, <1>3
<1>5. \A r \in Listing(S) : r.meeting \in S /\ r.audio = rows[r.meeting].audio
  BY <1>3
<1>6. \A m \in S : \E r \in Listing(S) : r.meeting = m
  BY <1>2
<1>7. ASSUME NEW r \in Listing(S), NEW s \in Listing(S), r.meeting = s.meeting PROVE r = s
  <2>1. PICK m \in S : r = [meeting |-> m, audio |-> rows[m].audio]
    BY <1>3
  <2>2. PICK n \in S : s = [meeting |-> n, audio |-> rows[n].audio]
    BY <1>3
  <2>3. m = n
    BY <1>7, <2>1, <2>2
  <2> QED BY <2>1, <2>2, <2>3
<1> QED BY <1>4, <1>5, <1>6, <1>7

-----------------------------------------------------------------------------
(* The minutes need no calm: whatever falls between two steps, a statement *)
(* that writes the summaries of a row looks at what is there.              *)
Summarized(row) == row \in Row /\ ~({"draft", "final"} \subseteq row.summaries)

Minutes ==
    /\ rows \in [Meeting -> Row] /\ \A m \in Meeting : Summarized(rows[m])
    /\ command.audio \in Nat /\ ticket \in [Meeting -> Nat]
    /\ edit \in AnyEdit
    /\ recovery \in Recovery

\* What a step may do to the rows.
RowsKept == rows' \in [Meeting -> Row] /\ \A m \in Meeting : Summarized(rows'[m])

LEMMA RowKept ==
    ASSUME Minutes, NEW m \in Meeting, NEW row, Summarized(row), Update(m, row)
    PROVE  RowsKept
BY Updated DEF Minutes, RowsKept, Summarized

LEMMA StatusKept ==
    ASSUME Minutes, NEW m \in Meeting, NEW s \in Status, SetStatus(m, s)
    PROVE  RowsKept
<1>1. Summarized([rows[m] EXCEPT !.status = s])
  BY DEF Minutes, Summarized, Row
<1> QED BY <1>1, RowKept DEF SetStatus

LEMMA FailedKept ==
    ASSUME Minutes, NEW m \in Meeting, Fail(m)
    PROVE  RowsKept
<1>1. CASE SetStatus(m, "failed")
  BY <1>1, StatusKept
<1>2. CASE Refuse(m)
  BY <1>2 DEF Refuse, Minutes, RowsKept
<1> QED BY <1>1, <1>2 DEF Fail

LEMMA Submitted ==
    ASSUME Minutes, NEW m \in Meeting, NEW v \in Nat, Enqueue(m, v)
    PROVE  ticket' \in [Meeting -> Nat]
BY DEF Minutes, Enqueue, queueVars

LEMMA MinutesOfCommands ==
    ASSUME Minutes, NEW m \in Meeting, CommandStep(m)
    PROVE  Minutes'
<1>1. CASE StartCreates(m)
  <2>1. Summarized([NoRow EXCEPT !.status = "recording"])
    BY DEF Summarized, NoRow, Row
  <2>2. rows' = [rows EXCEPT ![m] = [NoRow EXCEPT !.status = "recording"]]
        /\ command'.audio = command.audio /\ UNCHANGED <<edit, ticket, recovery>>
    BY <1>1 DEF StartCreates, Continue, queueVars
  <2> HIDE DEF Summarized
  <2>3. \A row : Summarized(row) => row \in Row
    BY DEF Summarized
  <2> QED BY <2>1, <2>2, <2>3 DEF Minutes
<1>2. CASE StartFails(m)
  BY <1>2, FailedKept DEF StartFails, Minutes, RowsKept, NoCommand, queueVars
<1>3. CASE StartOpens(m)
  BY <1>3 DEF StartOpens, Continue, Minutes, queueVars
<1>4. CASE StartRecords(m)
  <2>1. Summarized([rows[m] EXCEPT !.audio = 1])
    BY DEF Minutes, Summarized, Row
  <2> QED BY <1>4, <2>1, RowKept DEF StartRecords, Minutes, RowsKept, NoCommand, queueVars
<1>5. CASE StopRecorder(m)
  BY <1>5 DEF StopRecorder, Continue, Minutes, queueVars
<1>6. CASE StopFails(m)
  BY <1>6, FailedKept DEF StopFails, Minutes, RowsKept, NoCommand, queueVars
<1>7. CASE StopIsRefused(m)
  BY <1>7 DEF StopIsRefused, Refuse, NoCommand, Minutes, queueVars
<1>8. CASE StopStores(m)
  <2>1. Summarized([rows[m] EXCEPT !.audio = 1, !.status = "processing"])
    BY DEF Minutes, Summarized, Row
  <2> QED BY <1>8, <2>1, RowKept DEF StopStores, SetAudio, Continue, Minutes, RowsKept, queueVars
<1>9. CASE StopEnqueues(m)
  BY <1>9, Submitted DEF StopEnqueues, NoCommand, Minutes
<1>10. CASE RetryReads(m)
  <2>1. rows[m].audio \in Nat
    BY DEF Minutes, Row
  <2> QED BY <1>10, <2>1 DEF RetryReads, Minutes, queueVars
<1>11. CASE RetryChecks(m)
  BY <1>11 DEF RetryChecks, Continue, NoCommand, Minutes, queueVars
<1>12. CASE RetryMarks(m)
  BY <1>12, StatusKept DEF RetryMarks, Continue, NoCommand, Minutes, RowsKept, queueVars
<1>13. CASE RetryEnqueues(m)
  <2>1. command.audio \in Nat
    BY DEF Minutes
  <2> QED BY <1>13, <2>1, Submitted DEF RetryEnqueues, NoCommand, Minutes
<1> QED
  BY <1>1, <1>2, <1>3, <1>4, <1>5, <1>6, <1>7, <1>8, <1>9, <1>10, <1>11, <1>12, <1>13
  DEF CommandStep

LEMMA MinutesOfEdits ==
    ASSUME Minutes, NEW m \in Meeting,
           EditStep(m) \/ ImportCreates(m) \/ ImportEnqueues(m) \/ DraftEnds(m)
    PROVE  Minutes'
<1>1. edit.audio \in Nat /\ rows[m].audio \in Nat
  BY DEF Minutes, AnyEdit, Row
<1>12. /\ \A at \in {"prepared", "replaced", "removed"} : [edit EXCEPT !.at = at] \in AnyEdit
       /\ NoEdit \in AnyEdit
  BY DEF Minutes, AnyEdit, NoEdit
<1>2. CASE TrimBegins(m)
  <2>1. edit' = [op |-> "trim", meeting |-> m, at |-> "preparing", audio |-> rows[m].audio]
    BY <1>2 DEF TrimBegins
  <2> QED BY <1>1, <1>2, <2>1 DEF TrimBegins, Minutes, AnyEdit, queueVars
<1>3. CASE TrimPrepares(m)
  BY <1>3, <1>12 DEF TrimPrepares, EditGoesOn, Minutes, queueVars
<1>4. CASE TrimReplaces(m)
  <2>1. Summarized([NoRow EXCEPT !.status = "processing", !.audio = edit.audio + 1])
    <3>1. PICK v \in Nat : v = edit.audio + 1
      BY <1>1
    <3>2. Summarized([NoRow EXCEPT !.status = "processing", !.audio = v])
      BY DEF Summarized, NoRow, Row
    <3> QED BY <3>1, <3>2
  <2>2. RowsKept
    <3>1. CASE Update(m, [NoRow EXCEPT !.status = "processing", !.audio = edit.audio + 1])
      BY <2>1, <3>1, RowKept
    <3>2. CASE UNCHANGED rows
      BY <3>2 DEF Minutes, RowsKept
    <3> QED BY <1>4, <3>1, <3>2 DEF TrimReplaces
  <2> QED BY <1>4, <1>12, <2>2 DEF TrimReplaces, EditGoesOn, Minutes, RowsKept, queueVars
<1>5. CASE TrimRemovesOld(m)
  BY <1>5, <1>12 DEF TrimRemovesOld, EditGoesOn, Minutes, queueVars
<1>6. CASE TrimEnqueues(m)
  <2>1. edit.audio + 1 \in Nat
    BY <1>1
  <2> QED BY <1>6, <1>12, <2>1, Submitted DEF TrimEnqueues, Minutes
<1>7. CASE DeleteRow(m)
  <2>1. Summarized(Gone(m))
    BY <1>1 DEF Summarized, Gone, NoRow, Row
  <2>2. /\ rows' = [rows EXCEPT ![m] = Gone(m)]
        /\ edit' = [op |-> "delete", meeting |-> m, at |-> "deleted", audio |-> rows[m].audio]
        /\ UNCHANGED <<command, ticket, recovery>>
    BY <1>7 DEF DeleteRow, queueVars
  <2>3. \A row : Summarized(row) => row \in Row
    BY DEF Summarized
  <2> QED BY <1>1, <2>1, <2>2, <2>3 DEF Minutes, AnyEdit
<1>8. CASE DeleteFiles(m)
  BY <1>8, <1>12 DEF DeleteFiles, Minutes, queueVars
<1>9. CASE ImportCreates(m)
  <2>1. Summarized([NoRow EXCEPT !.status = "processing", !.audio = 1])
    BY DEF Summarized, NoRow, Row
  <2>2. rows' = [rows EXCEPT ![m] = [NoRow EXCEPT !.status = "processing", !.audio = 1]]
        /\ UNCHANGED <<command, edit, ticket, recovery>>
    BY <1>9 DEF ImportCreates, queueVars
  <2>3. \A row : Summarized(row) => row \in Row
    BY DEF Summarized
  <2> QED BY <2>1, <2>2, <2>3 DEF Minutes
<1>10. CASE ImportEnqueues(m)
  BY <1>10, Submitted DEF ImportEnqueues, Minutes
<1>11. CASE DraftEnds(m)
  <2>1. Summarized([rows[m] EXCEPT !.summaries = WithDraft(rows[m].summaries)])
    BY DEF Minutes, Summarized, WithDraft, Row
  <2> QED BY <1>11, <2>1, RowKept DEF DraftEnds, Minutes, RowsKept, queueVars
<1> QED
  BY <1>2, <1>3, <1>4, <1>5, <1>6, <1>7, <1>8, <1>9, <1>10, <1>11 DEF EditStep

LEMMA MinutesOfJobs ==
    ASSUME Minutes, NEW m \in Meeting, JobStep(m)
    PROVE  Minutes'
<1>1. ticket[m] \in Nat
  BY DEF Minutes
<1>2. Summarized([rows[m] EXCEPT !.transcript = 0])
      /\ Summarized([rows[m] EXCEPT !.transcript = ticket[m]])
      /\ Summarized([rows[m] EXCEPT !.summaries = Finals])
  BY <1>1 DEF Minutes, Summarized, Finals, Row
<1>3. UNCHANGED <<command, edit, ticket, recovery>>
  BY DEF JobStep, JobStarts, JobBegins, JobHears, JobClears, JobWrites, JobSummarizes,
         JobSavesMinutes, JobReady, JobMarks, JobFails, JobFailsAgain, JobEnds, JobOnly,
         taskVars, queueVars
<1>4. CASE UNCHANGED rows
  BY <1>3, <1>4 DEF Minutes
<1>5. CASE Fail(m) \/ \E s \in Status : SetStatus(m, s)
  BY <1>3, <1>5, StatusKept, FailedKept DEF Minutes, RowsKept
<1>6. CASE \/ Update(m, [rows[m] EXCEPT !.transcript = 0])
           \/ Update(m, [rows[m] EXCEPT !.transcript = ticket[m]])
           \/ Update(m, [rows[m] EXCEPT !.summaries = Finals])
  BY <1>2, <1>3, <1>6, RowKept DEF Minutes, RowsKept
<1> QED
  BY <1>4, <1>5, <1>6
  DEF JobStep, JobStarts, JobBegins, JobHears, JobClears, JobWrites, JobSummarizes,
      JobSavesMinutes, JobReady, JobMarks, JobFails, JobFailsAgain, JobEnds

LEMMA MinutesOfRecovery ==
    ASSUME Minutes, RecoveryStep
    PROVE  Minutes'
<1>1. UNCHANGED <<command, edit>>
  BY DEF RecoveryStep, RecoverLists, RecoverResumes, RecoverListsRecordings, RecoverOne,
         RecoverEnqueues, RecoveryOnly
<1>2. rows \in [Meeting -> Row] /\ \A r \in recovery.todo : r.meeting \in Meeting /\ r.audio \in Nat
  BY DEF Minutes, Recovery
<1>8. /\ \A T \in SUBSET [meeting : Meeting, audio : Nat] :
            /\ [recovery EXCEPT !.todo = T] \in Recovery
            /\ \A x \in Meeting : [recovery EXCEPT !.todo = T, !.meeting = x] \in Recovery
            /\ [at |-> "resuming", meeting |-> None, todo |-> T] \in Recovery
            /\ [at |-> "recovering", meeting |-> None, todo |-> T] \in Recovery
      /\ [recovery EXCEPT !.meeting = None] \in Recovery
      /\ recovery.todo \in SUBSET [meeting : Meeting, audio : Nat]
  BY DEF Minutes, Recovery
<1>3. CASE RecoverLists
  <2>1. Listing({m \in Meeting : InFlight(m)}) \in SUBSET [meeting : Meeting, audio : Nat]
    BY <1>2, Listings
  <2> QED BY <1>1, <1>3, <1>8, <2>1 DEF RecoverLists, Minutes, queueVars
<1>4. CASE RecoverListsRecordings
  <2>1. Listing({m \in Meeting : rows[m].status = "recording"})
            \in SUBSET [meeting : Meeting, audio : Nat]
    BY <1>2, Listings
  <2> QED BY <1>1, <1>4, <1>8, <2>1 DEF RecoverListsRecordings, Minutes, queueVars
<1>5. CASE RecoverResumes
  <2>1. PICK r \in recovery.todo :
           /\ recovery' = [recovery EXCEPT !.todo = recovery.todo \ {r}]
           /\ IF r.audio = 0
              THEN Fail(r.meeting) /\ UNCHANGED queueVars
              ELSE Enqueue(r.meeting, r.audio) /\ UNCHANGED rows
    BY <1>5 DEF RecoverResumes
  <2>5. PICK m \in Meeting : m = r.meeting
    BY <1>2, <2>1
  <2>2. recovery' \in Recovery
    <3>1. PICK T \in SUBSET [meeting : Meeting, audio : Nat] : T = recovery.todo \ {r}
      BY <1>8
    <3> QED BY <1>8, <2>1, <2>5, <3>1
  <2> QED BY <1>1, <1>2, <2>1, <2>2, FailedKept, Submitted DEF Minutes, RowsKept, queueVars
<1>6. CASE RecoverOne
  <2>1. PICK r \in recovery.todo :
           /\ \/ recovery' = [recovery EXCEPT !.todo = recovery.todo \ {r}]
              \/ recovery' = [recovery EXCEPT !.todo = recovery.todo \ {r},
                                              !.meeting = r.meeting]
           /\ Fail(r.meeting) \/ SetAudio(r.meeting, 1)
    BY <1>6 DEF RecoverOne
  <2>5. PICK m \in Meeting : m = r.meeting
    BY <1>2, <2>1
  <2>2. recovery' \in Recovery
    <3>1. PICK T \in SUBSET [meeting : Meeting, audio : Nat] : T = recovery.todo \ {r}
      BY <1>8
    <3> QED BY <1>8, <2>1, <2>5, <3>1
  <2>3. Summarized([rows[m] EXCEPT !.audio = 1, !.status = "processing"])
    BY DEF Minutes, Summarized, Row
  <2>4. RowsKept
    <3>1. CASE Fail(r.meeting)
      BY <2>5, <3>1, FailedKept
    <3>2. CASE SetAudio(r.meeting, 1)
      BY <2>3, <2>5, <3>2, RowKept DEF SetAudio
    <3> QED BY <2>1, <3>1, <3>2
  <2> QED BY <1>1, <1>6, <2>2, <2>4 DEF RecoverOne, Minutes, RowsKept, queueVars
<1>7. CASE RecoverEnqueues
  <2>1. recovery' \in Recovery /\ UNCHANGED rows
    BY <1>7, <1>8 DEF RecoverEnqueues
  <2>2. ticket' \in [Meeting -> Nat]
    BY <1>7 DEF RecoverEnqueues, Enqueue, Minutes, queueVars
  <2> QED BY <1>1, <2>1, <2>2 DEF Minutes
<1> QED BY <1>3, <1>4, <1>5, <1>6, <1>7 DEF RecoveryStep

-----------------------------------------------------------------------------
(* Whose a meeting is.  QueueInHand is the queue's part, Turns what a      *)
(* command under way means for the rows and the owner.                     *)
QueueInHand ==
    /\ waiting \in Seq(Meeting) /\ job \in [Meeting -> Working \cup JobTail \cup {"none"}]
    /\ \A i, j \in DOMAIN waiting : waiting[i] = waiting[j] => i = j
    /\ \A m \in Meeting :
          /\ job[m] # "none" <=> holder = m \/ m \in overrun
          /\ holder = m => m \notin overrun
          /\ Queued(m) => holder # m /\ m \notin overrun

Turns ==
    /\ command.op = "start" => owner = None
    /\ command.op = "stop" => owner = command.meeting
    /\ \A m \in Meeting :
          command.meeting = m /\ (command.op = "retry" \/ command.at = "stored")
          => rows[m].status # "recording"

\* RecordingIsOwned and ServedUnlessSwallowed, for one meeting.
OnList(m) == \E r \in recovery.todo : r.meeting = m

Owned(m) ==
    rows[m].status = "recording" =>
        \/ owner = m
        \/ command.meeting = m
        \/ m \in refused
        \/ recovery.at \in {"launched", "resuming"}
        \/ OnList(m)

InGoodHands(m) ==
    InFlight(m) /\ m \notin refused /\ m \notin swallowed => Served(m) \/ AboutToEnqueue(m)

Standing ==
    /\ Minutes /\ QueueInHand /\ Turns
    /\ \A m \in Meeting : Owned(m) /\ InGoodHands(m)

\* What the next state must be shown to keep besides Minutes.
Stands == QueueInHand' /\ Turns' /\ \A m \in Meeting : Owned(m)' /\ InGoodHands(m)'

\* A step leaves the status of n as it is, and the store's refusals.
Same(n) == rows'[n].status = rows[n].status /\ (n \in refused => n \in refused')

\* A step ends what the row of m said, or the store refused that.
Ended(m) ==
    \/ m \in refused' /\ rows'[m].status = rows[m].status
    \/ rows'[m].status \notin InFlightStatus \cup {"recording"}

LEMMA Typed ==
    ASSUME Minutes
    PROVE  /\ rows \in [Meeting -> Row]
           /\ \A m \in Meeting : rows[m].status \in Status \cup {"absent", "deleted"}
           /\ recovery.todo \in SUBSET [meeting : Meeting, audio : Nat]
           /\ recovery.at \in {"launched", "resuming", "recovering"}
           /\ None \notin Meeting
BY NoneIsNoMeeting DEF Minutes, Row, Recovery

\* A statement that sets the status of m and no other row's.
LEMMA StatusSet ==
    ASSUME Minutes, NEW m \in Meeting, NEW s \in Status, SetStatus(m, s)
    PROVE  /\ rows'[m].status = IF Exists(m) THEN s ELSE rows[m].status
           /\ refused' = refused \ {m}
           /\ \A n \in Meeting \ {m} : Same(n)
<1> DEFINE row == [rows[m] EXCEPT !.status = s]
<1>1. row \in Row /\ row.status = s /\ Update(m, row) /\ refused' = refused \ {m}
  BY DEF Minutes, Row, SetStatus
<1> HIDE DEF row
<1> QED BY <1>1, Updated, Typed DEF Same

LEMMA AudioSet ==
    ASSUME Minutes, NEW m \in Meeting, SetAudio(m, 1)
    PROVE  /\ rows'[m].status = IF Exists(m) THEN "processing" ELSE rows[m].status
           /\ refused' = refused \ {m}
           /\ \A n \in Meeting \ {m} : Same(n)
<1> DEFINE row == [rows[m] EXCEPT !.audio = 1, !.status = "processing"]
<1>1. row \in Row /\ row.status = "processing" /\ Update(m, row) /\ refused' = refused \ {m}
  BY DEF Minutes, Row, SetAudio
<1> HIDE DEF row
<1> QED BY <1>1, Updated, Typed DEF Same

\* A statement that leaves the status alone.
LEMMA StatusStays ==
    ASSUME Minutes, NEW m \in Meeting, NEW row \in Row, row.status = rows[m].status,
           Update(m, row), refused' = refused
    PROVE  \A n \in Meeting : Same(n)
BY Updated, Typed DEF Same

\* fail_meeting ends what it is called for, or was refused.
LEMMA Failed ==
    ASSUME Minutes, NEW m \in Meeting, Fail(m)
    PROVE  Ended(m) /\ \A n \in Meeting \ {m} : Same(n)
<1>1. CASE SetStatus(m, "failed")
  <2>1. rows'[m].status = (IF Exists(m) THEN "failed" ELSE rows[m].status)
        /\ \A n \in Meeting \ {m} : Same(n)
    BY <1>1, StatusSet
  <2> QED BY <2>1, Typed DEF Ended
<1>2. CASE Refuse(m)
  BY <1>2 DEF Refuse, Ended, Same
<1> QED BY <1>1, <1>2 DEF Fail

-----------------------------------------------------------------------------
\* A step that is none of the queue's.
LEMMA QueueStands ==
    ASSUME QueueInHand, UNCHANGED <<waiting, holder, overrun>>,
           job' \in [Meeting -> Working \cup JobTail \cup {"none"}],
           \A m \in Meeting : job'[m] = "none" <=> job[m] = "none"
    PROVE  QueueInHand' /\ \A m \in Meeting : Queued(m)' <=> Queued(m)
BY DEF QueueInHand, Queued

\* A request puts its meeting on the queue, finds it served or is swallowed.
LEMMA Enqueued ==
    ASSUME QueueInHand, NEW m \in Meeting, NEW v \in Nat, Enqueue(m, v), UNCHANGED job
    PROVE  /\ QueueInHand'
           /\ Served(m)' \/ m \in swallowed'
           /\ \A n \in Meeting : Served(n) => Served(n)'
           /\ \A n \in Meeting \ {m} : n \in swallowed => n \in swallowed'
<1>1. CASE IsPending(m)
  <2>1. /\ UNCHANGED <<waiting, holder, overrun>>
        /\ swallowed' = IF job[m] \in JobTail THEN swallowed \cup {m} ELSE swallowed
    BY <1>1 DEF Enqueue
  <2>2. QueueInHand' /\ \A n \in Meeting : Queued(n)' <=> Queued(n)
    BY <2>1, QueueStands DEF QueueInHand
  <2>3. Queued(m) \/ job[m] # "none"
    BY <1>1 DEF IsPending, QueueInHand
  <2> QED BY <2>1, <2>2, <2>3 DEF Served
<1>2. CASE ~IsPending(m)
  <2>1. /\ waiting' = Append(waiting, m) /\ UNCHANGED <<holder, overrun>>
        /\ swallowed' = swallowed \ {m} /\ holder # m /\ m \notin overrun
    BY <1>2 DEF Enqueue, Queue!Submit, IsPending
  <2>2. waiting \in Seq(Meeting)
    BY DEF QueueInHand
  <2>3. /\ waiting' \in Seq(Meeting) /\ Len(waiting) \in Nat
        /\ DOMAIN waiting' = 1 .. Len(waiting) + 1 /\ DOMAIN waiting = 1 .. Len(waiting)
        /\ waiting'[Len(waiting) + 1] = m
        /\ \A i \in 1 .. Len(waiting) : waiting'[i] = waiting[i]
    BY <2>1, <2>2
  <2>4. Queued(m)'
    BY <2>3 DEF Queued
  <2>5. ASSUME NEW n \in Meeting, n # m PROVE Queued(n)' <=> Queued(n)
    BY <2>3, <2>5 DEF Queued
  <2>6. QueueInHand'
    <3>1. \A i \in 1 .. Len(waiting) : waiting[i] # m
      BY <1>2, <2>3 DEF IsPending, Queued
    <3>2. \A i, j \in 1 .. Len(waiting) : waiting[i] = waiting[j] => i = j
      BY <2>3 DEF QueueInHand
    <3>4. \A i, j \in DOMAIN waiting' : waiting'[i] = waiting'[j] => i = j
      BY <2>3, <3>1, <3>2
    <3>3. \A n \in Meeting : Queued(n)' => n = m \/ Queued(n)
      BY <2>5
    <3> QED BY <2>1, <2>3, <3>3, <3>4 DEF QueueInHand
  <2> QED BY <2>1, <2>4, <2>5, <2>6 DEF Served
<1> QED BY <1>1, <1>2

-----------------------------------------------------------------------------
\* A command for m is given, goes on or ends: nobody else notices.
LEMMA CommandGoesOn ==
    ASSUME Standing, NEW m \in Meeting,
           UNCHANGED <<edit, importing, queueVars, job, recovery>>,
           \A n \in Meeting \ {m} : Same(n),
           command.meeting \in {m, None}, command'.meeting \in {m, None},
           UNCHANGED owner \/ {owner, owner'} \subseteq {m, None},
           Turns', Owned(m)', InGoodHands(m)'
    PROVE  Stands
<1>1. QueueInHand' /\ \A n \in Meeting : Queued(n)' <=> Queued(n)
  BY QueueStands DEF Standing, QueueInHand, queueVars
<1>2. ASSUME NEW n \in Meeting, n # m PROVE Owned(n)' /\ InGoodHands(n)'
  <2>1. Owned(n) /\ InGoodHands(n) /\ n # None /\ Same(n)
    BY <1>2, NoneIsNoMeeting DEF Standing
  <2>2. Owned(n)'
    BY <1>2, <2>1 DEF Owned, OnList, Same
  <2>3. Served(n) => Served(n)'
    BY <1>1 DEF Served
  <2>4. AboutToEnqueue(n) => AboutToEnqueue(n)'
    BY <1>2, <2>1 DEF AboutToEnqueue
  <2>5. InGoodHands(n)'
    BY <2>1, <2>3, <2>4 DEF InGoodHands, Same, queueVars
  <2> QED BY <2>2, <2>5
<1> QED BY <1>1, <1>2 DEF Stands

\* A step of another task than the commands, which does not put m on record.
LEMMA CommandsStand ==
    ASSUME Standing, UNCHANGED <<owner, command>>,
           \A n \in Meeting : rows'[n].status = "recording" => rows[n].status = "recording"
    PROVE  Turns'
BY DEF Standing, Turns
LEMMA CommandStands ==
    ASSUME Standing, NEW m \in Meeting, CommandStep(m)
    PROVE  Stands
<1> USE DEF Continue, NoCommand
<1>1. Minutes /\ QueueInHand /\ Turns /\ Owned(m) /\ InGoodHands(m)
      /\ m # None /\ rows \in [Meeting -> Row]
  BY Typed, NoneIsNoMeeting DEF Standing
<1>2. CASE StartCreates(m)
  <2>1. /\ command = NoCommand /\ owner = None
        /\ rows' = [rows EXCEPT ![m] = [NoRow EXCEPT !.status = "recording"]]
        /\ command'.op = "start" /\ command'.meeting = m /\ command'.at = "created"
        /\ UNCHANGED <<owner, edit, importing, queueVars, job, recovery, refused>>
    BY <1>2 DEF StartCreates
  <2>2. rows'[m].status = "recording" /\ \A n \in Meeting \ {m} : Same(n)
    BY <1>1, <2>1 DEF NoRow, Same
  <2>3. Turns' /\ Owned(m)' /\ InGoodHands(m)'
    BY <1>1, <2>1, <2>2 DEF Turns, Owned, InGoodHands
  <2> QED BY <2>1, <2>2, <2>3, CommandGoesOn
<1>3. CASE StartFails(m)
  <2>1. /\ command.op = "start" /\ command.meeting = m /\ command' = NoCommand /\ Fail(m)
        /\ UNCHANGED <<owner, edit, importing, queueVars, job, recovery>>
    BY <1>3 DEF StartFails
  <2>2. Ended(m) /\ \A n \in Meeting \ {m} : Same(n)
    BY <1>1, <2>1, Failed
  <2>3. Turns' /\ Owned(m)' /\ InGoodHands(m)'
    BY <1>1, <2>1, <2>2 DEF Turns, Owned, InGoodHands, Ended
  <2> QED BY <2>1, <2>2, <2>3, CommandGoesOn
<1>4. CASE StartOpens(m)
  <2>1. /\ command.op = "start" /\ command.meeting = m
        /\ command'.op = "start" /\ command'.meeting = m /\ command'.at = "opened"
        /\ UNCHANGED <<rows, owner, edit, importing, queueVars, job, recovery, refused>>
    BY <1>4 DEF StartOpens
  <2>2. Turns' /\ Owned(m)'
    BY <1>1, <2>1 DEF Turns, Owned
  <2>3. InGoodHands(m)'
    BY <1>1, <2>1 DEF InGoodHands, Served, Queued, AboutToEnqueue, queueVars
  <2> QED BY <2>1, <2>2, <2>3, CommandGoesOn DEF Same
<1>5. CASE StartRecords(m)
  <2>1. /\ command.op = "start" /\ command.meeting = m /\ command' = NoCommand /\ owner' = m
        /\ Update(m, [rows[m] EXCEPT !.audio = 1]) \/ UNCHANGED rows
        /\ UNCHANGED <<edit, importing, queueVars, job, recovery, refused>>
    BY <1>5 DEF StartRecords
  <2>2. \A n \in Meeting : Same(n)
    <3>1. [rows[m] EXCEPT !.audio = 1] \in Row
          /\ [rows[m] EXCEPT !.audio = 1].status = rows[m].status
      BY <1>1 DEF Row
    <3>2. CASE UNCHANGED rows
      BY <2>1, <3>2 DEF Same
    <3> QED BY <1>1, <2>1, <3>1, <3>2, StatusStays
  <2>3. owner = None
    BY <1>1, <2>1 DEF Turns
  <2>4. Turns' /\ Owned(m)'
    BY <1>1, <2>1 DEF Turns, Owned
  <2>5. InGoodHands(m)'
    BY <1>1, <2>1, <2>2 DEF InGoodHands, Served, Queued, AboutToEnqueue, Same, queueVars
  <2> QED BY <2>1, <2>2, <2>3, <2>4, <2>5, CommandGoesOn
<1>6. CASE StopRecorder(m)
  <2>1. /\ command = NoCommand /\ owner = m
        /\ command'.op = "stop" /\ command'.meeting = m /\ command'.at = "stopped"
        /\ UNCHANGED <<rows, owner, edit, importing, queueVars, job, recovery, refused>>
    BY <1>6 DEF StopRecorder
  <2>2. Turns' /\ Owned(m)'
    BY <1>1, <2>1 DEF Turns, Owned
  <2>3. InGoodHands(m)'
    BY <1>1, <2>1 DEF InGoodHands, Served, Queued, AboutToEnqueue, queueVars
  <2> QED BY <2>1, <2>2, <2>3, CommandGoesOn DEF Same
<1>7. CASE StopFails(m) \/ StopIsRefused(m)
  <2>1. /\ command.op = "stop" /\ command.meeting = m /\ command' = NoCommand
        /\ Fail(m) /\ owner' = None
        /\ UNCHANGED <<edit, importing, queueVars, job, recovery>>
    BY <1>7 DEF StopFails, StopIsRefused, Fail
  <2>2. Ended(m) /\ \A n \in Meeting \ {m} : Same(n)
    BY <1>1, <2>1, Failed
  <2>3. Turns' /\ Owned(m)' /\ InGoodHands(m)' /\ owner = m
    BY <1>1, <2>1, <2>2 DEF Turns, Owned, InGoodHands, Ended
  <2> QED BY <2>1, <2>2, <2>3, CommandGoesOn
<1>8. CASE StopStores(m)
  <2>1. /\ command.op = "stop" /\ command.meeting = m /\ SetAudio(m, 1)
        /\ command'.op = "stop" /\ command'.meeting = m /\ command'.at = "stored"
        /\ UNCHANGED <<owner, edit, importing, queueVars, job, recovery>>
    BY <1>8 DEF StopStores
  <2>2. /\ rows'[m].status = IF Exists(m) THEN "processing" ELSE rows[m].status
        /\ \A n \in Meeting \ {m} : Same(n)
    BY <1>1, <2>1, AudioSet
  <2>3. rows'[m].status # "recording"
    BY <2>2
  <2>4. Turns' /\ Owned(m)' /\ InGoodHands(m)'
    BY <1>1, <2>1, <2>3 DEF Turns, Owned, InGoodHands, AboutToEnqueue
  <2> QED BY <2>1, <2>2, <2>4, CommandGoesOn
<1>9. CASE StopEnqueues(m)
  <2>1. /\ command.op = "stop" /\ command.meeting = m /\ command.at = "stored"
        /\ command' = NoCommand /\ owner' = None
        /\ UNCHANGED <<rows, edit, importing, job, recovery, refused>> /\ Enqueue(m, 1)
    BY <1>9 DEF StopEnqueues
  <2>2. /\ QueueInHand' /\ (Served(m)' \/ m \in swallowed')
        /\ \A n \in Meeting : Served(n) => Served(n)'
        /\ \A n \in Meeting \ {m} : n \in swallowed => n \in swallowed'
    BY <1>1, <2>1, Enqueued
  <2>3. owner = m /\ rows[m].status # "recording" /\ Turns'
    BY <1>1, <2>1 DEF Turns
  <2>4. \A n \in Meeting : Owned(n)'
    BY <2>1, <2>3, NoneIsNoMeeting DEF Standing, Owned, OnList
  <2>5. \A n \in Meeting \ {m} : AboutToEnqueue(n) => AboutToEnqueue(n)'
    BY <2>1 DEF AboutToEnqueue
  <2>6. \A n \in Meeting : InGoodHands(n)'
    BY <2>1, <2>2, <2>5 DEF Standing, InGoodHands
  <2> QED BY <2>2, <2>3, <2>4, <2>6 DEF Stands
<1>10. CASE RetryReads(m)
  <2>1. /\ command = NoCommand /\ rows[m].status # "recording"
        /\ command'.op = "retry" /\ command'.meeting = m /\ command'.at = "read"
        /\ UNCHANGED <<rows, owner, edit, importing, queueVars, job, recovery, refused>>
    BY <1>10 DEF RetryReads
  <2>2. Turns' /\ Owned(m)'
    BY <1>1, <2>1 DEF Turns, Owned
  <2>3. InGoodHands(m)'
    BY <1>1, <2>1 DEF InGoodHands, Served, Queued, AboutToEnqueue, queueVars
  <2> QED BY <2>1, <2>2, <2>3, CommandGoesOn DEF Same
<1>11. CASE RetryChecks(m)
  <2>1. /\ command.op = "retry" /\ command.meeting = m /\ command.at = "read"
        /\ \/ command' = NoCommand
           \/ command'.op = "retry" /\ command'.meeting = m /\ command'.at = "checked"
        /\ UNCHANGED <<rows, owner, edit, importing, queueVars, job, recovery, refused>>
    BY <1>11 DEF RetryChecks
  <2>2. Turns' /\ Owned(m)'
    BY <1>1, <2>1 DEF Turns, Owned
  <2>3. InGoodHands(m)'
    BY <1>1, <2>1 DEF InGoodHands, Served, Queued, AboutToEnqueue, queueVars
  <2>4. command'.meeting \in {m, None}
    BY <2>1
  <2> QED BY <2>1, <2>2, <2>3, <2>4, CommandGoesOn DEF Same
<1>12. CASE RetryMarks(m)
  <2>1. /\ command.op = "retry" /\ command.meeting = m /\ command.at = "checked"
        /\ \/ /\ SetStatus(m, "processing")
              /\ command'.op = "retry" /\ command'.meeting = m /\ command'.at = "marked"
           \/ command' = NoCommand /\ UNCHANGED <<rows, refused>>
        /\ UNCHANGED <<owner, edit, importing, queueVars, job, recovery>>
    BY <1>12 DEF RetryMarks
  <2>2. CASE SetStatus(m, "processing") /\ command'.op = "retry" /\ command'.meeting = m
             /\ command'.at = "marked"
    <3>1. /\ rows'[m].status = IF Exists(m) THEN "processing" ELSE rows[m].status
          /\ \A n \in Meeting \ {m} : Same(n)
      BY <1>1, <2>2, StatusSet
    <3>2. rows'[m].status # "recording"
      BY <3>1
    <3>3. Turns' /\ Owned(m)' /\ InGoodHands(m)'
      BY <1>1, <2>1, <2>2, <3>2 DEF Turns, Owned, InGoodHands, AboutToEnqueue
    <3> QED BY <2>1, <2>2, <3>1, <3>3, CommandGoesOn
  <2>3. CASE command' = NoCommand /\ UNCHANGED <<rows, refused>>
    <3>1. Turns' /\ Owned(m)'
      BY <1>1, <2>1, <2>3 DEF Turns, Owned
    <3>2. InGoodHands(m)'
      BY <1>1, <2>1, <2>3 DEF InGoodHands, Served, Queued, AboutToEnqueue, queueVars
    <3> QED BY <2>1, <2>3, <3>1, <3>2, CommandGoesOn DEF Same
  <2> QED BY <2>1, <2>2, <2>3
<1>13. CASE RetryEnqueues(m)
  <2>1. /\ command.op = "retry" /\ command.meeting = m /\ command' = NoCommand
        /\ UNCHANGED <<rows, owner, edit, importing, job, recovery, refused>>
        /\ Enqueue(m, command.audio)
    BY <1>13 DEF RetryEnqueues
  <2>2. command.audio \in Nat
    BY <1>1 DEF Minutes
  <2>3. /\ QueueInHand' /\ (Served(m)' \/ m \in swallowed')
        /\ \A n \in Meeting : Served(n) => Served(n)'
        /\ \A n \in Meeting \ {m} : n \in swallowed => n \in swallowed'
    BY <1>1, <2>1, <2>2, Enqueued
  <2>4. rows[m].status # "recording" /\ Turns'
    BY <1>1, <2>1 DEF Turns
  <2>5. \A n \in Meeting : Owned(n)'
    BY <2>1, <2>4 DEF Standing, Owned, OnList
  <2>6. \A n \in Meeting \ {m} : AboutToEnqueue(n) => AboutToEnqueue(n)'
    BY <2>1 DEF AboutToEnqueue
  <2>7. \A n \in Meeting : InGoodHands(n)'
    BY <2>1, <2>3, <2>6 DEF Standing, InGoodHands
  <2> QED BY <2>3, <2>4, <2>5, <2>7 DEF Stands
<1> QED
  BY <1>2, <1>3, <1>4, <1>5, <1>6, <1>7, <1>8, <1>9, <1>10, <1>11, <1>12, <1>13
  DEF CommandStep

-----------------------------------------------------------------------------
\* A step that changes one meeting, or none, beside the commands and the queue.
LEMMA TaskGoesOn ==
    ASSUME Standing, NEW m \in Meeting,
           UNCHANGED <<owner, command, queueVars, job, recovery>>,
           \A n \in Meeting \ {m} : Same(n) /\ (AboutToEnqueue(n) => AboutToEnqueue(n)'),
           rows'[m].status # "recording" \/ Same(m), InGoodHands(m)'
    PROVE  Stands
<1>1. QueueInHand' /\ \A n \in Meeting : Queued(n)' <=> Queued(n)
  BY QueueStands DEF Standing, QueueInHand, queueVars
<1>2. Turns' /\ \A n \in Meeting : Owned(n)'
  BY CommandsStand DEF Standing, Owned, OnList, Same
<1>3. ASSUME NEW n \in Meeting, n # m PROVE InGoodHands(n)'
  BY <1>1, <1>3 DEF Standing, InGoodHands, Same, Served, queueVars
<1> QED BY <1>1, <1>2, <1>3 DEF Stands

\* A request of a task that leaves rows and refusals as they are.
LEMMA TaskEnqueues ==
    ASSUME Standing, NEW m \in Meeting, NEW v \in Nat, Enqueue(m, v),
           UNCHANGED <<rows, owner, command, job, refused>>,
           \A n \in Meeting \ {m} : AboutToEnqueue(n) => AboutToEnqueue(n)',
           \A n \in Meeting : Owned(n)'
    PROVE  Stands
<1>1. /\ QueueInHand' /\ (Served(m)' \/ m \in swallowed')
      /\ \A n \in Meeting : Served(n) => Served(n)'
      /\ \A n \in Meeting \ {m} : n \in swallowed => n \in swallowed'
  BY Enqueued DEF Standing
<1>2. Turns'
  BY CommandsStand
<1>3. \A n \in Meeting : InGoodHands(n)'
  BY <1>1 DEF Standing, InGoodHands
<1> QED BY <1>1, <1>2, <1>3 DEF Stands

LEMMA TaskStands ==
    ASSUME Standing, NEW m \in Meeting,
           EditStep(m) \/ ImportCreates(m) \/ ImportEnqueues(m) \/ DraftEnds(m)
    PROVE  Stands
<1>1. /\ Minutes /\ Owned(m) /\ InGoodHands(m) /\ rows \in [Meeting -> Row]
      /\ m # None /\ edit \in AnyEdit /\ edit.audio \in Nat /\ edit.audio + 1 \in Nat
  BY Typed, NoneIsNoMeeting DEF Standing, Minutes, AnyEdit
<1>2. \A at \in {"prepared", "replaced", "removed"} :
         [edit EXCEPT !.at = at].op = edit.op /\ [edit EXCEPT !.at = at].meeting = edit.meeting
         /\ [edit EXCEPT !.at = at].at = at
  BY <1>1 DEF AnyEdit
\* No row changes, and nobody about to enqueue stops being so.
<1>3. CASE TrimBegins(m) \/ TrimPrepares(m) \/ TrimRemovesOld(m) \/ DeleteFiles(m)
  <2>1. UNCHANGED <<rows, owner, command, importing, queueVars, job, recovery, refused>>
    BY <1>3 DEF TrimBegins, TrimPrepares, TrimRemovesOld, DeleteFiles
  <2>2. \A n \in Meeting : Editing("trim", n, "replaced") \/ Editing("trim", n, "removed")
            => Editing("trim", n, "replaced")' \/ Editing("trim", n, "removed")'
    <3>1. CASE TrimRemovesOld(m)
      BY <1>2, <3>1 DEF TrimRemovesOld, EditGoesOn
    <3>2. CASE TrimBegins(m) \/ TrimPrepares(m) \/ DeleteFiles(m)
      BY <3>2 DEF TrimBegins, TrimPrepares, DeleteFiles, NoEdit
    <3> QED BY <1>3, <3>1, <3>2
  <2>3. \A n \in Meeting : AboutToEnqueue(n) => AboutToEnqueue(n)'
    BY <2>1, <2>2 DEF AboutToEnqueue
  <2>4. InGoodHands(m)'
    BY <1>1, <2>1, <2>3 DEF InGoodHands, Served, Queued, queueVars
  <2> QED BY <2>1, <2>3, <2>4, TaskGoesOn DEF Same
<1>4. CASE TrimReplaces(m)
  <2>1. /\ edit.op = "trim" /\ edit.meeting = m /\ edit.at = "prepared"
        /\ UNCHANGED <<owner, command, importing, queueVars, job, recovery>>
        /\ \/ /\ Update(m, [NoRow EXCEPT !.status = "processing", !.audio = edit.audio + 1])
              /\ EditGoesOn("replaced") /\ refused' = refused \ {m}
           \/ edit' = NoEdit /\ UNCHANGED <<rows, refused>>
    BY <1>4 DEF TrimReplaces
  <2>2. \A n \in Meeting \ {m} : AboutToEnqueue(n) => AboutToEnqueue(n)'
    BY <2>1 DEF AboutToEnqueue
  <2>3. CASE edit' = NoEdit /\ UNCHANGED <<rows, refused>>
    <3>1. InGoodHands(m)'
      BY <1>1, <2>1, <2>3 DEF InGoodHands, Served, Queued, AboutToEnqueue, queueVars
    <3> QED BY <2>1, <2>2, <2>3, <3>1, TaskGoesOn DEF Same
  <2>4. CASE /\ Update(m, [NoRow EXCEPT !.status = "processing", !.audio = edit.audio + 1])
             /\ EditGoesOn("replaced") /\ refused' = refused \ {m}
    <3>1. [NoRow EXCEPT !.status = "processing", !.audio = edit.audio + 1].status = "processing"
      BY DEF NoRow
    <3>2. rows'[m].status # "recording" /\ \A n \in Meeting \ {m} : Same(n)
      BY <1>1, <2>4, <3>1 DEF Update, Same
    <3>3. Editing("trim", m, "replaced")'
      BY <1>2, <2>1, <2>4 DEF EditGoesOn
    <3>4. InGoodHands(m)'
      BY <3>3 DEF InGoodHands, AboutToEnqueue
    <3> QED BY <2>1, <2>2, <3>2, <3>4, TaskGoesOn
  <2> QED BY <2>1, <2>3, <2>4
<1>5. CASE TrimEnqueues(m)
  <2>1. /\ edit.meeting = m /\ edit' = NoEdit
        /\ UNCHANGED <<rows, owner, command, importing, job, recovery, refused>>
        /\ Enqueue(m, edit.audio + 1)
    BY <1>5 DEF TrimEnqueues
  <2>2. \A n \in Meeting \ {m} : AboutToEnqueue(n) => AboutToEnqueue(n)'
    BY <2>1 DEF AboutToEnqueue
  <2>3. \A n \in Meeting : Owned(n)'
    BY <2>1 DEF Standing, Owned, OnList
  <2> QED BY <1>1, <2>1, <2>2, <2>3, TaskEnqueues
<1>6. CASE DeleteRow(m)
  <2>1. /\ edit = NoEdit /\ rows' = [rows EXCEPT ![m] = Gone(m)]
        /\ UNCHANGED <<owner, command, importing, queueVars, job, recovery, refused>>
    BY <1>6 DEF DeleteRow
  <2>2. rows'[m].status = "deleted" /\ \A n \in Meeting \ {m} : Same(n)
    BY <1>1, <2>1 DEF Gone, NoRow, Same
  <2>3. \A n \in Meeting : AboutToEnqueue(n) => AboutToEnqueue(n)'
    BY <2>1 DEF AboutToEnqueue, NoEdit
  <2>4. InGoodHands(m)'
    BY <2>2 DEF InGoodHands
  <2> QED BY <2>1, <2>2, <2>3, <2>4, TaskGoesOn
<1>7. CASE ImportCreates(m)
  <2>1. /\ rows' = [rows EXCEPT ![m] = [NoRow EXCEPT !.status = "processing", !.audio = 1]]
        /\ importing' = importing \cup {m}
        /\ UNCHANGED <<owner, command, edit, queueVars, job, recovery, refused>>
    BY <1>7 DEF ImportCreates
  <2>2. rows'[m].status = "processing" /\ \A n \in Meeting \ {m} : Same(n)
    BY <1>1, <2>1 DEF NoRow, Same
  <2>3. \A n \in Meeting : AboutToEnqueue(n) => AboutToEnqueue(n)'
    BY <2>1 DEF AboutToEnqueue
  <2>4. InGoodHands(m)'
    BY <2>1 DEF InGoodHands, AboutToEnqueue
  <2> QED BY <2>1, <2>2, <2>3, <2>4, TaskGoesOn
<1>8. CASE ImportEnqueues(m)
  <2>1. /\ importing' = importing \ {m} /\ Enqueue(m, 1)
        /\ UNCHANGED <<rows, owner, command, edit, job, recovery, refused>>
    BY <1>8 DEF ImportEnqueues
  <2>2. \A n \in Meeting \ {m} : AboutToEnqueue(n) => AboutToEnqueue(n)'
    BY <2>1 DEF AboutToEnqueue
  <2>3. \A n \in Meeting : Owned(n)'
    BY <2>1 DEF Standing, Owned, OnList
  <2> QED BY <2>1, <2>2, <2>3, TaskEnqueues
<1>9. CASE DraftEnds(m)
  <2>1. /\ UNCHANGED <<owner, command, edit, importing, queueVars, job, recovery, refused>>
        /\ \/ UNCHANGED rows
           \/ Update(m, [rows[m] EXCEPT !.summaries = WithDraft(rows[m].summaries)])
    BY <1>9 DEF DraftEnds
  <2>2. \A n \in Meeting : Same(n)
    <3> DEFINE row == [rows[m] EXCEPT !.summaries = WithDraft(rows[m].summaries)]
    <3>1. row \in Row /\ row.status = rows[m].status
      BY <1>1 DEF Row, WithDraft
    <3>2. CASE UNCHANGED rows
      BY <2>1, <3>2 DEF Same
    <3>3. CASE Update(m, row)
      <4> HIDE DEF row
      <4> QED BY <1>1, <2>1, <3>1, <3>3, StatusStays
    <3> QED BY <2>1, <3>2, <3>3
  <2>3. \A n \in Meeting : AboutToEnqueue(n) => AboutToEnqueue(n)'
    BY <2>1 DEF AboutToEnqueue
  <2>4. InGoodHands(m)'
    BY <1>1, <2>1, <2>2, <2>3 DEF InGoodHands, Served, Queued, Same, queueVars
  <2> QED BY <2>1, <2>2, <2>3, <2>4, TaskGoesOn
<1> QED
  BY <1>3, <1>4, <1>5, <1>6, <1>7, <1>8, <1>9 DEF EditStep

-----------------------------------------------------------------------------
\* A job goes on: it still works, or it leaves the status as it is, or it has
\* ended what the row said.
LEMMA JobGoesOn ==
    ASSUME Standing, NEW m \in Meeting, NEW x \in Working \cup JobTail,
           job[m] # "none", job' = [job EXCEPT ![m] = x],
           UNCHANGED <<waiting, holder, overrun, ticket, swallowed>>, JobOnly,
           \A n \in Meeting \ {m} : Same(n),
           \/ x \in Working /\ (rows'[m].status # "recording" \/ Same(m))
           \/ job[m] \in JobTail /\ Same(m)
           \/ Ended(m)
    PROVE  Stands
<1>1. job \in [Meeting -> Working \cup JobTail \cup {"none"}]
  BY DEF Standing, QueueInHand
<1>2. /\ job' \in [Meeting -> Working \cup JobTail \cup {"none"}] /\ job'[m] = x /\ x # "none"
      /\ \A n \in Meeting \ {m} : job'[n] = job[n]
  BY <1>1 DEF Working
<1>3. QueueInHand' /\ \A n \in Meeting : Queued(n)' <=> Queued(n)
  <2>1. \A n \in Meeting : job'[n] = "none" <=> job[n] = "none"
    BY <1>2
  <2> QED BY <1>2, <2>1, QueueStands DEF Standing
<1>4. \A n \in Meeting : AboutToEnqueue(n) => AboutToEnqueue(n)'
  BY DEF AboutToEnqueue, JobOnly, taskVars
<1>5. ASSUME NEW n \in Meeting, n # m PROVE InGoodHands(n)'
  <2>1. Served(n) => Served(n)'
    BY <1>2, <1>3, <1>5 DEF Served
  <2> QED BY <1>4, <1>5, <2>1 DEF Standing, InGoodHands, Same
<1>6. InGoodHands(m)'
  <2>1. CASE x \in Working
    BY <1>2, <2>1 DEF InGoodHands, Served, Working
  <2>2. CASE job[m] \in JobTail /\ Same(m)
    BY <1>3, <1>4, <2>2 DEF Standing, InGoodHands, Served, Same
  <2>3. CASE Ended(m)
    BY <2>3 DEF InGoodHands, Ended
  <2> QED BY <2>1, <2>2, <2>3
<1>7. \A n \in Meeting : Owned(n)'
  BY DEF Standing, Owned, OnList, Same, Ended, JobOnly, taskVars
<1>8. Turns'
  BY CommandsStand DEF Same, Ended, JobOnly, taskVars
<1> QED BY <1>3, <1>5, <1>6, <1>7, <1>8 DEF Stands

LEMMA JobStands ==
    ASSUME Standing, NEW m \in Meeting, JobStep(m), ~JobStarts(m), ~JobEnds(m)
    PROVE  Stands
<1>1. Minutes /\ rows[m] \in Row /\ ticket[m] \in Nat
  BY Typed DEF Standing, Minutes
<1>2. JobOnly /\ UNCHANGED <<waiting, holder, overrun, ticket, swallowed>>
  BY DEF JobStep, JobBegins, JobHears, JobClears, JobWrites, JobSummarizes, JobSavesMinutes,
         JobReady, JobMarks, JobFails, JobFailsAgain, queueVars
<1>3. \A t \in {0, ticket[m]} : [rows[m] EXCEPT !.transcript = t] \in Row
           /\ [rows[m] EXCEPT !.transcript = t].status = rows[m].status
  BY <1>1 DEF Row
<1>4. [rows[m] EXCEPT !.summaries = Finals] \in Row
      /\ [rows[m] EXCEPT !.summaries = Finals].status = rows[m].status
  BY <1>1 DEF Row, Finals
<1>5. CASE JobBegins(m) \/ JobSummarizes(m)
  <2>1. PICK s \in {"transcribing", "summarizing"} :
           /\ SetStatus(m, s) /\ job[m] # "none" /\ job' = [job EXCEPT ![m] = s]
    BY <1>5 DEF JobBegins, JobSummarizes, JobMoves
  <2>2. /\ rows'[m].status = IF Exists(m) THEN s ELSE rows[m].status
        /\ \A n \in Meeting \ {m} : Same(n)
    BY <1>1, <2>1, StatusSet
  <2>3. rows'[m].status # "recording" /\ s \in Working
    BY <2>2 DEF Working
  <2> QED BY <1>2, <2>1, <2>2, <2>3, JobGoesOn
<1>6. CASE JobHears(m) \/ JobClears(m) \/ JobWrites(m) \/ JobSavesMinutes(m) \/ JobMarks(m)
  <2>1. \A n \in Meeting : Same(n)
    <3>1. refused' = refused
      BY <1>6 DEF JobHears, JobClears, JobWrites, JobSavesMinutes, JobMarks
    <3>2. CASE UNCHANGED rows
      BY <3>1, <3>2 DEF Same
    <3>3. CASE \E row \in {[rows[m] EXCEPT !.transcript = 0],
                           [rows[m] EXCEPT !.transcript = ticket[m]],
                           [rows[m] EXCEPT !.summaries = Finals]} : Update(m, row)
      <4>1. PICK row \in Row : row.status = rows[m].status /\ Update(m, row)
        BY <1>3, <1>4, <3>3
      <4> QED BY <1>1, <3>1, <4>1, StatusStays
    <3> QED
      BY <1>6, <3>2, <3>3 DEF JobHears, JobClears, JobWrites, JobSavesMinutes, JobMarks
  <2>2. PICK x \in Working \cup JobTail :
           /\ job[m] # "none" /\ job' = [job EXCEPT ![m] = x]
           /\ x \in Working \/ job[m] \in JobTail
    BY <1>6 DEF JobHears, JobClears, JobWrites, JobSavesMinutes, JobMarks, JobMoves, Working
  <2> QED BY <1>2, <2>1, <2>2, JobGoesOn
<1>7. CASE JobReady(m)
  <2>1. PICK x \in JobTail :
           job[m] # "none" /\ job' = [job EXCEPT ![m] = x] /\ SetStatus(m, "ready")
    BY <1>7 DEF JobReady, JobMoves
  <2>2. /\ rows'[m].status = IF Exists(m) THEN "ready" ELSE rows[m].status
        /\ \A n \in Meeting \ {m} : Same(n)
    BY <1>1, <2>1, StatusSet
  <2>3. Ended(m)
    BY <1>1, <2>2 DEF Ended
  <2> QED BY <1>2, <2>1, <2>2, <2>3, JobGoesOn
<1>8. CASE JobFails(m) \/ JobFailsAgain(m)
  <2>1. PICK x \in JobTail : job[m] # "none" /\ job' = [job EXCEPT ![m] = x] /\ Fail(m)
    BY <1>8 DEF JobFails, JobFailsAgain, JobMoves
  <2>2. Ended(m) /\ \A n \in Meeting \ {m} : Same(n)
    BY <1>1, <2>1, Failed
  <2> QED BY <1>2, <2>1, <2>2, JobGoesOn
<1> QED BY <1>5, <1>6, <1>7, <1>8 DEF JobStep

\* A step of the queue on one job: no row changes, and a meeting that is served
\* still is.
LEMMA WorkerStands ==
    ASSUME Standing, QueueInHand', UNCHANGED <<rows, ticket, swallowed, refused>>, JobOnly,
           \A n \in Meeting : Served(n) => Served(n)'
    PROVE  Stands
<1>1. \A n \in Meeting : AboutToEnqueue(n) => AboutToEnqueue(n)'
  BY DEF AboutToEnqueue, JobOnly, taskVars
<1>2. Turns'
  BY CommandsStand DEF JobOnly, taskVars
<1>3. \A n \in Meeting : Owned(n)' /\ InGoodHands(n)'
  BY <1>1 DEF Standing, Owned, OnList, InGoodHands, JobOnly, taskVars
<1> QED BY <1>2, <1>3 DEF Stands

LEMMA StartStands ==
    ASSUME Standing, NEW m \in Meeting, JobStarts(m)
    PROVE  Stands
<1>1. /\ holder = None /\ waiting # << >> /\ m = Head(waiting)
      /\ holder' = m /\ waiting' = Tail(waiting) /\ UNCHANGED overrun
      /\ job[m] = "none" /\ job' = [job EXCEPT ![m] = "preparing"]
      /\ UNCHANGED <<rows, ticket, swallowed, refused>> /\ JobOnly
  BY DEF JobStarts, JobMoves, Queue!Start
<1>2. QueueInHand /\ waiting \in Seq(Meeting)
      /\ job \in [Meeting -> Working \cup JobTail \cup {"none"}]
  BY DEF Standing, QueueInHand
<1>3. /\ job' \in [Meeting -> Working \cup JobTail \cup {"none"}] /\ job'[m] = "preparing"
      /\ \A n \in Meeting \ {m} : job'[n] = job[n]
  BY <1>1, <1>2 DEF Working
<1>4. /\ waiting' \in Seq(Meeting) /\ Len(waiting) \in Nat \ {0}
      /\ DOMAIN waiting = 1 .. Len(waiting) /\ DOMAIN waiting' = 1 .. Len(waiting) - 1
      /\ waiting[1] = m
      /\ \A i \in 1 .. Len(waiting) - 1 : waiting'[i] = waiting[i + 1]
  BY <1>1, <1>2
<1>5. Queued(m) /\ ~Queued(m)'
  <2>1. Queued(m)
    BY <1>4 DEF Queued
  <2>2. ASSUME NEW i \in 1 .. Len(waiting) - 1, waiting'[i] = m PROVE FALSE
    <3>1. i + 1 \in 1 .. Len(waiting) /\ 1 \in 1 .. Len(waiting) /\ waiting[i + 1] = waiting[1]
      BY <1>4, <2>2
    <3>2. i + 1 = 1
      BY <1>2, <1>4, <3>1 DEF QueueInHand
    <3> QED BY <3>2
  <2> QED BY <1>4, <2>1, <2>2 DEF Queued
<1>6. ASSUME NEW n \in Meeting, n # m PROVE Queued(n)' <=> Queued(n)
  <2>1. ASSUME NEW i \in 1 .. Len(waiting) - 1, waiting'[i] = n PROVE Queued(n)
    <3>1. i + 1 \in DOMAIN waiting /\ waiting[i + 1] = n
      BY <1>4, <2>1
    <3> QED BY <3>1 DEF Queued
  <2>2. ASSUME NEW i \in 1 .. Len(waiting), waiting[i] = n PROVE Queued(n)'
    <3>1. i # 1
      BY <1>4, <1>6, <2>2
    <3>2. i - 1 \in 1 .. Len(waiting) - 1 /\ (i - 1) + 1 = i
      BY <1>4, <3>1
    <3>3. waiting'[i - 1] = n
      BY <1>4, <2>2, <3>2
    <3> QED BY <1>4, <3>2, <3>3 DEF Queued
  <2> QED BY <1>4, <2>1, <2>2 DEF Queued
<1>7. QueueInHand'
  <2>1. ASSUME NEW i \in DOMAIN waiting', NEW j \in DOMAIN waiting', waiting'[i] = waiting'[j]
        PROVE  i = j
    <3>1. i + 1 \in DOMAIN waiting /\ j + 1 \in DOMAIN waiting /\ waiting[i + 1] = waiting[j + 1]
      BY <1>4, <2>1
    <3>2. i + 1 = j + 1
      BY <1>2, <3>1 DEF QueueInHand
    <3> QED BY <1>4, <3>2
  <2>2. m \notin overrun /\ holder' = m /\ job'[m] # "none"
    BY <1>1, <1>2, <1>3, <1>5 DEF QueueInHand
  <2>3. ASSUME NEW n \in Meeting
        PROVE  /\ job'[n] # "none" <=> (holder' = n \/ n \in overrun')
               /\ holder' = n => n \notin overrun'
               /\ Queued(n)' => holder' # n /\ n \notin overrun'
    <3>1. CASE n = m
      BY <1>1, <1>5, <2>2, <3>1
    <3>2. CASE n # m
      <4>1. /\ job'[n] = job[n] /\ (Queued(n)' <=> Queued(n)) /\ holder # n /\ holder' # n
            /\ overrun' = overrun
        BY <1>1, <1>3, <1>6, <3>2, NoneIsNoMeeting
      <4>2. (job[n] # "none" <=> (holder = n \/ n \in overrun)) /\ (Queued(n) => n \notin overrun)
        BY <1>2 DEF QueueInHand
      <4> QED BY <4>1, <4>2
    <3> QED BY <3>1, <3>2
  <2> QED BY <1>3, <1>4, <2>1, <2>3 DEF QueueInHand
<1>8. ASSUME NEW n \in Meeting, Served(n) PROVE Served(n)'
  <2>1. CASE n = m
    BY <1>3, <2>1 DEF Served
  <2>2. CASE n # m
    BY <1>3, <1>6, <1>8, <2>2 DEF Served
  <2> QED BY <2>1, <2>2
<1> QED BY <1>1, <1>7, <1>8, WorkerStands

\* A job thread that is over, or one the worker no longer waits for.
LEMMA ReleaseStands ==
    ASSUME Standing, NEW m \in Meeting, JobEnds(m) \/ JobOverruns(m)
    PROVE  Stands
<1>1. /\ \/ /\ job[m] = "returned" /\ job' = [job EXCEPT ![m] = "none"]
            /\ \/ holder = m /\ holder' = None /\ UNCHANGED overrun
               \/ m \in overrun /\ overrun' = overrun \ {m} /\ UNCHANGED holder
         \/ holder = m /\ holder' = None /\ overrun' = overrun \cup {m} /\ UNCHANGED job
      /\ UNCHANGED <<rows, waiting, ticket, swallowed, refused>> /\ JobOnly
  BY DEF JobEnds, JobOverruns, JobMoves, JobOnly, Queue!End, Queue!EndLate, Queue!Overrun
<1>2. QueueInHand /\ job \in [Meeting -> Working \cup JobTail \cup {"none"}] /\ m # None
  BY NoneIsNoMeeting DEF Standing, QueueInHand
<1>3. /\ job' \in [Meeting -> Working \cup JobTail \cup {"none"}]
      /\ \A n \in Meeting \ {m} : job'[n] = job[n]
      /\ job'[m] \in {job[m], "none"}
      /\ job'[m] # job[m] => job[m] = "returned"
  BY <1>1, <1>2
<1>4. \A n \in Meeting : Queued(n)' <=> Queued(n)
  BY <1>1 DEF Queued
<1>5. QueueInHand'
  <2>1. ASSUME NEW n \in Meeting
        PROVE  /\ job'[n] # "none" <=> (holder' = n \/ n \in overrun')
               /\ holder' = n => n \notin overrun'
               /\ Queued(n)' => holder' # n /\ n \notin overrun'
    <3>1. /\ job[n] # "none" <=> (holder = n \/ n \in overrun)
          /\ holder = n => n \notin overrun
          /\ Queued(n) => holder # n /\ n \notin overrun
          /\ holder = m => m \notin overrun
      BY <1>2 DEF QueueInHand
    <3>2. CASE n = m
      BY <1>1, <1>2, <1>4, <3>1, <3>2
    <3>3. CASE n # m
      <4>1. job'[n] = job[n] /\ (Queued(n)' <=> Queued(n)) /\ n # None
        BY <1>3, <1>4, <3>3, NoneIsNoMeeting
      <4>2. (holder' = n <=> holder = n) /\ (n \in overrun' <=> n \in overrun)
        BY <1>1, <3>3, <4>1
      <4> QED BY <3>1, <4>1, <4>2
    <3> QED BY <3>2, <3>3
  <2>2. \A i, j \in DOMAIN waiting' : waiting'[i] = waiting'[j] => i = j
    BY <1>1, <1>2 DEF QueueInHand
  <2>3. waiting' \in Seq(Meeting)
    BY <1>1, <1>2 DEF QueueInHand
  <2> QED BY <1>3, <2>1, <2>2, <2>3 DEF QueueInHand
<1>6. ASSUME NEW n \in Meeting, Served(n) PROVE Served(n)'
  <2>1. CASE n = m
    BY <1>3, <1>4, <1>6, <2>1 DEF Served
  <2>2. CASE n # m
    BY <1>3, <1>4, <1>6, <2>2 DEF Served
  <2> QED BY <2>1, <2>2
<1> QED BY <1>1, <1>5, <1>6, WorkerStands

-----------------------------------------------------------------------------
\* The recovery thread goes on without a request: who was about to enqueue still
\* is, or has been ended.
LEMMA RecoveryGoesOn ==
    ASSUME Standing, RecoveryOnly, UNCHANGED <<queueVars, job>>,
           \A n \in Meeting :
              /\ \/ Same(n) \/ Ended(n)
                 \/ /\ rows'[n].status # "recording"
                    /\ recovery'.meeting = n /\ recovery'.at = "recovering"
              /\ InFlight(n) /\ AboutToEnqueue(n) => AboutToEnqueue(n)' \/ Ended(n)
              /\ Owned(n)'
    PROVE  Stands
<1>1. QueueInHand' /\ \A n \in Meeting : Queued(n)' <=> Queued(n)
  BY QueueStands DEF Standing, QueueInHand, queueVars
<1>2. Turns'
  BY CommandsStand DEF Same, Ended, RecoveryOnly
<1>3. ASSUME NEW n \in Meeting PROVE InGoodHands(n)'
  <2>1. CASE Ended(n)
    BY <2>1 DEF InGoodHands, Ended
  <2>2. CASE rows'[n].status # "recording" /\ recovery'.meeting = n /\ recovery'.at = "recovering"
    BY <2>2 DEF InGoodHands, AboutToEnqueue
  <2>3. CASE Same(n) /\ ~Ended(n)
    <3>1. Served(n) => Served(n)'
      BY <1>1 DEF Served
    <3> QED BY <2>3, <3>1 DEF Standing, InGoodHands, Same, queueVars
  <2> QED BY <2>1, <2>2, <2>3
<1> QED BY <1>1, <1>2, <1>3 DEF Stands

LEMMA RecoveryStands ==
    ASSUME Standing, RecoveryStep
    PROVE  Stands
<1>1. /\ Minutes /\ rows \in [Meeting -> Row] /\ None \notin Meeting /\ recovery \in Recovery
      /\ \A r \in recovery.todo : r.meeting \in Meeting /\ r.audio \in Nat
      /\ recovery.todo \in SUBSET [meeting : Meeting, audio : Nat]
  BY Typed DEF Standing, Minutes
<1>2. CASE RecoverLists
  <2> DEFINE S == {n \in Meeting : InFlight(n)}
  <2>1. /\ recovery' = [at |-> "resuming", meeting |-> None, todo |-> Listing(S)]
        /\ UNCHANGED <<rows, refused, queueVars, job>> /\ RecoveryOnly
    BY <1>2 DEF RecoverLists
  <2>2. \A n \in S : \E r \in Listing(S) : r.meeting = n
    BY <1>1, Listings
  <2>3. \A n \in Meeting : InFlight(n) => AboutToEnqueue(n)'
    BY <2>1, <2>2 DEF AboutToEnqueue
  <2>4. \A n \in Meeting : Owned(n)'
    BY <2>1 DEF Owned
  <2> QED BY <2>1, <2>3, <2>4, RecoveryGoesOn DEF Same
<1>3. CASE RecoverListsRecordings
  <2> DEFINE S == {n \in Meeting : rows[n].status = "recording"}
  <2>1. /\ recovery.at = "resuming" /\ recovery.todo = {}
        /\ recovery' = [at |-> "recovering", meeting |-> None, todo |-> Listing(S)]
        /\ UNCHANGED <<rows, refused, queueVars, job>> /\ RecoveryOnly
    BY <1>3 DEF RecoverListsRecordings
  <2>2. \A n \in S : \E r \in Listing(S) : r.meeting = n
    BY <1>1, Listings
  <2>3. \A n \in Meeting : AboutToEnqueue(n) => AboutToEnqueue(n)'
    BY <2>1 DEF AboutToEnqueue, RecoveryOnly
  <2>4. \A n \in Meeting : Owned(n)'
    BY <2>1, <2>2 DEF Owned, OnList
  <2> QED BY <2>1, <2>3, <2>4, RecoveryGoesOn DEF Same
<1>4. CASE RecoverResumes
  <2>1. PICK r \in recovery.todo :
           /\ recovery.at = "resuming"
           /\ recovery' = [recovery EXCEPT !.todo = recovery.todo \ {r}]
           /\ IF r.audio = 0
              THEN Fail(r.meeting) /\ UNCHANGED queueVars
              ELSE Enqueue(r.meeting, r.audio) /\ UNCHANGED <<rows, refused>>
           /\ RecoveryOnly /\ UNCHANGED job
    BY <1>4 DEF RecoverResumes
  <2>2. PICK m \in Meeting : m = r.meeting
    BY <1>1, <2>1
  <2>3. /\ recovery'.at = "resuming" /\ recovery'.meeting = recovery.meeting
        /\ recovery'.todo = recovery.todo \ {r}
    BY <1>1, <2>1 DEF Recovery
  <2>4. \A n \in Meeting \ {m} : AboutToEnqueue(n) => AboutToEnqueue(n)'
    BY <2>1, <2>2, <2>3 DEF AboutToEnqueue, RecoveryOnly
  <2>5. \A n \in Meeting : Owned(n)'
    BY <2>3 DEF Owned
  <2>6. CASE r.audio = 0
    <3>1. Ended(m) /\ \A n \in Meeting \ {m} : Same(n)
      BY <1>1, <2>1, <2>2, <2>6, Failed
    <3> QED BY <2>1, <2>4, <2>5, <2>6, <3>1, RecoveryGoesOn
  <2>7. CASE r.audio # 0
    <3>1. PICK v \in Nat : v = r.audio
      BY <1>1
    <3>2. Enqueue(m, v) /\ UNCHANGED <<rows, refused, job, owner, command>>
      BY <2>1, <2>2, <2>7, <3>1 DEF RecoveryOnly
    <3> QED BY <2>4, <2>5, <3>2, TaskEnqueues
  <2> QED BY <2>6, <2>7
<1>5. CASE RecoverOne
  <2>1. PICK r \in recovery.todo :
           /\ recovery.at = "recovering" /\ recovery.meeting = None
           /\ \/ /\ recovery' = [recovery EXCEPT !.todo = recovery.todo \ {r}]
                 /\ Fail(r.meeting)
              \/ /\ recovery' = [recovery EXCEPT !.todo = recovery.todo \ {r},
                                                 !.meeting = r.meeting]
                 /\ SetAudio(r.meeting, 1)
           /\ RecoveryOnly /\ UNCHANGED <<queueVars, job>>
    BY <1>5 DEF RecoverOne
  <2>2. PICK m \in Meeting : m = r.meeting
    BY <1>1, <2>1
  <2>3. /\ recovery'.at = "recovering" /\ recovery'.todo = recovery.todo \ {r}
        /\ (SetAudio(m, 1) /\ recovery'.meeting = m) \/ Fail(m)
    BY <1>1, <2>1, <2>2 DEF Recovery
  <2>4. \A n \in Meeting : AboutToEnqueue(n) => AboutToEnqueue(n)'
    BY <1>1, <2>1, <2>3 DEF AboutToEnqueue, RecoveryOnly
  <2>5. /\ \A n \in Meeting \ {m} : Same(n)
        /\ Ended(m) \/ (rows'[m].status # "recording" /\ recovery'.meeting = m)
    <3>1. CASE Fail(m)
      BY <1>1, <3>1, Failed
    <3>2. CASE SetAudio(m, 1) /\ recovery'.meeting = m
      <4>1. /\ rows'[m].status = IF Exists(m) THEN "processing" ELSE rows[m].status
            /\ \A n \in Meeting \ {m} : Same(n)
        BY <1>1, <3>2, AudioSet
      <4> QED BY <3>2, <4>1
    <3> QED BY <2>3, <3>1, <3>2
  <2>6. ASSUME NEW n \in Meeting PROVE Owned(n)'
    <3>1. CASE n = m
      BY <2>5, <3>1 DEF Owned, Ended
    <3>2. CASE n # m
      <4>1. OnList(n) => OnList(n)'
        BY <2>2, <2>3, <3>2 DEF OnList
      <4> QED BY <2>1, <2>5, <3>2, <4>1 DEF Standing, Owned, Same, RecoveryOnly
    <3> QED BY <3>1, <3>2
  <2> QED BY <2>1, <2>3, <2>4, <2>5, <2>6, RecoveryGoesOn
<1>6. CASE RecoverEnqueues
  <2>1. /\ recovery.at = "recovering" /\ recovery.meeting # None
        /\ Enqueue(recovery.meeting, 1)
        /\ recovery' = [recovery EXCEPT !.meeting = None]
        /\ RecoveryOnly /\ UNCHANGED <<rows, job, refused>>
    BY <1>6 DEF RecoverEnqueues
  <2>2. PICK m \in Meeting : m = recovery.meeting
    BY <1>1, <2>1 DEF Recovery
  <2>3. recovery'.at = "recovering" /\ recovery'.todo = recovery.todo
    BY <1>1, <2>1 DEF Recovery
  <2>4. \A n \in Meeting \ {m} : AboutToEnqueue(n) => AboutToEnqueue(n)'
    BY <2>1, <2>2 DEF AboutToEnqueue, RecoveryOnly
  <2>5. \A n \in Meeting : Owned(n)'
    BY <2>1, <2>3 DEF Standing, Owned, OnList, RecoveryOnly
  <2>6. Enqueue(m, 1) /\ UNCHANGED <<rows, refused, job, owner, command>>
    BY <2>1, <2>2 DEF RecoveryOnly
  <2> QED BY <2>4, <2>5, <2>6, TaskEnqueues
<1> QED BY <1>2, <1>3, <1>4, <1>5, <1>6 DEF RecoveryStep

-----------------------------------------------------------------------------
LEMMA MinutesStand ==
    ASSUME Minutes, [Next]_vars
    PROVE  Minutes'
<1>1. CASE \E m \in Meeting : JobOverruns(m)
  BY <1>1 DEF JobOverruns, taskVars, Minutes
<1>2. CASE Crash
  BY <1>2 DEF Crash, NoCommand, NoEdit, AnyEdit, Launched, Minutes, Recovery
<1>3. CASE UNCHANGED vars
  BY <1>3 DEF vars, taskVars, queueVars, Minutes
<1> QED
  BY <1>1, <1>2, <1>3, MinutesOfCommands, MinutesOfEdits, MinutesOfJobs, MinutesOfRecovery
  DEF Next

LEMMA InitStanding == Init => Standing
<1> SUFFICES ASSUME Init PROVE Standing
  OBVIOUS
<1>1. Minutes
  BY DEF Init, Minutes, Summarized, NoRow, NoCommand, NoEdit, AnyEdit, Launched, Row, Recovery
<1>2. /\ waiting = << >> /\ holder = None /\ overrun = {} /\ job = [m \in Meeting |-> "none"]
      /\ command = NoCommand /\ \A m \in Meeting : rows[m].status = "absent"
  BY DEF Init, Queue!Init, NoRow
<1>3. QueueInHand
  BY <1>2, NoneIsNoMeeting DEF QueueInHand, Queued
<1>4. Turns
  BY <1>2 DEF Turns, NoCommand
<1>5. \A m \in Meeting : Owned(m) /\ InGoodHands(m)
  BY <1>2 DEF Owned, InGoodHands
<1> QED BY <1>1, <1>3, <1>4, <1>5 DEF Standing

LEMMA CrashStands ==
    ASSUME Standing, Crash
    PROVE  Stands
<1>1. /\ waiting' = << >> /\ holder' = None /\ overrun' = {}
      /\ job' = [m \in Meeting |-> "none"] /\ command' = NoCommand /\ recovery'.at = "launched"
  BY DEF Crash, Launched
<1>2. QueueInHand'
  BY <1>1, NoneIsNoMeeting DEF QueueInHand, Queued
<1>3. Turns'
  BY <1>1, NoneIsNoMeeting DEF Turns, NoCommand
<1>4. \A m \in Meeting : Owned(m)' /\ InGoodHands(m)'
  BY <1>1 DEF Owned, InGoodHands, AboutToEnqueue
<1> QED BY <1>2, <1>3, <1>4 DEF Stands

(* What every row says of its meeting is somebody's business, at any pace. *)
THEOREM Invariance == Spec => []Standing
<1>1. Standing /\ [Next]_vars => Standing'
  <2> SUFFICES ASSUME Standing, [Next]_vars PROVE Standing'
    OBVIOUS
  <2>1. Minutes'
    BY MinutesStand DEF Standing
  <2>2. CASE UNCHANGED vars
    BY <2>1, <2>2
    DEF vars, taskVars, queueVars, Standing, QueueInHand, Turns, Owned, OnList, InGoodHands,
        Served, Queued, AboutToEnqueue
  <2>3. ASSUME Next PROVE Stands
    <3>1. CASE Crash \/ RecoveryStep
      BY <3>1, CrashStands, RecoveryStands
    <3>2. ASSUME NEW m \in Meeting, JobStep(m) PROVE Stands
      BY <3>2, JobStands, StartStands, ReleaseStands
    <3> QED BY <2>3, <3>1, <3>2, CommandStands, TaskStands, ReleaseStands DEF Next
  <2> QED BY <2>1, <2>2, <2>3 DEF Standing, Stands
<1> QED BY InitStanding, <1>1, PTL DEF Spec

(* Draft minutes never stand beside final ones, whichever task saves last  *)
(* (save_summary, save_minutes_draft_if_no_final).                         *)
THEOREM MinutesCorrect == Spec => []DraftYieldsToFinal
<1>1. Standing => DraftYieldsToFinal
  BY DEF Standing, Minutes, Summarized, DraftYieldsToFinal
<1> QED BY Invariance, <1>1, PTL

(* A row says "recording" only while its recording is made or is to be     *)
(* recovered, unless the store refused the change that ends it: whatever   *)
(* start, stop, retry, deletion, crash and recovery do to each other.      *)
THEOREM RecordingCorrect == Spec => []RecordingIsOwned
<1>1. Standing => RecordingIsOwned
  BY DEF Standing, Owned, OnList, RecordingIsOwned
<1> QED BY Invariance, <1>1, PTL

(* A meeting shown as being processed has a job that will write its        *)
(* status, or somebody about to enqueue one.  At any pace two accidents    *)
(* undo that and no other: the store refuses the status a job ends with,   *)
(* or the meeting's request falls into the tail of its last job.           *)
THEOREM ProcessingCorrect == Spec => []ServedUnlessSwallowed
<1>1. Standing => ServedUnlessSwallowed
  BY DEF Standing, InGoodHands, ServedUnlessSwallowed
<1> QED BY Invariance, <1>1, PTL

(* So every meeting in flight is served while no request has been dropped. *)
THEOREM UnservedNeedsDrop == Spec => [](swallowed = {} => InFlightIsServed)
<1>1. Standing => (swallowed = {} => InFlightIsServed)
  BY DEF Standing, InGoodHands, InFlightIsServed
<1> QED BY Invariance, <1>1, PTL

=============================================================================
