-------------------------- MODULE MeetingLifecycle --------------------------
(***************************************************************************)
(* The life of a meeting from its recording or import to its minutes       *)
(* (meeting_cmd.rs), as its row in the store (lumen-store, meeting.rs) and *)
(* its audio files tell it.                                                *)
(*                                                                         *)
(* The main thread runs the commands start, stop and retry one after the   *)
(* other.  Imports, trims and deletions are tasks beside it; trim and      *)
(* delete exclude each other.  The processing queue is used as             *)
(* MeetingSchedule describes it, its job threads run the offline pipeline  *)
(* (lumen-meeting, process.rs).  Draft minutes are written by tasks of     *)
(* their own.  The process may crash at any step; the next launch runs the *)
(* recovery thread beside everything else.                                 *)
(*                                                                         *)
(* Audio is a version number: 1 is what was recorded or imported, each     *)
(* trim makes the next.                                                    *)
(***************************************************************************)
EXTENDS Naturals, Sequences

CONSTANTS
    Meeting,        \* the meetings of a behaviour
    None,           \* no meeting
    MaxVersion,     \* bound: versions of a meeting's audio
    MaxCrashes,     \* bound: crashes
    Paced           \* nothing falls into the instants Calm names

ASSUME NoneIsNoMeeting == None \notin Meeting
ASSUME BoundsAssumption == MaxVersion \in Nat \ {0} /\ MaxCrashes \in Nat
ASSUME PacedAssumption == Paced \in BOOLEAN

VARIABLES
    rows,       \* the meetings table with what hangs on a row
    files,      \* the versions of each meeting's audio on the disk
    owner,      \* MeetingRecordingOwner::active_id
    command,    \* where the main thread's command is
    edit,       \* where the task that holds meeting_audio_edit is
    importing,  \* imports whose row exists and whose job does not
    drafting,   \* meetings with draft minutes in the making
    waiting,    \* the processing queue, see MeetingSchedule
    holder,
    overrun,
    ticket,     \* the audio named by a meeting's job
    swallowed,  \* history: meetings whose last request to be processed was
                \* dropped in favour of a job that had nothing left to write
    job,        \* where a meeting's job thread is
    recovery,   \* where the recovery thread is
    refused,    \* history: meetings whose last change of status, or of audio
                \* at the end of a recording, the store refused
    crashes

queueVars == <<waiting, holder, overrun, ticket, swallowed>>
taskVars == <<command, edit, importing, drafting>>
vars == <<rows, files, owner, taskVars, queueVars, job, recovery, refused, crashes>>

Queue == INSTANCE MeetingSchedule

Versions == 1 .. MaxVersion
InFlightStatus == {"processing", "transcribing", "summarizing"}
Status == {"recording", "ready", "failed"} \cup InFlightStatus

NoRow == [status |-> "absent", audio |-> 0, transcript |-> 0, summaries |-> {}]
\* A deleted row; what audio it named is remembered for the properties only.
Gone(m) == [NoRow EXCEPT !.status = "deleted", !.audio = rows[m].audio]
Exists(m) == rows[m].status \in Status
InFlight(m) == rows[m].status \in InFlightStatus

NoCommand == [op |-> "none", meeting |-> None, at |-> "idle", audio |-> 0]
NoEdit == [op |-> "none", meeting |-> None, at |-> "idle", audio |-> 0]
Launched == [at |-> "launched", todo |-> {}, meeting |-> None]

Init ==
    /\ rows = [m \in Meeting |-> NoRow]
    /\ files = [m \in Meeting |-> {}]
    /\ owner = None
    /\ command = NoCommand
    /\ edit = NoEdit
    /\ importing = {}
    /\ drafting = {}
    /\ Queue!Init
    /\ ticket = [m \in Meeting |-> 0]
    /\ swallowed = {}
    /\ job = [m \in Meeting |-> "none"]
    /\ recovery = Launched
    /\ refused = {}
    /\ crashes = 0

-----------------------------------------------------------------------------
(* The store.  Every statement names the row by its id, so that it does    *)
(* nothing once the row is gone.                                           *)

Update(m, row) == rows' = IF Exists(m) THEN [rows EXCEPT ![m] = row] ELSE rows

(* update_meeting_status.                                                  *)
SetStatus(m, status) ==
    /\ Update(m, [rows[m] EXCEPT !.status = status])
    /\ refused' = refused \ {m}

(* set_meeting_audio.                                                      *)
SetAudio(m, version) ==
    /\ Update(m, [rows[m] EXCEPT !.audio = version, !.status = "processing"])
    /\ refused' = refused \ {m}

(* The store refuses a change: the row stays as it is.                     *)
Refuse(m) == refused' = refused \cup {m} /\ UNCHANGED rows

(* fail_meeting, as all its callers use it: an error of its own is dropped *)
(* or logged, and nothing tries again.                                     *)
Fail(m) == SetStatus(m, "failed") \/ Refuse(m)

(* save_summary of a Summary row, the minutes or the no-LLM marker: it      *)
(* supersedes a draft.  The local recap is left out.                       *)
Finals == {"final"}

\* Mutant: the draft is saved without looking for final minutes.
WithDraftAlways(summaries) == summaries \cup {"draft"}

(* save_minutes_draft_if_no_final.                                         *)
WithDraft(summaries) ==
    IF "final" \in summaries THEN summaries ELSE summaries \cup {"draft"}

-----------------------------------------------------------------------------
(* The queue: spawn_meeting_processing and is_pending.                     *)
Queued(m) == \E i \in DOMAIN waiting : waiting[i] = m
IsPending(m) == holder = m \/ m \in overrun \/ Queued(m)

(* What a job still does once its meeting is ready or failed.              *)
JobTail == {"unmarked", "failed", "returned"}

Enqueue(m, version) ==
    IF IsPending(m)
    THEN /\ swallowed' = IF job[m] \in JobTail THEN swallowed \cup {m} ELSE swallowed
         /\ UNCHANGED <<waiting, holder, overrun, ticket>>
    ELSE /\ Queue!Submit(m)
         /\ ticket' = [ticket EXCEPT ![m] = version]
         /\ swallowed' = swallowed \ {m}

(* When paced, no trim is committed while a job of the meeting is in its   *)
(* tail, no command is given before recovery has made its lists, and no    *)
(* trim is committed and nothing else enqueued between the steps of a      *)
(* retry, which the main thread takes in one go, and a meeting is not      *)
(* retried between the last steps of its trim.                             *)
NoRetry == Paced => command.op # "retry"
NotTrimmed(m) ==
    Paced => ~(edit.meeting = m /\ edit.at \in {"replaced", "removed"})
Calm(m) == NoRetry /\ (Paced => job[m] \notin JobTail)
Listed == Paced => recovery.at \notin {"launched", "resuming"}

-----------------------------------------------------------------------------
(* start_meeting_recording.                                                *)
At(op, m, at) == command.op = op /\ command.meeting = m /\ command.at = at
Continue(op, m, at) ==
    command' = [op |-> op, meeting |-> m, at |-> at, audio |-> command.audio]

StartCreates(m) ==
    /\ command = NoCommand
    /\ owner = None
    /\ rows[m] = NoRow
    /\ Listed
    /\ rows' = [rows EXCEPT ![m] = [NoRow EXCEPT !.status = "recording"]]
    /\ Continue("start", m, "created")
    /\ UNCHANGED <<files, owner, edit, importing, drafting, queueVars, job,
                   recovery, refused, crashes>>

(* The directory or the recorder cannot be had.                            *)
StartFails(m) ==
    /\ At("start", m, "created")
    /\ Fail(m)
    /\ command' = NoCommand
    /\ UNCHANGED <<files, owner, edit, importing, drafting, queueVars, job,
                   recovery, crashes>>

StartOpens(m) ==
    /\ At("start", m, "created")
    /\ files' = [files EXCEPT ![m] = {1}]
    /\ Continue("start", m, "opened")
    /\ UNCHANGED <<rows, owner, edit, importing, drafting, queueVars, job,
                   recovery, refused, crashes>>

(* set_meeting_audio_path, best effort, and the recording is live.         *)
StartRecords(m) ==
    /\ At("start", m, "opened")
    /\ \/ Update(m, [rows[m] EXCEPT !.audio = 1])
       \/ UNCHANGED rows
    /\ owner' = m
    /\ command' = NoCommand
    /\ UNCHANGED <<files, edit, importing, drafting, queueVars, job, recovery,
                   refused, crashes>>

-----------------------------------------------------------------------------
(* stop_meeting_recording.  A stop that names another meeting is refused   *)
(* or answered from last_completed, and changes nothing.                   *)
StopRecorder(m) ==
    /\ command = NoCommand
    /\ owner = m
    /\ Continue("stop", m, "stopped")
    /\ UNCHANGED <<rows, files, owner, edit, importing, drafting, queueVars,
                   job, recovery, refused, crashes>>

(* The recorder failed: the meeting fails with it.                         *)
StopFails(m) ==
    /\ At("stop", m, "stopped")
    /\ Fail(m)
    /\ owner' = None
    /\ command' = NoCommand
    /\ UNCHANGED <<files, edit, importing, drafting, queueVars, job, recovery,
                   crashes>>

(* set_meeting_audio fails: the row stays as it is until the next launch.  *)
StopIsRefused(m) ==
    /\ At("stop", m, "stopped")
    /\ Refuse(m)
    /\ owner' = None
    /\ command' = NoCommand
    /\ UNCHANGED <<files, edit, importing, drafting, queueVars, job, recovery,
                   crashes>>

StopStores(m) ==
    /\ At("stop", m, "stopped")
    /\ SetAudio(m, 1)
    /\ Continue("stop", m, "stored")
    /\ UNCHANGED <<files, owner, edit, importing, drafting, queueVars, job,
                   recovery, crashes>>

\* Mutant: the owner is kept.
StopKeepsOwner(m) ==
    /\ At("stop", m, "stored")
    /\ drafting' \in {drafting, drafting \cup {m}}
    /\ Enqueue(m, 1)
    /\ command' = NoCommand
    /\ UNCHANGED <<rows, files, owner, edit, importing, job, recovery, refused,
                   crashes>>

(* spawn_draft_minutes, when there is a language model and something was   *)
(* said, and spawn_meeting_processing.                                     *)
StopEnqueues(m) ==
    /\ At("stop", m, "stored")
    /\ drafting' \in {drafting, drafting \cup {m}}
    /\ Enqueue(m, 1)
    /\ owner' = None
    /\ command' = NoCommand
    /\ UNCHANGED <<rows, files, edit, importing, job, recovery, refused, crashes>>

-----------------------------------------------------------------------------
(* process_meeting_now, for any meeting with audio.  The window offers it  *)
(* for those it shows as failed: what it shows may be old, but a meeting   *)
(* that failed once is not being recorded, imported or recovered any more. *)
RetryReads(m) ==
    /\ command = NoCommand
    /\ Listed
    /\ Exists(m) /\ rows[m].audio # 0
    /\ rows[m].status # "recording" /\ m \notin importing /\ recovery.meeting # m
    /\ NotTrimmed(m)
    /\ command' = [op |-> "retry", meeting |-> m, at |-> "read",
                   audio |-> rows[m].audio]
    /\ UNCHANGED <<rows, files, owner, edit, importing, drafting, queueVars,
                   job, recovery, refused, crashes>>

RetryChecks(m) ==
    /\ At("retry", m, "read")
    /\ IF IsPending(m)
       THEN command' = NoCommand
       ELSE Continue("retry", m, "checked")
    /\ UNCHANGED <<rows, files, owner, edit, importing, drafting, queueVars,
                   job, recovery, refused, crashes>>

RetryMarks(m) ==
    /\ At("retry", m, "checked")
    /\ \/ SetStatus(m, "processing") /\ Continue("retry", m, "marked")
       \/ command' = NoCommand /\ UNCHANGED <<rows, refused>>
    /\ UNCHANGED <<files, owner, edit, importing, drafting, queueVars, job,
                   recovery, crashes>>

RetryEnqueues(m) ==
    /\ At("retry", m, "marked")
    /\ Enqueue(m, command.audio)
    /\ command' = NoCommand
    /\ UNCHANGED <<rows, files, owner, edit, importing, drafting, job,
                   recovery, refused, crashes>>

-----------------------------------------------------------------------------
(* import_meeting_file: the audio is copied before the row is made.        *)
ImportCreates(m) ==
    /\ rows[m] = NoRow
    /\ Listed
    /\ files' = [files EXCEPT ![m] = {1}]
    /\ rows' = [rows EXCEPT ![m] =
                  [NoRow EXCEPT !.status = "processing", !.audio = 1]]
    /\ importing' = importing \cup {m}
    /\ UNCHANGED <<owner, command, edit, drafting, queueVars, job, recovery,
                   refused, crashes>>

ImportEnqueues(m) ==
    /\ m \in importing
    /\ NoRetry
    /\ importing' = importing \ {m}
    /\ Enqueue(m, 1)
    /\ UNCHANGED <<rows, files, owner, command, edit, drafting, job, recovery,
                   refused, crashes>>

-----------------------------------------------------------------------------
(* trim_meeting_audio, a task that holds meeting_audio_edit.  edit.audio   *)
(* is the version it started from.                                         *)
Editing(op, m, at) == edit.op = op /\ edit.meeting = m /\ edit.at = at
EditGoesOn(at) == edit' = [edit EXCEPT !.at = at]

TrimBegins(m) ==
    /\ edit = NoEdit
    /\ Listed
    /\ rows[m].status = "ready"
    /\ rows[m].audio < MaxVersion
    /\ edit' = [op |-> "trim", meeting |-> m, at |-> "preparing",
                audio |-> rows[m].audio]
    /\ UNCHANGED <<rows, files, owner, command, importing, drafting, queueVars,
                   job, recovery, refused, crashes>>

(* prepare_meeting_trim writes the new files beside the old ones.          *)
TrimPrepares(m) ==
    /\ Editing("trim", m, "preparing")
    /\ \/ /\ files' = [files EXCEPT ![m] = files[m] \cup {edit.audio + 1}]
          /\ EditGoesOn("prepared")
       \/ /\ edit' = NoEdit
          /\ UNCHANGED files
    /\ UNCHANGED <<rows, owner, command, importing, drafting, queueVars, job,
                   recovery, refused, crashes>>

\* Mutant: the status is not looked at again when the audio is replaced.
TrimReplacesAnyway(m) ==
    /\ Editing("trim", m, "prepared")
    /\ Calm(m)
    /\ Update(m, [NoRow EXCEPT !.status = "processing", !.audio = edit.audio + 1])
    /\ EditGoesOn("replaced")
    /\ refused' = refused \ {m}
    /\ UNCHANGED <<files, owner, command, importing, drafting, queueVars, job,
                   recovery, crashes>>

\* Mutant: a trim that comes too late leaves the new files.
TrimReplacesOrGivesUp(m) ==
    /\ Editing("trim", m, "prepared")
    /\ Calm(m)
    /\ \/ /\ rows[m].status \in {"ready", "failed"}
          /\ Update(m, [NoRow EXCEPT !.status = "processing",
                                     !.audio = edit.audio + 1])
          /\ EditGoesOn("replaced")
          /\ refused' = refused \ {m}
       \/ edit' = NoEdit /\ UNCHANGED <<rows, refused>>
    /\ UNCHANGED <<files, owner, command, importing, drafting, queueVars, job,
                   recovery, crashes>>

(* replace_meeting_audio_after_trim: new audio and no derived data in one  *)
(* transaction, if the meeting is still at rest; otherwise, or when the    *)
(* store refuses, the new files are removed.                               *)
TrimReplaces(m) ==
    /\ Editing("trim", m, "prepared")
    /\ Calm(m)
    /\ \/ /\ rows[m].status \in {"ready", "failed"}
          /\ Update(m, [NoRow EXCEPT !.status = "processing",
                                     !.audio = edit.audio + 1])
          /\ EditGoesOn("replaced")
          /\ refused' = refused \ {m}
          /\ UNCHANGED files
       \/ /\ files' = [files EXCEPT ![m] = files[m] \ {edit.audio + 1}]
          /\ edit' = NoEdit
          /\ UNCHANGED <<rows, refused>>
    /\ UNCHANGED <<owner, command, importing, drafting, queueVars, job,
                   recovery, crashes>>

TrimRemovesOld(m) ==
    /\ Editing("trim", m, "replaced")
    /\ files' = [files EXCEPT ![m] = files[m] \ {edit.audio}]
    /\ EditGoesOn("removed")
    /\ UNCHANGED <<rows, owner, command, importing, drafting, queueVars, job,
                   recovery, refused, crashes>>

TrimEnqueues(m) ==
    /\ Editing("trim", m, "removed")
    /\ NoRetry
    /\ Enqueue(m, edit.audio + 1)
    /\ edit' = NoEdit
    /\ UNCHANGED <<rows, files, owner, command, importing, drafting, job,
                   recovery, refused, crashes>>

-----------------------------------------------------------------------------
(* delete_meeting: the row with all that hangs on it goes first, then the  *)
(* files it named.  The window offers it for every meeting.                *)
DeleteRow(m) ==
    /\ edit = NoEdit
    /\ Exists(m)
    /\ rows' = [rows EXCEPT ![m] = Gone(m)]
    /\ edit' = [op |-> "delete", meeting |-> m, at |-> "deleted",
                audio |-> rows[m].audio]
    /\ UNCHANGED <<files, owner, command, importing, drafting, queueVars, job,
                   recovery, refused, crashes>>

DeleteFiles(m) ==
    /\ Editing("delete", m, "deleted")
    /\ files' = [files EXCEPT ![m] = files[m] \ {edit.audio}]
    /\ edit' = NoEdit
    /\ UNCHANGED <<rows, owner, command, importing, drafting, queueVars, job,
                   recovery, refused, crashes>>

(* The draft is saved unless final minutes are there; a draft for a row    *)
(* that is gone violates its foreign key.  The model may also fail.        *)
DraftEnds(m) ==
    /\ m \in drafting
    /\ drafting' = drafting \ {m}
    /\ \/ UNCHANGED rows
       \/ Update(m, [rows[m] EXCEPT !.summaries = WithDraft(rows[m].summaries)])
    /\ UNCHANGED <<files, owner, command, edit, importing, queueVars, job,
                   recovery, refused, crashes>>

-----------------------------------------------------------------------------
(* A job: run_meeting_processing and process_meeting, with the steps of    *)
(* the queue around it.                                                    *)
JobMoves(m, from, to) == job[m] = from /\ job' = [job EXCEPT ![m] = to]
JobOnly == UNCHANGED <<files, owner, taskVars, recovery, crashes>>

JobStarts(m) ==
    /\ Queue!Start
    /\ m = Head(waiting)
    /\ JobMoves(m, "none", "preparing")
    /\ JobOnly
    /\ UNCHANGED <<rows, ticket, swallowed, refused>>

JobBegins(m) ==
    /\ JobMoves(m, "preparing", "transcribing")
    /\ SetStatus(m, "transcribing")
    /\ JobOnly
    /\ UNCHANGED queueVars

(* The audio has been read and understood.                                 *)
JobHears(m) ==
    /\ JobMoves(m, "transcribing", "heard")
    /\ ticket[m] \in files[m]
    /\ JobOnly
    /\ UNCHANGED <<rows, queueVars, refused>>

(* clear_meeting_transcript, then upsert_speaker and add_segments, which   *)
(* need the row.                                                           *)
JobClears(m) ==
    /\ JobMoves(m, "heard", "cleared")
    /\ Update(m, [rows[m] EXCEPT !.transcript = 0])
    /\ JobOnly
    /\ UNCHANGED <<queueVars, refused>>

JobWrites(m) ==
    /\ JobMoves(m, "cleared", "written")
    /\ Exists(m)
    /\ Update(m, [rows[m] EXCEPT !.transcript = ticket[m]])
    /\ JobOnly
    /\ UNCHANGED <<queueVars, refused>>

(* With a language model: final minutes, or none when it fails.            *)
JobSummarizes(m) ==
    /\ JobMoves(m, "written", "summarizing")
    /\ SetStatus(m, "summarizing")
    /\ JobOnly
    /\ UNCHANGED queueVars

JobSavesMinutes(m) ==
    /\ JobMoves(m, "summarizing", "summarized")
    /\ \/ UNCHANGED rows
       \/ Update(m, [rows[m] EXCEPT !.summaries = Finals])
    /\ JobOnly
    /\ UNCHANGED <<queueVars, refused>>

(* The meeting is ready; without a language model the marker and the local *)
(* recap follow.                                                           *)
JobReady(m) ==
    /\ \/ JobMoves(m, "summarized", "returned")
       \/ JobMoves(m, "written", "unmarked")
    /\ SetStatus(m, "ready")
    /\ JobOnly
    /\ UNCHANGED queueVars

JobMarks(m) ==
    /\ JobMoves(m, "unmarked", "returned")
    /\ Exists(m)
    /\ Update(m, [rows[m] EXCEPT !.summaries = Finals])
    /\ JobOnly
    /\ UNCHANGED <<queueVars, refused>>

\* Mutant: a job that failed leaves the row as it is.
JobFailsSilently(m) ==
    /\ job[m] \notin {"none", "failed", "returned"}
    /\ job' = [job EXCEPT ![m] = "returned"]
    /\ JobOnly
    /\ UNCHANGED <<rows, queueVars, refused>>

(* Any step may fail or panic, the saving of the marker included.  What    *)
(* fails within process_meeting is recorded there and once more by         *)
(* run_meeting_processing.                                                 *)
JobFails(m) ==
    /\ job[m] \notin {"none", "failed", "returned"}
    /\ \/ job' = [job EXCEPT ![m] = "returned"]
       \/ job[m] \notin {"preparing", "unmarked"} /\ job' = [job EXCEPT ![m] = "failed"]
    /\ Fail(m)
    /\ JobOnly
    /\ UNCHANGED queueVars

JobFailsAgain(m) ==
    /\ JobMoves(m, "failed", "returned")
    /\ Fail(m)
    /\ JobOnly
    /\ UNCHANGED queueVars

JobEnds(m) ==
    /\ JobMoves(m, "returned", "none")
    /\ Queue!End(m) \/ Queue!EndLate(m)
    /\ JobOnly
    /\ UNCHANGED <<rows, ticket, swallowed, refused>>

JobOverruns(m) ==
    /\ Queue!Overrun(m)
    /\ UNCHANGED <<rows, files, owner, taskVars, ticket, swallowed, job, recovery,
                   refused, crashes>>

-----------------------------------------------------------------------------
(* recover_interrupted_meetings: first the meetings a previous run was     *)
(* processing, then those it was recording.  A list holds what was read of *)
(* a meeting, its audio.                                                   *)
Listing(ms) == {[meeting |-> m, audio |-> rows[m].audio] : m \in ms}
RecoveryOnly == UNCHANGED <<files, owner, command, edit, importing, crashes>>

\* Mutant: only meetings whose job had not started are resumed.
RecoverListsProcessing ==
    /\ recovery.at = "launched"
    /\ recovery' = [at |-> "resuming", meeting |-> None,
                    todo |-> Listing({m \in Meeting : rows[m].status = "processing"})]
    /\ RecoveryOnly
    /\ UNCHANGED <<rows, drafting, queueVars, job, refused>>

RecoverLists ==
    /\ recovery.at = "launched"
    /\ recovery' = [at |-> "resuming", meeting |-> None,
                    todo |-> Listing({m \in Meeting : InFlight(m)})]
    /\ RecoveryOnly
    /\ UNCHANGED <<rows, drafting, queueVars, job, refused>>

(* resume_interrupted_processing, for one of them.                         *)
RecoverResumes ==
    /\ recovery.at = "resuming"
    /\ NoRetry
    /\ \E r \in recovery.todo :
         /\ recovery' = [recovery EXCEPT !.todo = recovery.todo \ {r}]
         /\ IF r.audio = 0
            THEN Fail(r.meeting) /\ UNCHANGED queueVars
            ELSE Enqueue(r.meeting, r.audio) /\ UNCHANGED <<rows, refused>>
    /\ RecoveryOnly
    /\ UNCHANGED <<drafting, job>>

RecoverListsRecordings ==
    /\ recovery.at = "resuming"
    /\ recovery.todo = {}
    /\ recovery' = [at |-> "recovering", meeting |-> None,
                    todo |-> Listing({m \in Meeting : rows[m].status = "recording"})]
    /\ RecoveryOnly
    /\ UNCHANGED <<rows, drafting, queueVars, job, refused>>

(* recover_one_meeting: the audio is found under the recorded path or the  *)
(* usual one, and can be salvaged or not; a refused set_meeting_audio ends *)
(* it like a refused fail_meeting.                                         *)
RecoverOne ==
    /\ recovery.at = "recovering"
    /\ recovery.meeting = None
    /\ \E r \in recovery.todo :
         LET m == r.meeting IN
         \/ /\ recovery' = [recovery EXCEPT !.todo = recovery.todo \ {r}]
            /\ Fail(m)
         \/ /\ 1 \in files[m]
            /\ recovery' = [recovery EXCEPT !.todo = recovery.todo \ {r},
                                            !.meeting = m]
            /\ SetAudio(m, 1)
    /\ RecoveryOnly
    /\ UNCHANGED <<drafting, queueVars, job>>

RecoverEnqueues ==
    /\ recovery.at = "recovering"
    /\ recovery.meeting # None
    /\ NoRetry
    /\ drafting' \in {drafting, drafting \cup {recovery.meeting}}
    /\ Enqueue(recovery.meeting, 1)
    /\ recovery' = [recovery EXCEPT !.meeting = None]
    /\ RecoveryOnly
    /\ UNCHANGED <<rows, job, refused>>

(* A crash or a quit, and the next launch.                                 *)
Crash ==
    /\ crashes < MaxCrashes
    /\ crashes' = crashes + 1
    /\ owner' = None
    /\ command' = NoCommand
    /\ edit' = NoEdit
    /\ importing' = {}
    /\ drafting' = {}
    /\ waiting' = << >> /\ holder' = None /\ overrun' = {}
    /\ ticket' = [m \in Meeting |-> 0]
    /\ swallowed' = {}
    /\ job' = [m \in Meeting |-> "none"]
    /\ recovery' = Launched
    /\ refused' = {}
    /\ UNCHANGED <<rows, files>>

-----------------------------------------------------------------------------
CommandStep(m) ==
    \/ StartCreates(m) \/ StartFails(m) \/ StartOpens(m) \/ StartRecords(m)
    \/ StopRecorder(m) \/ StopFails(m) \/ StopIsRefused(m) \/ StopStores(m)
    \/ StopEnqueues(m)
    \/ RetryReads(m) \/ RetryChecks(m) \/ RetryMarks(m) \/ RetryEnqueues(m)

EditStep(m) ==
    \/ TrimBegins(m) \/ TrimPrepares(m) \/ TrimReplaces(m) \/ TrimRemovesOld(m)
    \/ TrimEnqueues(m)
    \/ DeleteRow(m) \/ DeleteFiles(m)

JobStep(m) ==
    \/ JobStarts(m) \/ JobBegins(m) \/ JobHears(m) \/ JobClears(m)
    \/ JobWrites(m) \/ JobSummarizes(m) \/ JobSavesMinutes(m) \/ JobReady(m)
    \/ JobMarks(m)
    \/ JobFails(m) \/ JobFailsAgain(m) \/ JobEnds(m)

RecoveryStep ==
    \/ RecoverLists \/ RecoverResumes \/ RecoverListsRecordings
    \/ RecoverOne \/ RecoverEnqueues

Next ==
    \/ \E m \in Meeting :
         \/ CommandStep(m)
         \/ EditStep(m)
         \/ JobStep(m)
         \/ JobOverruns(m)
         \/ ImportCreates(m) \/ ImportEnqueues(m)
         \/ DraftEnds(m)
    \/ RecoveryStep
    \/ Crash

Spec == Init /\ [][Next]_vars

(* A command or task that has begun goes on, jobs run when the queue's     *)
(* worker lets them and end (what they wait for times out), and so does    *)
(* the recovery thread.  Strong fairness where pacing keeps a step from    *)
(* falling into a retry: retries take an instant and may come again.       *)
Underway(m) ==
    \/ StartFails(m) \/ StartOpens(m) \/ StartRecords(m)
    \/ StopFails(m) \/ StopIsRefused(m) \/ StopStores(m) \/ StopEnqueues(m)
    \/ RetryChecks(m) \/ RetryMarks(m) \/ RetryEnqueues(m)
TrimUnderway(m) == TrimRemovesOld(m) \/ TrimEnqueues(m)

Fairness ==
    /\ SF_vars(RecoveryStep)
    /\ \A m \in Meeting :
         /\ WF_vars(Underway(m))
         /\ SF_vars(TrimUnderway(m))
         /\ SF_vars(ImportEnqueues(m))
         /\ WF_vars(JobStep(m))

LiveSpec == Spec /\ Fairness

-----------------------------------------------------------------------------
(* Someone is about to enqueue m.                                          *)
AboutToEnqueue(m) ==
    \/ At("stop", m, "stored") \/ At("retry", m, "marked")
    \/ Editing("trim", m, "replaced") \/ Editing("trim", m, "removed")
    \/ m \in importing
    \/ recovery.at = "launched"
    \/ recovery.at = "resuming" /\ \E r \in recovery.todo : r.meeting = m
    \/ recovery.at = "recovering" /\ recovery.meeting = m

(* A job of m waits, or runs and has its status still to write.            *)
Served(m) == Queued(m) \/ job[m] \notin JobTail \cup {"none"}

(* A meeting shown as being processed really is: a job will still write    *)
(* its status, or is about to be enqueued (spawn_meeting_processing drops  *)
(* what is pending already, so a job that is over but not finished must    *)
(* not swallow the next one).                                              *)
(* The exception: the store refused the status its job ended with, and     *)
(* until the next launch nothing tries again.                              *)
InFlightIsServed ==
    \A m \in Meeting :
        InFlight(m) /\ m \notin refused => Served(m) \/ AboutToEnqueue(m)

(* At any pace, only one more accident leaves a meeting so: its request    *)
(* fell into the tail of its last job and was dropped.                     *)
ServedUnlessSwallowed ==
    \A m \in Meeting :
        InFlight(m) /\ m \notin refused \cup swallowed
        => Served(m) \/ AboutToEnqueue(m)

(* "A reader can never observe new audio with an old transcript"           *)
(* (replace_meeting_audio_after_trim), and a meeting that is ready has the *)
(* transcript of its audio, whatever jobs, trims and retries overlapped.   *)
TranscriptIsOfAudio ==
    \A m \in Meeting :
        /\ rows[m].transcript \in {0, rows[m].audio}
        /\ rows[m].status = "ready" => rows[m].transcript # 0

(* Draft minutes never stand beside final ones, whichever is saved last    *)
(* (save_summary, save_minutes_draft_if_no_final).                         *)
DraftYieldsToFinal == \A m \in Meeting : ~({"draft", "final"} \subseteq rows[m].summaries)

(* The audio a row names is on the disk, also after a crash between the    *)
(* steps of a trim (the old files go after the row has the new ones).      *)
AudioIsThere ==
    \A m \in Meeting :
        Exists(m) /\ rows[m].audio # 0 => rows[m].audio \in files[m]

(* Once a deletion is over nothing of the meeting's audio is left, if the  *)
(* process did not crash on the way: a trim that comes to nothing takes    *)
(* its new files away, one that succeeds the old ones.                     *)
(* A meeting deleted before its recording was under way is left out: its   *)
(* row does not name the file yet.                                         *)
DeletedLeavesNoAudio ==
    \A m \in Meeting :
        /\ rows[m].status = "deleted"
        /\ edit.meeting # m
        /\ crashes = 0
        /\ rows[m].audio # 0
        => files[m] = {}

(* The files and the row agree: no row names audio that is gone, and no    *)
(* audio outlives the row that named it.                                   *)
AudioFollowsRow == AudioIsThere /\ DeletedLeavesNoAudio

(* While a meeting records, no job for it waits or runs.                   *)
NoJobWhileRecording ==
    \A m \in Meeting : owner = m /\ ~At("stop", m, "stored") => ~IsPending(m)

(* A row says "recording" only while its recording is being made, is to be *)
(* recovered, or could not be updated when it ended (the store refused):   *)
(* no failing start, stop or crash leaves a meeting in that state.         *)
RecordingIsOwned ==
    \A m \in Meeting : rows[m].status = "recording" =>
        \/ owner = m
        \/ command.meeting = m
        \/ m \in refused
        \/ recovery.at \in {"launched", "resuming"}
        \/ \E r \in recovery.todo : r.meeting = m

(* What the row of a meeting says about its recording is so, and its       *)
(* recording and its processing never overlap.                             *)
RecordingIsExclusive == NoJobWhileRecording /\ RecordingIsOwned

(* A meeting that is being processed becomes ready, fails, is deleted or   *)
(* is cut off by a crash, unless the store refuses what its job ends with. *)
ProcessingEnds ==
    \A m \in Meeting :
        InFlight(m) ~> (~InFlight(m) \/ m \in refused \/ recovery.at = "launched")
=============================================================================
