------------------------------ MODULE Dictation ------------------------------
(***************************************************************************)
(* The dictation lifecycle of dictation.rs: the tasks that start and stop  *)
(* a dictation (dictation_start_with_intent, dictation_stop), the global   *)
(* Esc (cancel_active_dictation), the microphone and what follows it (the  *)
(* output ducking guard, the capture arbiter), the cancellation point of   *)
(* the processing stage (ProcessingCancel) and the realtime ASR run.       *)
(*                                                                         *)
(* Session n is the n-th successful IDLE -> RECORDING transition.  Its     *)
(* start task and its stop task run on a multi-threaded runtime: a step is *)
(* what a task does between two points where another task may be seen, and *)
(* UI_TRANSITION and the dictation_ducking lock make the sections they     *)
(* guard one step, except that a start holds the ducking lock across the   *)
(* readiness gate and the opening of the device.  A task that holds        *)
(* UI_TRANSITION while it waits for the ducking lock takes effect when it  *)
(* gets it.                                                                *)
(***************************************************************************)
EXTENDS Naturals

CONSTANTS MaxSessions,   \* bound: sessions begun in a behaviour
          Paced          \* do keys and long waits leave the tasks' short
                         \* steps alone?  (see Calm)

ASSUME MaxSessionsAssumption == MaxSessions \in Nat
ASSUME PacedAssumption == Paced \in BOOLEAN

Session == 1..MaxSessions

\* A capture, a realtime run or an edit target is named by the session whose
\* start task created it; Nobody stands for Option::None.
Nobody == 0
Owner == Session \cup {Nobody}

VARIABLES
    phase,       \* PHASE
    count,       \* sessions begun so far
    startPC,     \* per session, where its start task is
    stopPC,      \* per session, where its stop task is
    lock,        \* the start task inside the dictation_ducking section
    mic,         \* state.audio: the capture that is recording
    ducked,      \* dictation_ducking holds an AudioDuckingGuard
    mode,        \* state.capture: CaptureMode
    realtime,    \* state.realtime: the live run, by the capture it listens to
    editTarget,  \* edit_learning.pending
    armed,       \* PROCESSING_CANCEL.session
    permits,     \* sessions whose Notify holds a permit
    source,      \* per session, the capture its samples, then its text, are from
    output,      \* <<session, capture>> pasted or copied so far
    grab,        \* the global Esc is grabbed
    syncs,       \* a sync_esc_cancel closure waits for the main thread
    esc,         \* an Esc handler task waits to run
    abandoned,   \* history: sessions whose processing an Esc or a start that
                 \* failed meanwhile ended
    discarded,   \* history: captures an Esc discarded while they recorded
    kept         \* history: live runs a start with realtime off left in place

taskVars    == <<phase, count, startPC, stopPC>>
captureVars == <<lock, mic, ducked, mode>>
liveVars    == <<realtime, editTarget>>
pipeVars    == <<source, output>>
historyVars == <<abandoned, discarded, kept>>
cancelVars  == <<armed, permits, historyVars>>
escVars     == <<grab, syncs, esc>>
vars == <<taskVars, captureVars, liveVars, pipeVars, cancelVars, escVars>>

StartPC == {"new", "begun", "waiting", "gate", "opening", "reserving",
            "checking", "failed", "done"}
StopPC == {"new", "begun", "arming", "select", "broken", "asr", "correct",
           "insert", "ended", "dropped", "finishing", "done"}
CaptureMode == {"Idle", "Dictation", "MeetingRecording"}
Unarmed == [owner |-> Nobody, cancelled |-> FALSE, committed |-> FALSE]

TypeOK ==
    /\ phase \in {"idle", "recording", "processing"}
    /\ count \in 0..MaxSessions
    /\ startPC \in [Session -> StartPC]
    /\ stopPC \in [Session -> StopPC]
    /\ lock \in Owner
    /\ mic \in Owner
    /\ ducked \in BOOLEAN
    /\ mode \in CaptureMode
    /\ realtime \in Owner
    /\ editTarget \in Owner
    /\ armed \in [owner : Owner, cancelled : BOOLEAN, committed : BOOLEAN]
    /\ permits \subseteq Session
    /\ source \in [Session -> Owner]
    /\ output \subseteq Session \X Session
    /\ grab \in BOOLEAN
    /\ syncs \in BOOLEAN
    /\ esc \in BOOLEAN
    /\ abandoned \subseteq Session
    /\ discarded \subseteq Session
    /\ kept \subseteq Session

Init ==
    /\ phase = "idle"
    /\ count = 0
    /\ startPC = [n \in Session |-> "new"]
    /\ stopPC = [n \in Session |-> "new"]
    /\ lock = Nobody
    /\ mic = Nobody
    /\ ducked = FALSE
    /\ mode = "Idle"
    /\ realtime = Nobody
    /\ editTarget = Nobody
    /\ armed = Unarmed
    /\ permits = {}
    /\ source = [n \in Session |-> Nobody]
    /\ output = {}
    /\ grab = FALSE
    /\ syncs = FALSE
    /\ esc = FALSE
    /\ abandoned = {}
    /\ discarded = {}
    /\ kept = {}

-----------------------------------------------------------------------------
(* Helpers *)

StartAt(n, from, to) ==
    startPC[n] = from /\ startPC' = [startPC EXCEPT ![n] = to]
StopAt(n, from, to) ==
    stopPC[n] = from /\ stopPC' = [stopPC EXCEPT ![n] = to]

\* CaptureArbiter::begin_dictation; its error is only logged.
BeginDictation == mode' = IF mode = "Idle" THEN "Dictation" ELSE mode

\* Mutant: a dictation's end frees the arbiter whoever holds it.
EndDictationClobbers == mode' = "Idle"

\* CaptureArbiter::end_dictation never clobbers a meeting.
EndDictation == mode' = IF mode = "Dictation" THEN "Idle" ELSE mode

\* Mutant: the guard stays in its slot.
ReleaseMicKeepsDucking ==
    /\ lock = Nobody
    /\ mic' = Nobody
    /\ EndDictation
    /\ UNCHANGED <<lock, ducked>>

\* Audio stopped, ducking guard dropped, arbiter released, under the lock.
ReleaseMic ==
    /\ lock = Nobody
    /\ mic' = Nobody
    /\ ducked' = FALSE
    /\ EndDictation
    /\ UNCHANGED lock

\* cancel_recording_inner; the live run is left as it is.
CancelRecording ==
    /\ ReleaseMic
    /\ editTarget' = Nobody
    /\ discarded' = discarded \cup ({mic} \ {Nobody})
    /\ UNCHANGED <<realtime, abandoned, kept>>

\* abort_realtime.
AbortRealtime == realtime' = Nobody

-----------------------------------------------------------------------------
(* dictation_start_with_intent and start_recording_inner *)

\* Mutant: only a recording refuses a new start.
StartBeginsWhileProcessing(n) ==
    /\ n = count + 1
    /\ phase # "recording"
    /\ phase' = "recording"
    /\ count' = n
    /\ StartAt(n, "new", "begun")
    /\ UNCHANGED <<stopPC, captureVars, liveVars, pipeVars, cancelVars, escVars>>

\* IDLE -> RECORDING under UI_TRANSITION.  A press in another phase is ignored.
StartBegins(n) ==
    /\ n = count + 1
    /\ phase = "idle"
    /\ phase' = "recording"
    /\ count' = n
    /\ StartAt(n, "new", "begun")
    /\ UNCHANGED <<stopPC, captureVars, liveVars, pipeVars, cancelVars, escVars>>

\* "Already capturing - stay in RECORDING": the task returns without a check.
StartSkips(n) ==
    /\ StartAt(n, "begun", "done")
    /\ mic # Nobody
    /\ UNCHANGED <<phase, count, stopPC, captureVars, liveVars, pipeVars,
                   cancelVars, escVars>>

StartWaits(n) ==
    /\ StartAt(n, "begun", "waiting")
    /\ mic = Nobody
    /\ UNCHANGED <<phase, count, stopPC, captureVars, liveVars, pipeVars,
                   cancelVars, escVars>>

\* start_recording_inner takes the ducking lock and looks again.
StartLocks(n) ==
    /\ lock = Nobody
    /\ IF mic = Nobody
         THEN StartAt(n, "waiting", "gate") /\ lock' = n
         ELSE StartAt(n, "waiting", "checking") /\ UNCHANGED lock
    /\ UNCHANGED <<phase, count, stopPC, mic, ducked, mode, liveVars, pipeVars,
                   cancelVars, escVars>>

\* ensure_active_asr_ready refuses.
StartNotReady(n) ==
    /\ StartAt(n, "gate", "failed")
    /\ lock' = Nobody
    /\ UNCHANGED <<phase, count, stopPC, mic, ducked, mode, liveVars, pipeVars,
                   cancelVars, escVars>>

\* Mutant: a new run does not take the place of one that was left.
StartPreparesBesideOldRun(n) ==
    /\ StartAt(n, "gate", "opening")
    /\ realtime' = IF realtime = Nobody THEN n ELSE realtime
    /\ UNCHANGED <<phase, count, stopPC, captureVars, editTarget,
                   pipeVars, cancelVars, escVars>>

\* The gate passes; maybe_start_realtime stores a new run, whose predecessor is
\* dropped, or, when realtime is off or has no key at this moment, only drops
\* the live tap.
StartPrepares(n) ==
    /\ StartAt(n, "gate", "opening")
    /\ \/ realtime' = n /\ UNCHANGED kept
       \/ kept' = kept \cup ({realtime} \ {Nobody}) /\ UNCHANGED realtime
    /\ UNCHANGED <<phase, count, stopPC, captureVars, editTarget, pipeVars,
                   armed, permits, abandoned, discarded, escVars>>

\* audio.start succeeds: the ducking guard (with duck_output on) is stored and
\* the arbiter told.
StartOpens(n) ==
    /\ StartAt(n, "opening", "reserving")
    /\ mic' = n
    /\ ducked' = TRUE
    /\ BeginDictation
    /\ lock' = Nobody
    /\ UNCHANGED <<phase, count, stopPC, liveVars, pipeVars, cancelVars, escVars>>

\* audio.start fails: the guard is dropped, the realtime run is not.
StartCannotOpen(n) ==
    /\ StartAt(n, "opening", "failed")
    /\ lock' = Nobody
    /\ UNCHANGED <<phase, count, stopPC, mic, ducked, mode, liveVars, pipeVars,
                   cancelVars, escVars>>

\* The edit target is reserved, or cleared when observation is off, after the
\* lock was released.
StartReserves(n) ==
    /\ StartAt(n, "reserving", "checking")
    /\ editTarget' \in {n, Nobody}
    /\ UNCHANGED <<phase, count, stopPC, captureVars, realtime,
                   pipeVars, cancelVars, escVars>>

\* The final check, under UI_TRANSITION: still recording, publish.
StartPublishes(n) ==
    /\ StartAt(n, "checking", "done")
    /\ phase = "recording" /\ mic # Nobody
    /\ syncs' = TRUE
    /\ UNCHANGED <<phase, count, stopPC, captureVars, liveVars, pipeVars,
                   cancelVars, grab, esc>>

\* Mutant: the start returns and leaves the capture running.
StartDiscardsNothing(n) ==
    /\ StartAt(n, "checking", "done")
    /\ phase = "idle" /\ mic # Nobody
    /\ UNCHANGED <<phase, count, stopPC, captureVars, liveVars, pipeVars,
                   cancelVars, escVars>>

\* The final check: an Esc left this capture to nobody, discard it.
StartDiscards(n) ==
    /\ StartAt(n, "checking", "done")
    /\ phase = "idle" /\ mic # Nobody
    /\ CancelRecording
    /\ UNCHANGED <<phase, count, stopPC, pipeVars, armed, permits, escVars>>

\* The final check: a stop task owns the phase, or the capture is gone.
StartYields(n) ==
    /\ StartAt(n, "checking", "done")
    /\ phase = "processing" \/ mic = Nobody
    /\ UNCHANGED <<phase, count, stopPC, captureVars, liveVars, pipeVars,
                   cancelVars, escVars>>

\* finish_with_transient_error resets the phase, whoever set it.
StartReportsError(n) ==
    /\ StartAt(n, "failed", "done")
    /\ phase' = "idle"
    /\ abandoned' = IF phase = "processing" THEN abandoned \cup {count} ELSE abandoned
    /\ syncs' = TRUE
    /\ UNCHANGED <<count, stopPC, captureVars, liveVars, pipeVars, armed, permits,
                   discarded, kept, grab, esc>>

\* The keychain, the audio device and the accessibility API may keep a start
\* task waiting; its other steps take no time.
StartWaitEnds(n) ==
    \/ StartNotReady(n) \/ StartPrepares(n) \/ StartOpens(n)
    \/ StartCannotOpen(n) \/ StartReserves(n)

StartStep(n) ==
    \/ StartSkips(n) \/ StartWaits(n) \/ StartLocks(n) \/ StartPublishes(n)
    \/ StartDiscards(n) \/ StartYields(n) \/ StartReportsError(n)

-----------------------------------------------------------------------------
(* dictation_stop and stop_and_transcribe_inner *)

\* RECORDING -> PROCESSING under UI_TRANSITION, by a release, a toggle or the
\* VAD.  A stop in another phase is ignored.
StopBegins(n) ==
    /\ n = count
    /\ phase = "recording"
    /\ phase' = "processing"
    /\ StopAt(n, "new", "begun")
    /\ UNCHANGED <<count, startPC, captureVars, liveVars, pipeVars, cancelVars,
                   escVars>>

\* Mutant: the bounce path returns without resetting the phase.
StopSeesNoCaptureAndReturns(n) ==
    /\ StopAt(n, "begun", "done")
    /\ mic = Nobody
    /\ UNCHANGED <<phase, count, startPC, captureVars, liveVars, pipeVars,
                   cancelVars, escVars>>

\* Not recording: reset to idle, as a bounce or with a warning.  The look at
\* the microphone and the store to PHASE are two steps.
StopSeesNoCapture(n) ==
    /\ StopAt(n, "begun", "finishing")
    /\ mic = Nobody
    /\ UNCHANGED <<phase, count, startPC, captureVars, liveVars, pipeVars,
                   cancelVars, escVars>>

StopSeesCapture(n) ==
    /\ StopAt(n, "begun", "arming")
    /\ mic # Nobody
    /\ syncs' = TRUE
    /\ UNCHANGED <<phase, count, startPC, captureVars, liveVars, pipeVars,
                   cancelVars, grab, esc>>

\* Mutant: the processing session is not armed.
StopForgetsToArm(n) ==
    /\ StopAt(n, "arming", "select")
    /\ UNCHANGED <<phase, count, startPC, captureVars, liveVars, pipeVars,
                   cancelVars, escVars>>

\* ProcessingCancel::arm, then select!.
StopArms(n) ==
    /\ StopAt(n, "arming", "select")
    /\ armed' = [owner |-> n, cancelled |-> FALSE, committed |-> FALSE]
    /\ UNCHANGED <<phase, count, startPC, captureVars, liveVars, pipeVars,
                   permits, historyVars, escVars>>

\* The pipeline's first poll takes the capture under the ducking lock.
TakesCapture(n) ==
    /\ StopAt(n, "select", "asr")
    /\ mic # Nobody
    /\ source' = [source EXCEPT ![n] = mic]
    /\ ReleaseMic
    /\ UNCHANGED <<phase, count, startPC, liveVars, output, cancelVars, escVars>>

\* Every failing exit of the pipeline clears the edit target.
Fails(n, from) ==
    /\ StopAt(n, from, "ended")
    /\ editTarget' = Nobody

\* audio.stop fails, because the capture is gone or in itself; either way the
\* guard and the arbiter are released.
CaptureFails(n) ==
    /\ StopAt(n, "select", "broken")
    /\ ReleaseMic
    /\ UNCHANGED <<phase, count, startPC, liveVars, pipeVars, cancelVars, escVars>>

\* The failure is only looked at once the context was attached.
CaptureGivenUp(n) ==
    /\ Fails(n, "broken")
    /\ AbortRealtime
    /\ UNCHANGED <<phase, count, startPC, captureVars, pipeVars, cancelVars,
                   escVars>>

\* Empty, silent or invalid audio.
CaptureRejected(n) ==
    /\ Fails(n, "asr")
    /\ AbortRealtime
    /\ UNCHANGED <<phase, count, startPC, captureVars, pipeVars,
                   cancelVars, escVars>>

\* finish_realtime takes the live run if there is one and uses its transcript;
\* without one, or when it fails, the batch engine gets the samples.
Recognizes(n) ==
    /\ StopAt(n, "asr", "correct")
    /\ \E from \in {source[n]} \cup ({realtime} \ {Nobody}) :
          source' = [source EXCEPT ![n] = from]
    /\ realtime' = Nobody
    /\ UNCHANGED <<phase, count, startPC, captureVars, editTarget, output,
                   cancelVars, escVars>>

AsrFails(n) ==
    /\ Fails(n, "asr")
    /\ realtime' = Nobody
    /\ UNCHANGED <<phase, count, startPC, captureVars, pipeVars,
                   cancelVars, escVars>>

CorrectionFails(n) ==
    /\ Fails(n, "correct")
    /\ UNCHANGED <<phase, count, startPC, captureVars, realtime,
                   pipeVars, cancelVars, escVars>>

\* ProcessingCancel::commit_output looks at whatever session is armed.
Commits(n) ==
    /\ StopAt(n, "correct", "insert")
    /\ ~armed.cancelled
    /\ armed' = IF armed = Unarmed THEN armed
                                   ELSE [armed EXCEPT !.committed = TRUE]
    /\ UNCHANGED <<phase, count, startPC, captureVars, liveVars, pipeVars,
                   permits, historyVars, escVars>>

CommitRefused(n) ==
    /\ Fails(n, "correct")
    /\ armed.cancelled
    /\ AbortRealtime
    /\ UNCHANGED <<phase, count, startPC, captureVars, pipeVars,
                   cancelVars, escVars>>

\* The text is pasted or copied (or there is none to insert); the attempt is
\* then saved, which may still fail.
Outputs(n) ==
    /\ StopAt(n, "insert", "ended")
    /\ \/ output' = output \cup {<<n, source[n]>>}
       \/ UNCHANGED output
    /\ editTarget' = Nobody
    /\ UNCHANGED <<phase, count, startPC, captureVars, realtime, source,
                   cancelVars, escVars>>

\* select! sees the permit: the pipeline is dropped at an await, or before it
\* was ever polled.
Drops(n) ==
    /\ n \in permits
    /\ \E from \in {"select", "broken", "asr", "correct", "insert"} :
          StopAt(n, from, "dropped")
    /\ permits' = permits \ {n}
    /\ UNCHANGED <<phase, count, startPC, captureVars, liveVars, pipeVars, armed,
                   historyVars, escVars>>

\* Mutant: a failed pipeline returns like a cancelled one.
DisarmsAndReturns(n) ==
    /\ StopAt(n, "dropped", "done") \/ StopAt(n, "ended", "done")
    /\ armed' = Unarmed
    /\ UNCHANGED <<phase, count, startPC, captureVars, liveVars, pipeVars,
                   permits, historyVars, escVars>>

\* ProcessingCancel::disarm, then nothing more if the session was cancelled.
Disarms(n) ==
    /\ \/ StopAt(n, "dropped", "done")
       \/ armed.cancelled /\ StopAt(n, "ended", "done")
       \/ ~armed.cancelled /\ StopAt(n, "ended", "finishing")
    /\ armed' = Unarmed
    /\ UNCHANGED <<phase, count, startPC, captureVars, liveVars, pipeVars,
                   permits, historyVars, escVars>>

\* set_phase_idle, directly or through finish_with_transient_*.
StopFinishes(n) ==
    /\ StopAt(n, "finishing", "done")
    /\ phase' = "idle"
    /\ syncs' = TRUE
    /\ UNCHANGED <<count, startPC, captureVars, liveVars, pipeVars, cancelVars,
                   grab, esc>>

\* The context, recognition, correction and insertion are awaited.
StopWaitEnds(n) ==
    \/ CaptureGivenUp(n) \/ CaptureRejected(n) \/ Recognizes(n) \/ AsrFails(n)
    \/ CorrectionFails(n) \/ Commits(n) \/ CommitRefused(n) \/ Outputs(n)

StopStep(n) ==
    \/ StopSeesNoCapture(n) \/ StopSeesCapture(n) \/ StopArms(n)
    \/ TakesCapture(n) \/ CaptureFails(n) \/ Drops(n) \/ Disarms(n)
    \/ StopFinishes(n)

-----------------------------------------------------------------------------
(* The global Esc *)

\* sync_esc_cancel on the main thread: the phase is read there.
SyncEsc ==
    /\ syncs
    /\ grab' = (phase # "idle")
    /\ syncs' = FALSE
    /\ UNCHANGED <<taskVars, captureVars, liveVars, pipeVars, cancelVars, esc>>

\* The grabbed key spawns a task that runs cancel_active_dictation.
EscPressed ==
    /\ grab
    /\ ~esc
    /\ esc' = TRUE
    /\ UNCHANGED <<taskVars, captureVars, liveVars, pipeVars, cancelVars, grab,
                   syncs>>

EscDiscardsRecording ==
    /\ esc
    /\ phase = "recording"
    /\ CancelRecording
    /\ phase' = "idle"
    /\ esc' = FALSE
    /\ syncs' = TRUE
    /\ UNCHANGED <<count, startPC, stopPC, pipeVars, armed, permits, grab>>

\* ProcessingCancel::request_cancel would accept.
Cancellable == armed # Unarmed /\ ~armed.committed

\* Mutant: the UI is reset and the pipeline is not told.
EscResetsUiOnly ==
    /\ esc
    /\ phase = "processing"
    /\ Cancellable
    /\ abandoned' = abandoned \cup {count}
    /\ editTarget' = Nobody
    /\ phase' = "idle"
    /\ esc' = FALSE
    /\ syncs' = TRUE
    /\ UNCHANGED <<count, startPC, stopPC, captureVars, realtime, pipeVars, armed,
                   permits, discarded, kept, grab>>

EscAbandonsProcessing ==
    /\ esc
    /\ phase = "processing"
    /\ Cancellable
    /\ armed' = [armed EXCEPT !.cancelled = TRUE]
    /\ permits' = permits \cup {armed.owner}
    /\ abandoned' = abandoned \cup {count}
    /\ editTarget' = Nobody
    /\ phase' = "idle"
    /\ esc' = FALSE
    /\ syncs' = TRUE
    /\ UNCHANGED <<count, startPC, stopPC, captureVars, realtime, pipeVars,
                   discarded, kept, grab>>

EscIgnored ==
    /\ esc
    /\ phase = "idle" \/ (phase = "processing" /\ ~Cancellable)
    /\ esc' = FALSE
    /\ UNCHANGED <<taskVars, captureVars, liveVars, pipeVars, cancelVars, grab,
                   syncs>>

EscStep == EscDiscardsRecording \/ EscAbandonsProcessing \/ EscIgnored

-----------------------------------------------------------------------------
\* Every task is finished, waits for the world, or waits for the ducking lock
\* of a start that does.
Calm ==
    /\ \A n \in Session :
          /\ \/ startPC[n] \in {"new", "gate", "opening", "reserving", "done"}
             \/ startPC[n] = "waiting" /\ lock # Nobody
          /\ stopPC[n] \in {"new", "broken", "asr", "correct", "insert", "done"}
    /\ permits = {}
    /\ ~syncs
    /\ esc => phase = "recording" /\ lock # Nobody

\* When Paced, a key or the end of a wait never falls between two short steps
\* of the tasks, as if those ran at once; otherwise every interleaving of the
\* runtime's threads is possible.
WhenCalm == Paced => Calm

Next ==
    \/ \E n \in Session : StartStep(n) \/ StopStep(n)
    \/ SyncEsc
    \/ EscStep
    \/ /\ WhenCalm
       /\ \/ \E n \in Session : StartBegins(n) \/ StopBegins(n)
          \/ \E n \in Session : StartWaitEnds(n) \/ StopWaitEnds(n)
          \/ EscPressed

\* Tasks that were started are run by the runtime, and every await ends, by a
\* timeout if by nothing else, however often keys are pressed meanwhile (strong
\* fairness: when Paced, a key in progress disables the end of a wait).  That
\* some task goes on is enough: sessions are few and each has finitely many
\* steps.  No key is ever pressed by obligation.
Fairness ==
    /\ WF_vars(\E n \in Session : StartStep(n) \/ StopStep(n))
    /\ SF_vars(WhenCalm /\ \E n \in Session : StartWaitEnds(n) \/ StopWaitEnds(n))
    /\ WF_vars(SyncEsc)
    /\ WF_vars(EscStep)

Spec == Init /\ [][Next]_vars

FairSpec == Spec /\ Fairness

-----------------------------------------------------------------------------
(* Properties that hold in every interleaving *)

\* The speaker output stays lowered only while a capture records: no exit of a
\* start, stop or cancel leaves the sound of other applications ducked.
DuckingFollowsMic == ducked => mic # Nobody

\* The arbiter reports a dictation exactly while one records, whichever of the
\* concurrent tasks opens or ends the capture.
ArbiterFollowsMic == mode = "Dictation" <=> mic # Nobody

\* Whatever ends a capture, by whichever path, gives back both things the start
\* took for it, and nothing gives them back while it records.
CaptureOwnership == DuckingFollowsMic /\ ArbiterFollowsMic

\* PROCESSING always has a live stop task that will leave it: no exit of
\* dictation_stop, and no late task of an earlier session, strands the phase.
ProcessingIsOwned ==
    phase = "processing" => count > 0 /\ stopPC[count] \notin {"new", "done"}

\* The processing stage never lasts forever, whatever Esc and later presses do.
ProcessingEnds == (phase = "processing") ~> (phase # "processing")

-----------------------------------------------------------------------------
(* Properties of a paced session; some fail when steps interleave freely *)

\* No task is under way: only the user can act.
Quiet ==
    /\ \A n \in Session : startPC[n] \in {"new", "done"} /\ stopPC[n] \in {"new", "done"}
    /\ ~syncs /\ ~esc

\* With no dictation under way nothing records: a release or an Esc that lands
\* while the device still opens leaves no open microphone behind.
IdleMicIsClosed == Quiet /\ phase = "idle" => mic = Nobody

\* "Listening" is never shown over a dead microphone.
RecordingIsLive == Quiet /\ phase = "recording" => mic # Nobody

\* The global Esc is grabbed exactly while a dictation is active.
EscGrabFollowsPhase == Quiet => (grab <=> phase # "idle")

\* Whenever only the user can act, what the capsule shows, what the microphone
\* does and whether Esc is grabbed agree, however the tasks raced before.
QuietIsConsistent == IdleMicIsClosed /\ RecordingIsLive /\ EscGrabFollowsPhase

\* A stop task that is about to reset the phase resets its own session's, never
\* that of a dictation begun after an Esc.
FinisherOwnsPhase ==
    \A n \in Session : stopPC[n] = "finishing" => n = count /\ phase = "processing"

\* At most one pipeline runs that Esc did not cancel.
OnePipeline ==
    LET running == {n \in Session \ permits :
                       stopPC[n] \in {"select", "broken", "asr", "correct",
                                     "insert"}}
    IN  \A m, n \in running : m = n

\* The pipelines of successive sessions share one cancel slot and one phase: one
\* of them is alive at a time, and only its task resets the phase.
OneLivePipeline == FinisherOwnsPhase /\ OnePipeline

\* No capture is turned into text twice.
OneOutputPerCapture == \A x, y \in output : x[2] = y[2] => x = y

\* Speech that Esc discarded while it was recorded is never pasted or copied,
\* except from a live run that a later start, with realtime off, left in place.
DiscardedNeverOutput == \A x \in output : x[2] \in discarded => x[2] \in kept

\* A processing stage that Esc cancelled pastes or copies nothing, and neither
\* does a later one with its speech, except from such a live run.
AbandonedNeverOutput ==
    \A x \in output : /\ x[1] \notin abandoned
                      /\ x[2] \in abandoned => x[2] \in kept

\* What is pasted or copied was wanted: once per capture, and never after Esc
\* but for the live runs that maybe_start_realtime leaves to the next stop.
OutputIsWanted ==
    /\ OneOutputPerCapture
    /\ DiscardedNeverOutput
    /\ AbandonedNeverOutput

\* Speech that Esc discarded, in whichever phase, is never pasted or copied:
\* abort_realtime is said to be used on every non-finishing exit, so that no
\* stale handle is left for a later stop.
EscSpeechIsNeverOutput == \A x \in output : x[2] \notin discarded \cup abandoned

\* Esc during processing is ignored only once the output is committed.
EscIgnoredOnlyAfterCommit ==
    [][esc /\ ~esc' /\ phase = "processing" /\ phase' = "processing"
          => stopPC[count] \notin {"begun", "arming", "select", "broken", "asr",
                                   "correct"}]_vars
==============================================================================
