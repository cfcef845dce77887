----------------------------- MODULE MeetingWatch -----------------------------
(***************************************************************************)
(* The watchdogs of a meeting recording (meeting_cmd.rs) and the window's  *)
(* side of them (App.tsx).  One thread watches how long all tracks have    *)
(* been silent, one how old the recording is.  Each first asks for a       *)
(* countdown on the screen and, when nothing intervenes, asks the window   *)
(* to stop; the window owns the stop command, which runs on the main       *)
(* thread and joins both threads before it touches the recorder.           *)
(*                                                                         *)
(* Time is counted in polls.  Sound is measured in captured samples, which *)
(* stop while the recording is paused; the age is wall-clock time.         *)
(***************************************************************************)
EXTENDS Naturals

CONSTANTS
    Track,        \* the tracks of a recording
    None,
    Threshold,    \* kind -> silence_auto_stop_minutes, max_duration_minutes
    Countdown,    \* kind -> *_COUNTDOWN_SECONDS
    MaxMeetings,  \* bound: recordings in a behaviour
    MaxKeeps,     \* bound: accepted "keep recording" per kind and recording
    MaxTime       \* bound: polls of one recording

Kind == {"silence", "duration"}

ASSUME WatchAssumption ==
    /\ Threshold \in [Kind -> Nat \ {0}]
    /\ Countdown \in [Kind -> Nat \ {0}]
    /\ {MaxMeetings, MaxKeeps, MaxTime} \subseteq Nat
    /\ None \notin Nat

Meeting == 1 .. MaxMeetings

VARIABLES
    count,      \* recordings started so far; the last one is number count
    owner,      \* MeetingRecordingOwner::active_id
    main,       \* where the main thread's stop command is
    paused,
    elapsed,    \* age of the recording
    quiet,      \* track -> captured time since its last sound
    watching,   \* watchdog threads that run
    due,        \* threads that have not polled since the clock moved
    watch,      \* kind -> the state machine inside the thread
    action,     \* kind -> what the thread has decided and not emitted
    keeps,      \* kind -> continue_generation
    window,     \* kind -> meeting whose countdown is shown
    asked,      \* stoppedMeetingsRef
    calls,      \* commands the window has issued and that have not run
    keptAt      \* history: kind -> age at the last accepted Keep

clockVars == <<elapsed, quiet, due>>
threadVars == <<watching, watch, action>>
windowVars == <<window, asked, calls>>
mainVars == <<count, owner, main, paused, keeps, keptAt>>
vars == <<mainVars, clockVars, threadVars, windowVars>>

\* SilenceWatchdogState::new, MaxDurationWatchdogState::new
NewWatch == [baseline |-> 0, last |-> None, warned |-> None, generation |-> 0]

ForEach(value) == [k \in Kind |-> value]

Init ==
    /\ count = 0 /\ owner = None /\ main = "free" /\ paused = FALSE
    /\ elapsed = 0 /\ quiet = [t \in Track |-> None] /\ due = {}
    /\ watching = {} /\ watch = ForEach(NewWatch) /\ action = ForEach("none")
    /\ keeps = ForEach(0) /\ keptAt = ForEach(None)
    /\ window = ForEach(None) /\ asked = {} /\ calls = {}

StopCall(m) == [command |-> "stop", kind |-> "any", meeting |-> m]
KeepCall(k, m) == [command |-> "keep", kind |-> k, meeting |-> m]
Call == {StopCall(m) : m \in Meeting}
        \cup {KeepCall(k, m) : k \in Kind, m \in Meeting}

-----------------------------------------------------------------------------
(* The two state machines *)

\* Mutant: the age is measured in captured time.
MeasuredInSamples(k) ==
    LET known == {quiet[t] : t \in Track} \ {None}
    IN  IF known = {} THEN None
        ELSE CHOOSE least \in known : \A other \in known : least <= other

\* active_meeting_silence_seconds: sound on any track counts, a track that has
\* not captured anything yet does not; the age is the wall clock's.
Measured(k) ==
    LET known == {quiet[t] : t \in Track} \ {None}
    IN  IF k = "duration" THEN elapsed
        ELSE IF known = {} THEN None
        ELSE CHOOSE least \in known : \A other \in known : least <= other

Decision(w, a) == [watch |-> w, action |-> a]

\* A warning that was given is taken back.
Rearmed(w, baseline, last) ==
    Decision([w EXCEPT !.baseline = baseline, !.last = last, !.warned = None],
             IF w.warned = None THEN "none" ELSE "clear")

\* What the time since the baseline calls for.
Judged(k, w, value) ==
    LET effective == IF value < w.baseline THEN 0 ELSE value - w.baseline
        current == [w EXCEPT !.last = value]
    IN  IF w.warned = None
        THEN IF effective >= Threshold[k]
             THEN Decision([current EXCEPT !.warned = effective], "warn")
             ELSE Decision(current, "none")
        ELSE IF effective >= w.warned + Countdown[k]
             THEN Decision(current, "stop")
             ELSE Decision(current, "none")

SoundResumed(w, value) == w.last # None /\ value < w.last

\* Mutant: the acknowledged warning is taken back, the baseline stays.
ObserveKeepsBaseline(k, value) ==
    LET w == watch[k] IN
    IF keeps[k] # w.generation
    THEN Rearmed([w EXCEPT !.generation = keeps[k]], w.baseline, value)
    ELSE IF value = None THEN Rearmed(w, 0, None)
    ELSE IF SoundResumed(w, value) THEN Rearmed(w, 0, value)
    ELSE Judged(k, w, value)

\* Mutant: resumed sound retracts the countdown on the screen only.
ObserveForgetsToRearm(k, value) ==
    LET w == watch[k] IN
    IF keeps[k] # w.generation
    THEN Rearmed([w EXCEPT !.generation = keeps[k]],
                 IF value = None THEN 0 ELSE value, value)
    ELSE IF value = None THEN Rearmed(w, 0, None)
    ELSE IF SoundResumed(w, value)
    THEN Decision([w EXCEPT !.last = value], Rearmed(w, 0, value).action)
    ELSE Judged(k, w, value)

\* SilenceWatchdogState::observe, MaxDurationWatchdogState::observe; an age is
\* always known and never goes back.
Observe(k, value) ==
    LET w == watch[k] IN
    IF keeps[k] # w.generation
    THEN Rearmed([w EXCEPT !.generation = keeps[k]],
                 IF value = None THEN 0 ELSE value, value)
    ELSE IF value = None THEN Rearmed(w, 0, None)
    ELSE IF SoundResumed(w, value) THEN Rearmed(w, 0, value)
    ELSE Judged(k, w, value)

-----------------------------------------------------------------------------
(* The threads *)

\* The measure is read, then continue_generation: a Keep in between re-arms
\* from the measure just read, so one step shows as much as two.
Poll(k) ==
    /\ k \in due \cap watching
    /\ action[k] = "none"
    /\ due' = due \ {k}
    /\ LET decided == Observe(k, Measured(k)) IN
         /\ watch' = [watch EXCEPT ![k] = decided.watch]
         /\ action' = [action EXCEPT ![k] = decided.action]
    /\ UNCHANGED <<mainVars, elapsed, quiet, watching, windowVars>>

Emitted(k, event) ==
    /\ action[k] = event
    /\ action' = [action EXCEPT ![k] = "none"]
    /\ UNCHANGED <<mainVars, clockVars, watching, watch>>

\* The listeners of App.tsx: a meeting already asked to stop is not warned about.
EmitWarning(k) ==
    /\ Emitted(k, "warn")
    /\ window' = IF owner \in asked THEN window ELSE [window EXCEPT ![k] = owner]
    /\ UNCHANGED <<asked, calls>>

EmitCleared(k) ==
    /\ Emitted(k, "clear")
    /\ window' = [window EXCEPT ![k] = IF @ = owner THEN None ELSE @]
    /\ UNCHANGED <<asked, calls>>

\* A meeting is asked to stop once, whoever asks.
AskToStop(m) ==
    /\ asked' = asked \cup {m}
    /\ calls' = IF m \in asked THEN calls ELSE calls \cup {StopCall(m)}

EmitAutoStop(k) ==
    /\ Emitted(k, "stop")
    /\ window' = IF owner \in asked THEN window ELSE ForEach(None)
    /\ AskToStop(owner)

Emit(k) == EmitWarning(k) \/ EmitCleared(k) \/ EmitAutoStop(k)

-----------------------------------------------------------------------------
(* The commands, on the main thread *)

\* The end of start_meeting_recording: the stop flags, generations and state
\* machines are new.
Start ==
    /\ main = "free" /\ owner = None /\ count < MaxMeetings
    /\ count' = count + 1 /\ owner' = count + 1
    /\ paused' = FALSE
    /\ elapsed' = 0 /\ quiet' = [t \in Track |-> None] /\ due' = {}
    /\ watching' = Kind /\ watch' = ForEach(NewWatch)
    /\ keeps' = ForEach(0) /\ keptAt' = ForEach(None)
    /\ UNCHANGED <<main, action, windowVars>>

TogglePause ==
    /\ main = "free" /\ owner # None
    /\ paused' = ~paused
    /\ UNCHANGED <<count, owner, main, keeps, keptAt, clockVars, threadVars, windowVars>>

Take(call) ==
    /\ main = "free"
    /\ call \in calls
    /\ calls' = calls \ {call}
    /\ UNCHANGED <<count, owner, paused, clockVars, threadVars, window>>

\* continue_meeting_after_silence, continue_meeting_after_max_duration: refused
\* for another meeting's watchdog.
Keep(k, m) ==
    /\ Take(KeepCall(k, m))
    /\ keeps' = [keeps EXCEPT ![k] = IF owner = m THEN @ + 1 ELSE @]
    /\ keptAt' = [keptAt EXCEPT ![k] = IF owner = m THEN elapsed ELSE @]
    /\ UNCHANGED <<main, asked>>

\* stop_meeting_recording for a meeting that is over: replayed or refused.
StopAgain(m) ==
    /\ Take(StopCall(m))
    /\ owner # m
    /\ asked' \in {asked, asked \ {m}}
    /\ UNCHANGED <<main, keeps, keptAt>>

StopBegins(m) ==
    /\ Take(StopCall(m))
    /\ owner = m
    /\ main' = "join_silence"
    /\ UNCHANGED <<asked, keeps, keptAt>>

\* Mutant: the flag is set, the thread is not joined.
JoinsWithoutWaiting(k, from, to) ==
    /\ main = from /\ main' = to
    /\ watching' = watching \ {k}
    /\ UNCHANGED <<count, owner, paused, keeps, keptAt, clockVars, watch, action,
                   windowVars>>

\* stop_and_join: the thread sees the flag between two polls.
Joins(k, from, to) ==
    /\ main = from /\ main' = to
    /\ action[k] = "none"
    /\ watching' = watching \ {k}
    /\ UNCHANGED <<count, owner, paused, keeps, keptAt, clockVars, watch, action,
                   windowVars>>

Join ==
    \/ Joins("silence", "join_silence", "join_duration")
    \/ Joins("duration", "join_duration", "joined")

\* The recorders have stopped, with or without a summary; visible countdowns
\* are retracted.
Clear ==
    /\ main = "joined" /\ main' = "cleared"
    /\ window' = [k \in Kind |-> IF window[k] = owner THEN None ELSE window[k]]
    /\ UNCHANGED <<count, owner, paused, keeps, keptAt, clockVars, threadVars,
                   asked, calls>>

\* completed or stopped_without_summary; the window forgets a stop that failed.
StopEnds ==
    /\ main = "cleared" /\ main' = "free"
    /\ owner' = None
    /\ asked' \in {asked, asked \ {owner}}
    /\ UNCHANGED <<count, paused, keeps, keptAt, clockVars, threadVars, window, calls>>

-----------------------------------------------------------------------------
(* The user and the world *)

\* Keep leaves the countdown on the screen until the thread retracts it.
ClickKeep(k) ==
    /\ window[k] # None
    /\ keeps[k] < MaxKeeps
    /\ calls' = calls \cup {KeepCall(k, window[k])}
    /\ UNCHANGED <<mainVars, clockVars, threadVars, window, asked>>

ClickStop(k) ==
    /\ window[k] # None
    /\ window' = [window EXCEPT ![k] = None]
    /\ AskToStop(window[k])
    /\ UNCHANGED <<mainVars, clockVars, threadVars>>

\* The Stop button of the meeting page does not go through stoppedMeetingsRef.
ClickStopInPanel ==
    /\ owner # None
    /\ calls' = calls \cup {StopCall(owner)}
    /\ UNCHANGED <<mainVars, clockVars, threadVars, window, asked>>

\* A poll's time passes: every thread polls once meanwhile, and what was clicked
\* before has run.
Second ==
    /\ owner # None /\ main = "free" /\ elapsed < MaxTime
    /\ due = {} /\ action = ForEach("none") /\ calls = {}
    /\ elapsed' = elapsed + 1
    /\ due' = watching
    /\ quiet' \in [Track -> 0 .. MaxTime \cup {None}]
    /\ \A t \in Track :
          quiet'[t] \in IF paused THEN {quiet[t]}
                        ELSE IF quiet[t] = None THEN {None, 0}
                        ELSE {0, quiet[t] + 1}
    /\ UNCHANGED <<mainVars, threadVars, windowVars>>

MainStep ==
    \/ \E m \in Meeting : StopAgain(m) \/ StopBegins(m) \/ \E k \in Kind : Keep(k, m)
    \/ Join \/ Clear \/ StopEnds

Next ==
    \/ \E k \in Kind : Poll(k) \/ Emit(k) \/ ClickKeep(k) \/ ClickStop(k)
    \/ MainStep
    \/ Start \/ TogglePause \/ ClickStopInPanel
    \/ Second

Spec == Init /\ [][Next]_vars

-----------------------------------------------------------------------------
\* "Granting a fresh full threshold": once a Keep has been accepted, no thread
\* decides to stop before a whole threshold and a whole countdown have passed,
\* whatever was measured, paused or warned about before.
KeepIsHonoured ==
    [][\A k \in Kind :
          action[k] # "stop" /\ action'[k] = "stop" /\ keptAt[k] # None
             => elapsed - keptAt[k] >= Threshold[k] + Countdown[k]]_vars

\* No countdown is on the screen for a recording that is over: what the threads
\* emit late comes before the retraction.
WarningIsCurrent == \A k \in Kind : window[k] # None => window[k] = owner

\* A recording is stopped by itself only after its countdown was shown, and
\* while it still is: sound, a Keep or the other watchdog never leave a stop
\* pending that nobody announced.
AutoStopIsAnnounced ==
    \A k \in Kind : action[k] = "stop" => window[k] = owner \/ owner \in asked

\* A recording nobody remembers to stop ends: "pausing must not extend it", and
\* each Keep grants one more threshold and countdown at the most.
RecordingIsCapped ==
    owner # None =>
        elapsed <= (MaxKeeps + 1) * (Threshold["duration"] + Countdown["duration"])
==============================================================================
