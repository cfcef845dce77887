--------------------------- MODULE MeetingDetection ---------------------------
(***************************************************************************)
(* Meeting detection: a poller thread reports which applications hold an   *)
(* audio input, a policy behind a mutex decides when to ask the user, and  *)
(* the commands of the window answer on the main thread                    *)
(* (lumen-core/src/meeting_detection.rs, its driver meeting_detection.rs,  *)
(* lumen-platform-macos/src/meeting_activity.rs, meeting_cmd.rs, App.tsx). *)
(*                                                                         *)
(* Both threads step the policy under its lock and send the outputs to the *)
(* window after the lock is released, one by one, so the two sequences of  *)
(* events interleave freely.                                               *)
(***************************************************************************)
EXTENDS Naturals, Sequences

CONSTANTS
    App,             \* applications; classification is the catalog's
    Session,         \* input sessions (bundle id and pid)
    AppOf,           \* the application of a session, helpers folded
    None,
    Stability,       \* stability_ms: an input lasts this long before a prompt
    StopStability,   \* stop_stability_ms: absent this long before a suggestion
    Cooldown,        \* cooldown_ms: quiet period of an answered application
    MaxTime          \* bound of the clock

ASSUME DetectionAssumption ==
    /\ AppOf \in [Session -> App]
    /\ {Stability, StopStability, Cooldown, MaxTime} \subseteq Nat
    /\ None \notin App \cup Session \cup Nat

VARIABLES
    now,        \* ms since the origin of the service, in coarse units
    live,       \* sessions that hold an input (the world)
    policy,     \* MeetingDetectionPolicy::state
    cooldown,   \* application -> end of its quiet period
    detector,   \* the poller thread: "off", "asleep" or "polling"
    seen,       \* sessions enumerated by the current cycle
    known,      \* sessions reported and not reported gone
    out,        \* outputs the poller thread has still to send
    main,       \* what the main thread is doing, and what follows
    mainOut,    \* outputs the main thread has still to send
    enabled,    \* config.meeting.detection_enabled
    catalog,    \* promptable applications
    restart,    \* catalog_restart_pending
    active,     \* active_meeting is set
    recorder,   \* what records: "none", "manual" or "detected"
    window,     \* the prompt and the stop suggestion shown
    clicked,    \* answers given whose command has not run
    answered,   \* history: application -> time of the last answer plus Cooldown
    beside      \* history: other inputs its application had when the input of
                \* the meeting went

policyVars == <<policy, cooldown, answered, beside>>
detectorVars == <<detector, seen, known, out>>
mainVars == <<main, mainOut, enabled, catalog, restart, active, recorder>>
windowVars == <<window, clicked>>
vars == <<now, live, policyVars, detectorVars, mainVars, windowVars>>

Idle == [phase |-> "idle", session |-> None, since |-> 0, gone |-> None,
         asked |-> FALSE, declined |-> FALSE]

Show(a) == [kind |-> "ShowPrompt", app |-> a]
SuggestStop(a) == [kind |-> "SuggestStop", app |-> a]
CancelPrompt == [kind |-> "CancelPrompt", app |-> None]
CancelStopPrompt == [kind |-> "CancelStopPrompt", app |-> None]

Free == [at |-> "free", then |-> "free"]

Init ==
    /\ now = 0
    /\ live = {}
    /\ policy = Idle
    /\ cooldown = [a \in App |-> 0]
    /\ answered = [a \in App |-> 0]
    /\ beside = {}
    /\ detector = "asleep"
    /\ seen = {} /\ known = {} /\ out = <<>>
    /\ main = Free
    /\ mainOut = <<>>
    /\ enabled = TRUE
    /\ catalog = App
    /\ restart = FALSE /\ active = FALSE
    /\ recorder = "none"
    /\ window = [prompt |-> None, stop |-> FALSE]
    /\ clicked = {}

-----------------------------------------------------------------------------
(* The policy: the state and the outputs each input leads to *)

Result(p, outputs) == [policy |-> p, outputs |-> outputs]
Ignored == Result(policy, <<>>)
InCooldown(a) == now < cooldown[a]
Tracked == AppOf[policy.session]

\* Leaving `recording` retracts a suggestion that is on screen.
ToIdle == Result(Idle, IF policy.asked THEN <<CancelStopPrompt>> ELSE <<>>)

\* Mutant: the cooldown is looked at first.
OnAddedCooldownFirst(s) ==
    LET a == AppOf[s] IN
    CASE a \notin catalog \/ InCooldown(a) -> Ignored
      [] policy.phase = "recording" /\ Tracked = a /\ a \in catalog /\ ~InCooldown(a) ->
            Result([policy EXCEPT !.session = s, !.gone = None, !.asked = FALSE],
                   IF policy.asked THEN <<CancelStopPrompt>> ELSE <<>>)
      [] OTHER ->
            IF policy.phase # "idle" THEN Ignored
            ELSE Result([Idle EXCEPT !.phase = "candidate", !.session = s,
                                     !.since = now], <<>>)

\* on_candidate_added: an application that is not promptable is ignored; the
\* recorded one re-attaches, whatever its cooldown.
OnAdded(s) ==
    LET a == AppOf[s] IN
    CASE a \notin catalog -> Ignored
      [] a \in catalog /\ policy.phase = "recording" /\ Tracked = a ->
            Result([policy EXCEPT !.session = s, !.gone = None, !.asked = FALSE],
                   IF policy.asked THEN <<CancelStopPrompt>> ELSE <<>>)
      [] OTHER ->
            IF InCooldown(a) \/ policy.phase # "idle" THEN Ignored
            ELSE Result([Idle EXCEPT !.phase = "candidate", !.session = s,
                                     !.since = now], <<>>)

\* on_candidate_removed
OnRemoved(s) ==
    CASE policy.session # s -> Ignored
      [] policy.session = s /\ policy.phase = "recording" ->
            Result([policy EXCEPT !.gone = IF @ = None THEN now ELSE @], <<>>)
      [] policy.session = s /\ policy.phase = "prompted" ->
            Result(Idle, <<CancelPrompt>>)
      [] OTHER -> Result(Idle, <<>>)

\* on_tick
OnTick ==
    CASE policy.phase = "recording" ->
            IF /\ policy.gone # None
               /\ now - policy.gone >= StopStability
               /\ ~policy.asked /\ ~policy.declined
            THEN Result([policy EXCEPT !.asked = TRUE], <<SuggestStop(Tracked)>>)
            ELSE Ignored
      [] policy.phase = "candidate" ->
            IF InCooldown(Tracked) THEN Result(Idle, <<>>)
            ELSE IF now - policy.since < Stability THEN Ignored
            ELSE Result([policy EXCEPT !.phase = "prompted", !.since = 0],
                        <<Show(Tracked)>>)
      [] OTHER -> Ignored

\* reset: cooldowns stay.
Reset ==
    IF policy.phase = "prompted" THEN Result(Idle, <<CancelPrompt>>) ELSE ToIdle

\* What `beside` remembers of a step of the policy.
NotesBeside ==
    beside' = CASE policy'.gone = None -> {}
                [] policy'.gone # None /\ policy.gone = None ->
                      {s \in known' : AppOf[s] = Tracked}
                [] OTHER -> beside

ArmCooldown ==
    /\ cooldown' = [cooldown EXCEPT ![Tracked] = now + Cooldown]
    /\ answered' = [answered EXCEPT ![Tracked] = now + Cooldown]

-----------------------------------------------------------------------------
(* The poller thread *)

\* One signal: the policy is stepped under its lock, the outputs are sent
\* after it.
Signal(result) ==
    /\ policy' = result.policy
    /\ NotesBeside
    /\ out' = result.outputs
    /\ UNCHANGED <<now, live, cooldown, answered, mainVars, windowVars>>

\* A cycle starts with one enumeration; stop() asks the loop to end.
Poll ==
    /\ detector = "asleep"
    /\ out = <<>>
    /\ main.at # "joining"
    /\ detector' = "polling"
    /\ seen' = live
    /\ UNCHANGED <<now, live, policyVars, known, out, mainVars, windowVars>>

ReportRemoved(s) ==
    /\ detector = "polling" /\ out = <<>>
    /\ s \in known \ seen
    /\ known' = known \ {s}
    /\ Signal(OnRemoved(s))
    /\ UNCHANGED <<detector, seen>>

ReportAdded(s) ==
    /\ detector = "polling" /\ out = <<>>
    /\ known \subseteq seen
    /\ s \in seen \ known
    /\ known' = known \cup {s}
    /\ Signal(OnAdded(s))
    /\ UNCHANGED <<detector, seen>>

Tick ==
    /\ detector = "polling" /\ out = <<>>
    /\ known = seen
    /\ detector' = "asleep"
    /\ Signal(OnTick)
    /\ UNCHANGED <<seen, known>>

\* The loop sees that it was asked to end.
PollerEnds ==
    /\ detector = "asleep" /\ out = <<>>
    /\ main.at = "joining"
    /\ detector' = "off"
    /\ known' = {} /\ seen' = {}
    /\ UNCHANGED <<now, live, policyVars, out, mainVars, windowVars>>

\* What an event does to the window (App.tsx).
Shown(w, o) ==
    CASE o.kind = "ShowPrompt" -> [w EXCEPT !.prompt = o.app]
      [] o.kind = "CancelPrompt" -> [w EXCEPT !.prompt = None]
      [] o.kind = "SuggestStop" -> [w EXCEPT !.stop = TRUE]
      [] o.kind = "CancelStopPrompt" -> [w EXCEPT !.stop = FALSE]

\* ensure_main_window_visible asks whether the window is visible, which the
\* main thread answers between two commands.
NeedsMainThread(o) == o.kind \in {"ShowPrompt", "SuggestStop"}

PollerSends ==
    /\ out # <<>>
    /\ NeedsMainThread(Head(out)) => main.at = "free"
    /\ window' = Shown(window, Head(out))
    /\ out' = Tail(out)
    /\ UNCHANGED <<now, live, policyVars, detector, seen, known, mainVars, clicked>>

-----------------------------------------------------------------------------
(* The main thread *)

\* The main thread steps the policy, sends the outputs and goes on with `then`.
MainSignal(result, then) ==
    /\ policy' = result.policy
    /\ NotesBeside
    /\ mainOut' = result.outputs
    /\ main' = [at |-> "sending", then |-> then]

MainSends ==
    /\ main.at = "sending"
    /\ mainOut # <<>>
    /\ window' = Shown(window, Head(mainOut))
    /\ mainOut' = Tail(mainOut)
    /\ UNCHANGED <<now, live, policyVars, detectorVars, main, enabled, catalog,
                   restart, active, recorder, clicked>>

\* The user's answer clears the prompt at once; its command runs later.
Click(answer) ==
    /\ \/ answer \in {"accept", "dismiss"} /\ window.prompt # None
          /\ window' = [window EXCEPT !.prompt = None]
       \/ answer \in {"stop", "keep"} /\ window.stop
          /\ window' = [window EXCEPT !.stop = FALSE]
    /\ clicked' = clicked \cup {answer}
    /\ UNCHANGED <<now, live, policyVars, detectorVars, mainVars>>

Command(answer) ==
    /\ main.at = "free"
    /\ answer \in clicked
    /\ clicked' = clicked \ {answer}
    /\ UNCHANGED <<now, live, detectorVars, window, enabled, catalog, restart, active>>

\* accept_meeting_detection: without a prompt nothing is started.
Accept ==
    /\ Command("accept")
    /\ IF policy.phase = "prompted"
         THEN /\ policy' = [policy EXCEPT !.phase = "recording"]
              /\ ArmCooldown
              /\ UNCHANGED beside
              /\ main' = [at |-> "starting", then |-> "free"]
         ELSE UNCHANGED <<policyVars, main>>
    /\ UNCHANGED <<mainOut, recorder>>

\* start_meeting_recording_with_targets, then mark_recording_started.
AcceptedStarts ==
    /\ main.at = "starting"
    /\ recorder = "none"
    /\ recorder' = "detected"
    /\ active' = TRUE
    /\ main' = Free
    /\ UNCHANGED <<now, live, policyVars, detectorVars, mainOut, enabled, catalog,
                   restart, windowVars>>

\* Mutant: the policy is not told.
AcceptedFailsSilently ==
    /\ main.at = "starting"
    /\ active' = FALSE
    /\ MainSignal(Ignored, "pending")
    /\ UNCHANGED <<now, live, cooldown, answered, detectorVars, enabled, catalog,
                   restart, recorder, windowVars>>

\* It fails, as it always does while another meeting records: recording_failed.
AcceptedFails ==
    /\ main.at = "starting"
    /\ active' = FALSE
    /\ MainSignal(ToIdle, "pending")
    /\ UNCHANGED <<now, live, cooldown, answered, detectorVars, enabled, catalog,
                   restart, recorder, windowVars>>

\* Mutants: the prompt is left, or the quiet period is forgotten.
DismissOnScreenOnly ==
    /\ Command("dismiss")
    /\ UNCHANGED <<policyVars, main, mainOut, recorder>>
DismissWithoutCooldown ==
    /\ Command("dismiss")
    /\ IF policy.phase = "prompted"
         THEN /\ answered' = [answered EXCEPT ![Tracked] = now + Cooldown]
              /\ MainSignal(Result(Idle, <<CancelPrompt>>), "free")
         ELSE UNCHANGED <<policy, answered, beside, main, mainOut>>
    /\ UNCHANGED <<recorder, cooldown>>

\* dismiss_meeting_detection
Dismiss ==
    /\ Command("dismiss")
    /\ IF policy.phase = "prompted"
         THEN ArmCooldown /\ MainSignal(Result(Idle, <<CancelPrompt>>), "free")
         ELSE UNCHANGED <<policyVars, main, mainOut>>
    /\ UNCHANGED recorder

\* accept_meeting_detection_stop: a stale click is a no-op.
AcceptStop ==
    /\ Command("stop")
    /\ main' = IF active THEN [at |-> "stopping", then |-> "free"] ELSE main
    /\ UNCHANGED <<policyVars, mainOut, recorder>>

\* decline_meeting_detection_stop
DeclineStop ==
    /\ Command("keep")
    /\ policy' = IF policy.asked
                   THEN [policy EXCEPT !.asked = FALSE, !.declined = TRUE, !.gone = None]
                   ELSE policy
    /\ NotesBeside
    /\ UNCHANGED <<cooldown, answered, main, mainOut, recorder>>

\* A recording is started by hand, or one is stopped by hand or a watchdog.
ManualStart ==
    /\ main.at = "free" /\ recorder = "none"
    /\ recorder' = "manual"
    /\ UNCHANGED <<now, live, policyVars, detectorVars, main, mainOut, enabled,
                   catalog, restart, active, windowVars>>
Stop ==
    /\ main.at = "free" /\ recorder # "none"
    /\ main' = [at |-> "stopping", then |-> "free"]
    /\ UNCHANGED <<now, live, policyVars, detectorVars, mainOut, enabled, catalog,
                   restart, active, recorder, windowVars>>

\* stop_meeting_recording stops the recorder, which takes its time ...
RecorderStops ==
    /\ main.at = "stopping"
    /\ recorder' = "none"
    /\ main' = [main EXCEPT !.at = "stopped"]
    /\ UNCHANGED <<now, live, policyVars, detectorVars, mainOut, enabled, catalog,
                   restart, active, windowVars>>

\* ... and calls recording_finished, whether the recorder failed or not.
Finished ==
    /\ main.at = "stopped"
    /\ active' = FALSE
    /\ IF policy.phase = "recording" THEN MainSignal(ToIdle, "pending")
                                     ELSE MainSignal(Ignored, "pending")
    /\ UNCHANGED <<now, live, cooldown, answered, detectorVars, enabled, catalog,
                   restart, recorder, windowVars>>

\* apply_pending_catalog_restart follows recording_finished and _failed; a
\* restart starts the poller again when detection is enabled.
Sent ==
    /\ main.at = "sending"
    /\ mainOut = <<>>
    /\ CASE main.then = "pending" /\ restart ->
              /\ main' = [at |-> "joining", then |-> "start"]
              /\ restart' = FALSE
              /\ UNCHANGED detector
         [] main.then = "start" /\ enabled ->
              /\ main' = Free
              /\ detector' = "asleep"
              /\ UNCHANGED restart
         [] OTHER -> main' = Free /\ UNCHANGED <<restart, detector>>
    /\ UNCHANGED <<now, live, policyVars, seen, known, out, mainOut, enabled,
                   catalog, active, recorder, windowVars>>

\* set_meeting_detection_enabled: start() without a poller, stop_and_reset().
Enable ==
    /\ main.at = "free"
    /\ enabled' = TRUE
    /\ detector' = IF detector = "off" THEN "asleep" ELSE detector
    /\ UNCHANGED <<now, live, policyVars, seen, known, out, main, mainOut, catalog,
                   restart, active, recorder, windowVars>>
Disable ==
    /\ main.at = "free"
    /\ enabled' = FALSE
    /\ main' = [at |-> "joining", then |-> "free"]
    /\ UNCHANGED <<now, live, policyVars, detectorVars, mainOut, catalog, restart,
                   active, recorder, windowVars>>

\* save_meeting_app_catalog, reload_meeting_app_catalog:
\* restart_after_catalog_change waits for the end of a detected recording.
SaveCatalog(c) ==
    /\ main.at = "free"
    /\ catalog' = c
    /\ restart' = active
    /\ main' = IF active THEN main ELSE [at |-> "joining", then |-> "start"]
    /\ UNCHANGED <<now, live, policyVars, detectorVars, mainOut, enabled, active,
                   recorder, windowVars>>

\* The poller has been joined: the policy is reset.
Joined ==
    /\ main.at = "joining"
    /\ detector = "off"
    /\ MainSignal(Reset, main.then)
    /\ UNCHANGED <<now, live, cooldown, answered, detectorVars, enabled, catalog,
                   restart, active, recorder, windowVars>>

-----------------------------------------------------------------------------
(* The world *)

\* (Only Poll reads `live`: what changes during a cycle is as good as changed
\* after it.)
InputChanges(s) ==
    /\ detector # "polling"
    /\ live' = IF s \in live THEN live \ {s} ELSE live \cup {s}
    /\ UNCHANGED <<now, policyVars, detectorVars, mainVars, windowVars>>

\* Sending an event takes no time a stability window would notice.
Pass ==
    /\ now < MaxTime
    /\ out = <<>> /\ mainOut = <<>>
    /\ now' = now + 1
    /\ UNCHANGED <<live, policyVars, detectorVars, mainVars, windowVars>>

Next ==
    \/ Poll \/ Tick \/ PollerEnds \/ PollerSends
    \/ \E s \in Session : ReportRemoved(s) \/ ReportAdded(s) \/ InputChanges(s)
    \/ MainSends \/ Sent \/ Joined
    \/ \E answer \in {"accept", "dismiss", "stop", "keep"} : Click(answer)
    \/ Accept \/ AcceptedStarts \/ AcceptedFails \/ Dismiss
    \/ AcceptStop \/ DeclineStop
    \/ ManualStart \/ Stop \/ RecorderStops \/ Finished
    \/ Enable \/ Disable
    \/ \E c \in SUBSET App : SaveCatalog(c)
    \/ Pass

Spec == Init /\ [][Next]_vars

-----------------------------------------------------------------------------
\* Whatever the policy believes to be asking is on the screen or has been
\* answered: neither a prompt nor a stop suggestion is lost between the two
\* threads, which would block every later prompt.
QuestionIsOnScreen ==
    out = <<>> /\ mainOut = <<>> =>
        /\ policy.phase = "prompted" =>
              \/ window.prompt = Tracked
              \/ clicked \cap {"accept", "dismiss"} # {}
        /\ policy.asked =>
              \/ window.stop
              \/ clicked \cap {"stop", "keep"} # {}
              \/ main.at \in {"stopping", "stopped"}

\* The policy is in `recording` only while the recording it asked for is made,
\* so a start or a stop that fails does not leave it there, rejecting every
\* candidate as busy; nor is a meeting remembered that has ended.
PolicyFollowsRecorder ==
    /\ policy.phase = "recording" =>
          recorder = "detected" \/ main.at \in {"starting", "stopped"}
    /\ active => recorder = "detected" \/ main.at = "stopped"

\* A stop is suggested only while the input of the meeting is gone and its
\* application has taken no other since: a rejoin, under another pid or inside
\* the cooldown armed at the start, takes the meeting over, and never makes a
\* running one look over.  An input the application held beside it all along is
\* not taken for the meeting.  (Once the catalog was changed, inputs are
\* classified anew before the restart.)
SuggestionMeansGone ==
    policy.asked /\ ~restart =>
        /\ policy.session \notin known
        /\ \A s \in known : AppOf[s] = Tracked => s \in beside

\* An application the user has answered about is not asked about again before
\* its quiet period is over, however detection is switched or its catalog is
\* replaced meanwhile.
AnsweredAppIsQuiet ==
    [][policy.phase # "prompted" /\ policy'.phase = "prompted"
          => now >= answered[AppOf[policy'.session]]]_vars
==============================================================================
