--------------------------- MODULE CaptureExclusion ---------------------------
(***************************************************************************)
(* Dictation and meeting recording side by side: the capture arbiter of    *)
(* mode_arbiter.rs, the start and stop commands of meeting_cmd.rs as far   *)
(* as they touch it, and the global dictation hotkeys, which a meeting and *)
(* the shortcut recorder of the settings both suspend (hotkey.rs).         *)
(*                                                                         *)
(* The commands are synchronous, so the application's main thread runs     *)
(* them one after the other; the tasks of Dictation run beside them.       *)
(***************************************************************************)
EXTENDS Dictation

CONSTANT MaxMeetings   \* bound: meeting starts in a behaviour

ASSUME MaxMeetingsAssumption == MaxMeetings \in Nat

VARIABLES
    meetings,    \* meeting starts that passed the arbiter so far
    meeting,     \* where the start or stop command of the meeting is
    hotkeys,     \* the dictation hotkeys, as the last call to hotkey.rs left them
    capturing    \* the settings' shortcut recorder waits for a chord

exclusionVars == <<meetings, meeting, hotkeys, capturing>>
allVars == <<vars, exclusionVars>>

\* "claimed", "opened": inside start; "stopped", "released": inside stop.
MeetingPC == {"none", "claimed", "opened", "recording", "stopped", "released"}

\* "registered": as configured (a configuration that turns them off included);
\* "refused": unregistered because reregister failed; nothing tries again by
\* itself.
HotkeyState == {"registered", "suspended", "refused"}

ExclusionInit ==
    /\ Init
    /\ meetings = 0
    /\ meeting = "none"
    /\ hotkeys \in {"registered", "refused"}
    /\ capturing = FALSE

MeetingAt(from, to) == meeting = from /\ meeting' = to

\* No command occupies the main thread.
MainThreadFree == meeting \in {"none", "recording"}

\* What the meeting commands leave alone in Dictation, apart from mode.
DictationUntouched == UNCHANGED <<taskVars, lock, mic, ducked, liveVars, pipeVars,
                                  cancelVars, escVars>>

-----------------------------------------------------------------------------
(* hotkey.rs *)

\* pause_hotkeys.
Suspend == hotkeys' = "suspended"

\* reregister unregisters everything first; the system may then refuse the
\* chords, which the callers only log.
Register == hotkeys' \in {"registered", "refused"}

-----------------------------------------------------------------------------
(* The meeting commands *)

\* CaptureArbiter::begin_meeting; otherwise the command fails as Busy.
MeetingClaims ==
    /\ meetings < MaxMeetings
    /\ MeetingAt("none", "claimed")
    /\ mode = "Idle"
    /\ mode' = "MeetingRecording"
    /\ meetings' = meetings + 1
    /\ DictationUntouched
    /\ UNCHANGED <<hotkeys, capturing>>

\* The row, the directory or the recorder cannot be made: force_idle.
MeetingStartFails ==
    /\ MeetingAt("claimed", "none")
    /\ mode' = "Idle"
    /\ DictationUntouched
    /\ UNCHANGED <<meetings, hotkeys, capturing>>

\* The recorder is live, the hotkeys are not suspended yet.
MeetingOpens ==
    /\ MeetingAt("claimed", "opened")
    /\ DictationUntouched
    /\ UNCHANGED <<mode, meetings, hotkeys, capturing>>

\* HotkeyAction::Suspend.
MeetingSuspendsHotkeys ==
    /\ MeetingAt("opened", "recording")
    /\ Suspend
    /\ DictationUntouched
    /\ UNCHANGED <<mode, meetings, capturing>>

\* The recorder stops, with a summary or an error.
MeetingStopsRecorder ==
    /\ MeetingAt("recording", "stopped")
    /\ DictationUntouched
    /\ UNCHANGED <<mode, meetings, hotkeys, capturing>>

\* CaptureArbiter::end_meeting: only its Ok carries HotkeyAction::Resume.
MeetingReleases ==
    /\ IF mode = "MeetingRecording"
         THEN MeetingAt("stopped", "released") /\ mode' = "Idle"
         ELSE MeetingAt("stopped", "none") /\ UNCHANGED mode
    /\ DictationUntouched
    /\ UNCHANGED <<meetings, hotkeys, capturing>>

\* Mutant: the hotkeys are left suspended.
MeetingForgetsHotkeys ==
    /\ MeetingAt("released", "none")
    /\ DictationUntouched
    /\ UNCHANGED <<mode, meetings, hotkeys, capturing>>

\* HotkeyAction::Resume.
MeetingResumesHotkeys ==
    /\ MeetingAt("released", "none")
    /\ Register
    /\ DictationUntouched
    /\ UNCHANGED <<mode, meetings, capturing>>

-----------------------------------------------------------------------------
(* The settings and the dictation tasks *)

\* pause_hotkeys while a chord is recorded.
ShortcutRecorderOpens ==
    /\ MainThreadFree
    /\ ~capturing
    /\ capturing' = TRUE
    /\ Suspend
    /\ UNCHANGED <<vars, meetings, meeting>>

\* The recorder closes after resume_hotkeys, or after a save_hotkey_config that
\* registered them; it answers one that failed with resume_hotkeys.
ShortcutRecorderCloses ==
    /\ MainThreadFree
    /\ capturing
    /\ capturing' = FALSE
    /\ Register
    /\ UNCHANGED <<vars, meetings, meeting>>

\* save_hotkey_config from any other control of the settings, during a meeting
\* too, or one of the recorder's that fails.  (When it fails before reregister,
\* nothing changes.)
HotkeysAreSaved ==
    /\ MainThreadFree
    /\ Register
    /\ UNCHANGED <<vars, meetings, meeting, capturing>>

\* A dictation begins with a hotkey (the buttons of the window need none and
\* would only add collisions); everything else in Dictation goes on, the Esc
\* grab when the main thread is free.
DictationByHotkey ==
    /\ Next
    /\ count' # count => hotkeys = "registered"
    /\ syncs /\ ~syncs' => MainThreadFree
    /\ UNCHANGED exclusionVars

ExclusionNext ==
    \/ DictationByHotkey
    \/ MeetingClaims \/ MeetingStartFails \/ MeetingOpens \/ MeetingSuspendsHotkeys
    \/ MeetingStopsRecorder \/ MeetingReleases \/ MeetingResumesHotkeys
    \/ ShortcutRecorderOpens \/ ShortcutRecorderCloses \/ HotkeysAreSaved

ExclusionSpec == ExclusionInit /\ [][ExclusionNext]_allVars

-----------------------------------------------------------------------------
(* Properties *)

\* While a meeting records, whatever dictation tasks end or fail to begin
\* meanwhile, the arbiter stays with the meeting, so that no second meeting can
\* start and the stop command gives the hotkeys back.
MeetingKeepsArbiter ==
    meeting \in {"claimed", "opened", "recording", "stopped"}
        => mode = "MeetingRecording"

\* No suspension outlives its reason: with no meeting under way and no shortcut
\* being recorded, the dictation hotkeys are registered, or the last attempt to
\* register them was refused, however the two suspensions and the saves of the
\* settings were nested.
HotkeysComeBack == meeting = "none" /\ ~capturing => hotkeys # "suspended"

\* The arbiter is never left behind in a busy mode: with no capture open and no
\* meeting, both a dictation and a meeting can be started again.
ArbiterComesBack == mic = Nobody /\ meeting = "none" => mode = "Idle"

\* The arbiter is with whoever records: kept through a meeting whatever the
\* dictation tasks do, and free again once neither records.
ArbiterFollowsRecorder == MeetingKeepsArbiter /\ ArbiterComesBack
==============================================================================
