# Lumen ASR in TLA+

Specifications of the concurrent core of Lumen ASR, a desktop dictation and
meeting recorder (Rust, Tauri), with their TLC configurations and TLAPS proofs.
Every module is translated from the source in `src/`; `PROJECT.json` names the
lines each definition stands for.

## The system

| Part | State | Operations | Talks to |
| --- | --- | --- | --- |
| Dictation lifecycle (`dictation.rs`) | `PHASE`, `PROCESSING_CANCEL`, `RECORD_STARTED`, the session intent, `TARGET` | press, release, toggle, VAD stop, Esc; the pipeline capture → ASR → correction → insertion → save | audio capture, capture arbiter, ducking guard, realtime ASR, edit learning, capsule, store |
| Capture arbiter (`mode_arbiter.rs`) | `CaptureMode` | begin/end dictation, begin/end meeting, force idle | both recorders, hotkeys |
| Hotkeys (`hotkey.rs`, `mod_chord.rs`) | registered shortcuts, the chord watcher's debounce counters | register, pause, resume, press/release edges | dictation tasks |
| Meeting lifecycle (`meeting_cmd.rs`) | `MeetingRecordingOwner`, the rows of the store | start, stop, process, import, recover, delete | recorders, watchdogs, live layer, processing queue, store |
| Processing queue (`meeting_queue.rs`) | pending, running, detached | enqueue, is_pending, worker, job threads | offline pipeline |
| Live layer (`meeting_live.rs`, `meeting_journal.rs`, `meeting_draft.rs`) | segments per track, speaker evidence, the journal file | audio packets, endpoints, checkpoints, stop, recovery | UI events, draft minutes |
| Watchdogs (`meeting_cmd.rs`) | silence and duration timers | tick, continue, stop | UI events |
| Detection (`lumen-core/meeting_detection.rs`, `meeting_detection.rs`) | candidate, prompt, cooldowns, recording | observations, prompt, accept, dismiss, recording end | meeting start and stop |
| Realtime ASR (`realtime_asr.rs`, `meeting_realtime.rs`) | sessions, committed and partial text | audio, provider events, finish, reconnect | dictation and meetings |
| Edit learning (`edit_learning_runtime.rs`, `lumen-edit-learning`, `pane_observer.rs`) | pending target, active observers, revisions, candidates | reserve, insert, observe, stop, settle, decide | dictionary, store |
| Context capture, insertion, secrets, models | attached snapshots, clipboard, keychain slots, prewarm book | freeze, attach, paste and restore, migrate, prewarm | dictation |
| Offline pipeline (`lumen-meeting`) | stages and their progress | transcribe, diarize, align, merge, identify, minutes | processing queue, store |
| Store (`lumen-store`) | SQLite tables | meeting rows, transcripts, drafts and finals, sessions | all |

What is hard. Dictation runs each press, release and Esc as a task of its own on
a multi-threaded runtime, with a few short critical sections (`UI_TRANSITION`,
the `dictation_ducking` lock) between long waits (keychain, device, recognition,
language model, paste). Meetings add synchronous commands on the main thread, a
worker thread with timeouts and job threads that may outlive them, watchdog
threads, journal writers, and recovery after a crash. What makes each part
correct is listed with its module below, and the places where it could go wrong
are the hazards of `PROJECT.json`.

## Modules

`MeetingSchedule` states what the processing queue promises, with no threads.
`ProcessingQueue` models `meeting_queue.rs`: `pending`, `running` and `detached`
are the fields of `State`, `worker` is the position of the worker's loop,
`reply` the done channel, `body` and `handler` count the threads inside `run()`
and `on_panic()`. The mutex makes `enqueue`, the pop, `finish` and `detach`
atomic, everything between them is a step of its own. A job may exceed its
budget at any time and may hang; the longest wait at the recording gate is
`MaxPolls` polls. `ProcessingQueueProofs` proves its safety and the refinement.

`Dictation` models the hotkey, toggle, VAD and Esc paths of `dictation.rs`.
Session *n* is the *n*-th successful transition to RECORDING; `startPC[n]` and
`stopPC[n]` are the positions of its start and stop task. `mic` is the capture
that records, named by the session that opened it; `source[n]` says whose speech
session *n* turns into text. `armed` and `permits` are the one `ProcessingCancel`
slot and the `Notify` permits handed out by it. Esc is a key grab (`grab`), a
main-thread closure that converges it (`syncs`) and a spawned handler (`esc`).
`abandoned`, `discarded` and `kept` are history variables: what an Esc ended in
processing, what it discarded while recording, and the realtime runs that a start
with realtime off found and left in place. `DictationProofs` proves what
holds in every interleaving, and what holds of paced sessions.

`CaptureExclusion` extends `Dictation` with the meeting commands as far as they
touch the arbiter and the hotkeys, with the settings' shortcut recorder,
which suspends the hotkeys too, and with saves of the settings, which register
them at any time. The system may refuse a registration (`hotkeys = "refused"`);
the code logs that, and the next registration is the next chance. Commands are synchronous and exclude each other
on the main thread; dictation tasks run beside them.

`LiveTranscript` models the live layer of one recording: the worker of
`meeting_live.rs` that turns recognized text into revisions of segments, the
journal of `meeting_journal.rs` with its sender, its writer thread and its
loader, the log the draft minutes are made from (`meeting_draft.rs`), the
verifier that attributes finished segments to speakers, and the caption list of
`MeetingPanel.tsx`. `channel`, `batch` and `disk` are the lines sent, being
written and durable; the writer may fail at any batch, and a crash keeps an
arbitrary prefix of what was written. `Load` is `load_journal`. The captions live
in the panel of the meeting tab: leaving the tab unmounts it, and a new one starts
empty (`Unmount`, `Mount`); `finals` and `attributed` are history variables that
say what was sent to it since. Audio and times
are left out: a time only orders the lines shown.

`MeetingLifecycle` models what the commands of `meeting_cmd.rs`, the jobs of
`lumen-meeting/process.rs` and the recovery thread do to a meeting's row
(`rows`) and to its audio (`files`, by version: each trim makes the next).
`command` is where the main thread's start, stop or retry is, `edit` where the
task that holds `meeting_audio_edit` is, `job[m]` where the job thread of *m* is.
The queue is used by its abstract specification: `Queue == INSTANCE
MeetingSchedule`, over the same variables `waiting`, `holder` and `overrun`. An
action per statement that writes the store or the disk lets everything else
happen between two of them. Where the code drops an error of `fail_meeting` or
ends with one of `set_meeting_audio`, `Fail` and `Refuse` may leave the row as it
is; `refused` is the history variable that says so, `swallowed` the one for
requests the queue dropped in favour of a job that was as good as over. `Crash` may fall anywhere; it drops everything but
rows and files, and recovery then runs beside new commands.

`MeetingWatch` models the two watchdog threads of a recording, their state
machines (`watch`, one for silence and one for age, with the generation of the
last Keep they have seen), the decision a thread has made and not yet emitted
(`action`), the countdowns in the window, the commands it has issued (`calls`)
and the stop command, which joins the threads one after the other. Time is a
number of polls; silence is counted in captured samples, which stop while paused,
age in wall-clock time. Events of the two threads and of the main thread are
assumed to reach the window in the order they were emitted.

`MeetingDetection` models the prompt policy (`policy`, `cooldown`), the poller
thread that feeds it (`detector`, `seen`, `known`) and the commands on the main
thread (`main`). Both threads step the policy under its lock and send the events
after it (`out`, `mainOut`), so the window may get them in another order than
they were decided. The prompt's answers, the start and stop they lead to,
switching detection on and off and replacing the catalog are included. An
application may hold several inputs, of one process or more; `beside` is a history
variable, the other inputs it held when the one of the meeting went. What an
application takes or gives up while a cycle of the poller is being reported is as
good as taken after it, since only `Poll` looks.

`RealtimeAsr` models one realtime recognition run: the bridge thread, the pump
task (`pump`), the reader task (`reader`), the provider and the owner that ends
the run, for a dictation and for a meeting track, and for both engines. Speech is
a number of chunks, the provider cuts it into items, a text is the sequence of
items it is made of. `commit` and `commitPhase` are two steps of `finish_with`.
`WireStep` are the steps that wait for the connection, without a timeout;
`PumpStepsAlone` those the pump takes by itself.

`EditLearning` models what happens to a dictation after it was inserted, as far
as one text surface is concerned: `field` is what the surface holds and who
inserted it, `setup` the insertion that holds the engine's transition lock,
`observer[s]` the task that polls the surface for session *s* with its memory
(the pending edit, the last recorded one, candidates that wait), `store[s]` the
session's row, revisions, candidates and notices. A text is what the locator of
the session that inserted last reads: the original, one of the user's edits,
nothing, or a range that holds another insertion. Each await of the observer's
loop and each store call is a step (a session whose row could only be made after
it stopped attaches the row, its revision and its candidates in three); the store
may refuse any call, insertions on
other surfaces may evict an observer, and the process may restart at any time.
`seen`, `blind` and `refused` are history variables.

### Pacing

Some properties of dictation fail when its tasks interleave freely, in windows
of microseconds between two short steps. `Paced = TRUE` describes a session
where no key and no end of a long wait falls between two such steps (operator
`Calm`); `Paced = FALSE` allows every interleaving. What holds without pacing is
checked (and proved) without it; what needs it is checked with it. The instants it
closes are among the hazards: an Esc between PROCESSING and `arm`, a cancelled
pipeline that meets the slot of the next session, a release between the two steps
of a stop. For those, `OverlapNeedsEsc` and `FirstEscIsHeard` prove at any pace what
has to come first, and "Findings" says what follows.

`MeetingLifecycle` has a `Paced` too. When set, four short instants are closed:
nothing is enqueued and no trim committed between the steps of a retry, a meeting
is not retried between the last steps of its trim, no trim
is committed while the last job of that meeting is past its final status but not
out of the queue, and no command is given before recovery has made its lists.
See "Findings" for what can fall into them. The proofs do not use it.

`MeetingWatch` lets a second pass only when every thread has polled and emitted
and what was clicked has run: a poll is a second, and no handler takes one.
`MeetingDetection` lets its clock pass only when no event is waiting to be sent.
`RealtimeAsr` assumes that the provider answers its items in order.

## Runs

| Run | Shows | Bounds |
| --- | --- | --- |
| `queue_safety` | one thread per meeting, serial processing, under panics of job and handler | 3 meetings (symmetric), 2 polls |
| `queue_liveness` | each accepted meeting gets its turn, the worker moves on, the queue implements `MeetingSchedule` | 3 meetings, 1 poll |
| `dictation` | ducking and arbiter follow the microphone, PROCESSING has an owner and is always left, a quiet phase has no open microphone and the right Esc grab, one live pipeline, each capture output at most once, and what Esc discarded or abandoned only from a realtime run that a later start left in place | 3 sessions, paced |
| `exclusion` | a meeting keeps the arbiter, the arbiter comes back, no suspension of the hotkeys outlives its reason (the registration that ends it may be refused) | 1 dictation, 2 meetings, every interleaving |
| `live_transcript` | any journal a crash leaves reads as a moment of the transcript, a closed one as the log; captions agree with the log and keep their speakers as far as they were sent since they were mounted; stopping ends | 1 track, 1 utterance, 1 partial, 3 lines, verifier queue of 1 |
| `meetings_together` | what is shown as processing is processed, what is shown as recording is recorded, unless the store refused what ended it, and never both | 2 meetings (symmetric), no trims, 1 crash |
| `meeting_processing` | transcript and audio of a row belong together and exist, drafts yield, a deletion leaves no audio, processing ends unless the store refuses its end | 1 meeting, 2 trims, 2 crashes |
| `meeting_watch` | no countdown outlives its recording, an automatic stop was announced, a Keep grants a whole threshold and countdown, only Keep makes a recording longer than the cap | 2 recordings, 1 Keep of each kind, 9 polls each, thresholds of 2 and 3 |
| `meeting_detection` | no question is lost between the threads, the policy follows the recorder, a suggestion to stop means the meeting's input is gone and its application has taken no other since, an answered application is left in peace | 2 applications, one with 2 processes (symmetric), 3 units of time, cooldown of 2 |
| `realtime` | the text is what was said from the beginning on, a failure falls back to the batch engine, a run that is told to end winds down unless the connection hangs for ever, and its owner gets an answer anyway | 2 chunks |
| `edit_learning` | a later insertion is no edit of an earlier one, candidates on offer are those of the last revision, rows are open as long as their observers work, the last text seen is recorded, decisions stand | 2 insertions, 1 surface, 2 texts of which 1 gives candidates, 2 edits |
| `dictation_stale_speech` | a finding: speech that Esc discarded is output by a later session | 2 sessions, paced |

Two sessions are enough for a late task of one session to meet every step of the
next; the third lets a leftover (a permit, a realtime run, an edit target) of the
first survive a whole session. Interleavings without pacing are covered by the
proofs below and by `exclusion`. Three meetings give the queue a running, a
detached and a waiting one. In the live transcript the lines of an
utterance, of its partial and of its speaker meet at every position of the
writer; the queue of one makes the verifier drop work. Two meetings let a job of one run while the other records
or waits, and exercise the queue's order and the lists of recovery; what a trim
can disturb is its own meeting, so trims are checked with one meeting: the second
version of the audio is what a stale job or a stale file could be confused with,
the third a repeated trim. In `meeting_watch` nine polls hold a
threshold, a countdown, a Keep and both of them again; the second recording meets
what the first left in the window. In `meeting_detection` the second application
is prompted while the first is in its cooldown, and the two processes of the first
take an input beside, after or instead of each other. Two chunks give a realtime run an
item finalized while the user speaks and one that comes with the commit. In
`edit_learning` the second insertion meets an observer of the first at every one
of its steps; two edits make a revision retire the candidates of another, or a
text return to what it was. Restarts, polls, submissions and refused writes are
not bounded. After one crash every interrupted step meets the
recovery and new commands, after two an interrupted recovery does. `CHECK_DEADLOCK FALSE` appears only where the bound
on sessions, meetings, utterances or chunks lets the system come to rest.

Fairness. The queue's worker is a thread whose waits are all timed, so it is
weakly fair; jobs are not assumed to end. Dictation tasks are run by the runtime
(weak fairness) and their waits end by a timeout if by nothing else; when paced,
a key press in progress disables the end of a wait, so those are strongly fair.
No key is ever pressed by obligation. The live worker, the journal's writer and
the verifier are threads that always have a next step; the writer may also fail.
In `MeetingLifecycle` commands and tasks that have begun go on, recovery goes on,
and a job that runs ends: what it waits for has timeouts. No command, trim,
deletion or crash has to happen. In `RealtimeAsr` the pump goes on with the steps
it takes by itself (its drain has a deadline) and whoever has begun to end the run
goes on. The connection owes nothing: `connect_async` and `writer.send` have no
timeout and do not watch `end`, so a handshake or a send may hang for ever, and the
provider may never answer. `MeetingWatch`, `MeetingDetection` and `EditLearning` are checked for safety only.

## Proofs

`ProcessingQueueProofs` (any number of meetings and polls): the inductive
invariant adds to the checked properties that a meeting inside `run()` or the
handler is marked running or detached, that the worker's `current` is the running
one while it spawns, and that the queue holds no duplicate; the lemmas about
`Append` and `Tail` keep it. From it follow type correctness, dedupe, serial
processing and the safety of the pop. Two results need the panic handler to
return (`HandlerMayPanic = FALSE`; a handler that panics takes `finish` with it):
the refinement, proved step by step, and `RunningCorrect`, that a meeting refused
as AlreadyRunning has a worker or a job that will take the mark back.

`DictationProofs` (any number of sessions, any pacing): the invariant `IInv` adds
to the types that a session neither is armed nor holds a permit before it passed
`arm` (`ArmingComesFirst`), that an armed slot has an owner, that a pipeline past
the capture has samples, and that while PROCESSING the last session's stop task
is at work, was not told to stop, and is not looking at a cancelled slot
(`ProcessingInHand`). Without the last, a late task of a cancelled session could
make the stop task of the current one return without resetting the phase.
`CaptureCorrect` joins what follows for the microphone: in every interleaving the
ducking guard and the arbiter follow the capture.

`SoloInv` is what holds, in every interleaving, until an Esc or a start that failed
late has ended a processing stage (`abandoned = {}`): no stop task was cancelled,
only the last session's is at work, and it is armed until it commits. Then one
pipeline is live and only its task resets the phase (`OverlapNeedsEsc`), and an Esc
that does nothing during processing came before `arm` or too late
(`FirstEscIsHeard`). So nothing but an earlier cancellation opens the races that
"Findings" describes.

`QuietCorrect` is of paced sessions (`ASSUME Paced`, any number of sessions), as the
run that checks it is: without pacing a release between the two steps of a stop
leaves the microphone open. Its invariant `PacedInv` follows the stop task of
the last session, which alone is at work (`LastWorks`): its place (`At`) says what is
armed, whether Esc has already told it to stop, and the phase (`CancelFollowsStop`).
A start that is still on its way to the microphone holds the lock, and there is none
while a pipeline runs (`StartsYield`); an Esc in progress meets an open recording or a
stop task that waits (`EscIsPaced`); where phase, microphone and the grabbed Esc
disagree, a start task has steps left to take or a registration of Esc is due
(`PhaseInHand`). `OneLivePipeline`, `OutputIsWanted` and `EscIgnoredOnlyAfterCommit`
of paced sessions are only model-checked: the pacing closes the very instants their
hazards name, and what is true at any pace is in `OverlapNeedsEsc` and
`FirstEscIsHeard`.

The last section of `DictationProofs` (any number of sessions, any pacing) adds
meetings to `IInv`: what a meeting does to the arbiter never makes it say "Dictation", so
`MeetingMovesArbiter` keeps it through the meeting's steps, and dictation's
steps keep the two facts about the meeting, that the arbiter is with it exactly
between its claim and its release, and that the hotkeys are suspended only while a
meeting that got as far or a shortcut recorder will still register them. Besides the arbiter and the hotkeys it follows that ducking
and PROCESSING are safe with meetings beside them; that the arbiter says
"Dictation" whenever the microphone is open is `Alone`, and is proved only
without them.

`LiveTranscriptProofs` (any tracks, texts and bounds): what makes a journal
readable after any cut is that its lines are numbered by their position and that
every prefix of what was ever sent, read by `Load`, gives a segment the text the
log had for it when the last of these lines was sent (`JournalOK`). The lemma
`LoadAppend` says what one more line does to `Load`; each step that sends a line
keeps the invariant by it, the writer only moves lines on. From it follow
`JournalIsAMoment` and, because a writer that ended has drained the channel,
`ClosedJournalIsTheLog`. Of the captions, `CaptionInv` says what the revision in the
worker's hand is to the log (`HandOK`), that a line is never newer than it but for a
speaker's revision (`LinesOK`), that what waits for the verifier is the final
revision of a segment of its own, one below what the verifier will emit (`QueueOK`),
and what an attributed line keeps (`SpeakersOK`); so the two threads' events may come
in either order, and `CaptionsCorrect` is `WindowFollowsLog`. A panel that is mounted
anew knows nothing and was sent nothing, so the invariant holds of it trivially and
is kept from there. It needs that `Nothing`
is no event (`NothingIsNoEvent`).

`EditLearningProofs` (any number of insertions, any texts and edits): the
invariant says of each session what its observer and its rows know of each other
(`InHand`: revisions and candidates in step, the row open while the observer
works, which revision's candidates wait, what was seen is pending or recorded),
and of the surface that sessions are used in order and that a watcher who was told
of every insertion watches its own text (`WatchersKnow`). A step touches one
session; the frame lemmas carry the others. The assumption `EditAssumption`, that
no text is one of the marks of the model (nothing, gone, foreign), only keeps
texts apart from them. The action properties follow step by step:
`DecisionsAreFinal` because no write to a row touches a decided candidate,
`EditsSeenAreRecorded` from what the invariant says of the text seen last.

`MeetingWatchProofs` (any thresholds, countdowns, bounds): what a thread has
measured is tied to the time that passed. The age is judged from a baseline no
later than the last poll, the stop is decided a whole limit after it and time
stands still until it ran (`Aged`); silence grows by one poll at a time or starts
anew (`Silent`); what was measured since the baseline is no older than the
accepted Keep (`Fresh`). The silence of a meeting is the least of its tracks',
whose existence is the well-foundedness of the naturals. The cap follows because
each acknowledged Keep moves the baseline by at most one limit.

`MeetingDetectionProofs` (any applications and inputs, any windows and cooldowns):
what the policy waits for is on its way or has arrived (`PromptInHand`,
`SuggestionInHand`). The poller waits for the main thread with every question, and
the main thread only retracts (`MainInHand`), so that a retraction begun earlier
cannot arrive after the question. The policy leaves `recording` before the main
thread sends anything. Once the tracked input is gone, the inputs known of its application
are among those that were beside it then (`GoneInHand`), for an added one is either
taken over or, the tracked application being in the catalog (`InCatalog`), another
application's. An input that was there beside it is not taken over when the tracked
one goes: the suggestion to stop that follows is in "Findings".
`AddedReads`, `RemovedReads` and `TickReads` say what an input of the policy may
lead to; the steps cite them.

`MeetingLifecycleProofs` (any number of meetings, versions and crashes, any pace):
`Standing` says what each row that is not at rest means. A row that says recording is
the owner's, a command's, on a list of recovery, or was refused the change that ends
it (`Owned`); one in flight has a job with its status still to write or somebody
about to enqueue one (`InGoodHands`), unless its last change of status was refused or
its request was swallowed by a job's tail. `QueueInHand` and `Turns` say that a job
thread belongs to a meeting that the queue holds or has detached, that nothing starts
beside a recording, and that what a command marked or stored is not shown as
recording. The lemmas `Enqueued`, `Failed`,
`StatusSet` and `AudioSet` say what the queue and the store do to it; each action
cites them. It gives `RecordingCorrect`, `ProcessingCorrect`, `MinutesCorrect`, and
`UnservedNeedsDrop`: while no request was swallowed, `InFlightIsServed` holds.
`TranscriptIsOfAudio` and `AudioFollowsRow` are false at any other than the paced
rate (a trim inside a retry), `NoJobWhileRecording` too (a job that recovery
enqueued for a new recording); they stay with TLC.

`RealtimeAsrProofs` (any number of chunks, whatever the modelled provider sends):
a run is two queues in a row, from the provider to the reader and from the reader
to the pump, and `Stream` says of each that it carries the items from one number
to another, each once and in order, a guess of an item before the item. The reader
has read up to some n: the frames carry the items after n, the events those the
pump has not taken (`ReaderOK`), and the reader still awaits what it was told of
beyond n, so that a run it calls complete has all of it. `StreamTail` and
`StreamAppend` say what taking and sending does to a stream; every step of the
reader is one of each. That "done" is the last event, and that a failure is on its
way to the pump until the pump ended by it (`DoneOK`), is why no path of the pump,
the drain's timeout included, calls a failed run a success. What the pump keeps is
numbered by its position (`PumpOK`), so the text is what was said from the
beginning (`TextCorrect`), and a dictation falls back to its samples after any
failure the reader saw (`FailureCorrect`). The assumption `RealtimeAssumption`,
that no item is called `None`, only keeps the two apart.

What stays with TLC: liveness under fairness (`EveryJobGetsItsTurn`,
`ProcessingEnds`, `RunWindsDown`, `StopEnds`, and the fairness in `RefinesSchedule`,
whose steps are proved), which TLAPS cannot prove. The type invariants of the modules with proofs are conjuncts of their inductive invariants
and need no run.

## Findings

The run expected to find a violation documents a disagreement between the code
and its comments; `PROJECT.json` quotes both sides. Modelling met more of them, and
other behaviour worth knowing, which have no run of their own:

- Speech discarded by Esc can be output later (run `dictation_stale_speech`):
  `cancel_recording_inner` (`dictation.rs:1955`) leaves the realtime run; a start
  that finds realtime off or without a key returns from `maybe_start_realtime`
  without replacing it (`dictation.rs:2211`), and the next stop takes it
  (`dictation.rs:2280`). With realtime on, the next start replaces it. The comment
  at `dictation.rs:2259` names cancel among the exits that abort the run.
- A release can leave the microphone open: `dictation_stop` moves the phase to
  PROCESSING, finds the device not open yet (`dictation.rs:2963`) and only then
  stores PHASE_IDLE. A start task that opens the device and makes its final check in
  between sees PROCESSING and returns, and the capture records on in an idle phase;
  the comment at `dictation.rs:2880` covers an Esc there, not a release.
- A registration of the hotkeys that the system refuses (`hotkey.rs:424`,
  `hotkey.rs:477`) is only logged after a meeting (`meeting_cmd.rs:272`): the
  hotkeys stay unregistered until something else registers them.
- An error of `fail_meeting` is dropped or logged (`process.rs:155`,
  `meeting_cmd.rs:938`, `meeting_cmd.rs:1690`, `meeting_cmd.rs:2619`): the row is then
  shown as recording or as being processed until the next launch.
- Captions vanish when the meeting tab is left during a recording: `App.tsx:1218`
  unmounts the panel, and the new one starts with an empty map
  (`MeetingPanel.tsx:1447`); finished lines are not sent again.
- A handshake or a send that hangs keeps a realtime pump and its bridge for ever:
  `connect_async` (`realtime_asr.rs:275`, `realtime_asr.rs:528`) and `writer.send`
  have no timeout and do not watch `end`. The dictation itself falls back after 15 s.
- A meeting that starts while a dictation is opening its device records together
  with it: `start_recording_inner` asks the arbiter only after `audio.start`, and
  logs a refusal without acting on it (`dictation.rs:961`), while
  `mode_arbiter.rs:141` calls the exclusion "a real, enforced invariant" and
  `meeting_cmd.rs:264` sees "zero chance dictation fires mid-meeting". Nothing
  checked here forbids it: `ArbiterFollowsRecorder` is about the arbiter only. A
  shortcut recorder that is closed, or a hotkey setting that is saved, during a
  meeting registers the hotkeys again.
- `PROCESSING_CANCEL` is one slot. An Esc between the phase becoming PROCESSING
  and `arm` finds it unarmed and is ignored (`dictation.rs:2998`), and the late
  pipeline of one session may find the slot armed by the next (`dictation.rs:127`).
- Lines still in the journal's channel when the process dies are lost with their
  batch, which is more than the one the module documentation names
  (`meeting_journal.rs:25`).
- A retry reads the row, asks `is_pending` and sets the status in three steps
  (`meeting_cmd.rs:2389`); a job enqueued and finished in between is overwritten.
- A job is pending until it left the queue, also after its row became ready. A
  trim committed, or a retry marked, just then is dropped by `enqueue`, and its row
  stays Processing until the next launch (`swallowed`).
- Recovery may list a recording that was started while it was still resuming
  earlier jobs, and set its row to processing or failed while it records.
- A draft that ends after its meeting was trimmed describes the old audio.
- A crash after a trim replaced the row leaves the old files; a meeting deleted
  before its row got its path leaves its audio.
- A main-thread command that joins the poller (`meeting_detection.rs:221`) waits
  for a thread that may be asking the main thread whether the window is visible
  (`app_notifications.rs:31`): a prompt decided just when detection is switched off
  makes each wait for the other.
- With two inputs of one application at once (a helper beside the main process) the
  policy tracks the one it saw first: when only that one goes, a stop is suggested
  although the other is live (`App.tsx:774` speaks of the application's input being
  gone).
- The answer to a prompt names no meeting: an Accept clicked just before the
  prompt was replaced accepts the next one. A candidate ignored because another is
  tracked or in cooldown is not reported again while its input lasts.
- A watchdog that decided to stop just before a Keep was accepted still emits
  the stop; and its notice may arrive after a manual stop.
- Completion of an OpenAI run is "commit sent + set empty"
  (`realtime_asr.rs:329`). The item the commit itself creates may be announced
  after the set was seen empty, so what was said last may be missing from a text
  taken as complete.
- `commit_phase` is stored after the commit was sent (`realtime_asr.rs:205`): a
  provider whose last answer is read in between is waited for until the 10 s
  deadline, which the comment there calls "a pure safety net, never the
  completion mechanism".
- `end` and the channel of chunks are two branches of one `select!`
  (`realtime_asr.rs:1287`): chunks captured before the end and not yet taken are
  dropped when the `end` branch wins, although the task is said to flush on `end`
  (`realtime_asr.rs:1182`).
- A close by the provider during the drain counts as the end of a complete run,
  so half a text may be used.
- When the tracked text disappears, candidates that waited for quiescence are
  proposed after a newer, terminal revision was appended
  (`lumen-edit-learning/lib.rs:1154`), although a fresh revision is said to "retire
  every older pending candidate" (`lumen-store/lib.rs:751`). `CandidatesAreCurrent`
  makes an exception for it.
- The last look of a stopped observer sets the pending edit only when the text
  differs from the last revision: a text typed and taken back between two polls
  is then recorded as the terminal revision.
- A surface that is temporarily unavailable makes the observer forget its
  pending edit (`lumen-edit-learning/lib.rs:1125`).
- An insertion the engine is not told of (no surface reserved, or observation
  switched off meanwhile) is read by an observer still at work as the user's edit.
- Switching off the storage of evidence texts sets the flag and then redacts
  (`edit_learning_runtime.rs:326`); a writer that read the flag before and takes
  the store after both leaves a text behind.

## Not modelled

Audio processing, recognition engines, HTTP providers, prompts, the TypeScript
front end, model downloads, permissions and presentation: they are I/O or data
transformations outside the control state described here. In the
meeting lifecycle the optional system track follows the microphone's, and titles,
notes, speakers and annotations are left out. Session intent and the
capsule's notices are left out of `Dictation`, as are the window's own
start/stop/cancel commands, which bypass `PHASE`. The batch recognition providers
are a choice of outcomes; the realtime ones are modelled as an external that
answers in order, with no wire format. Calendar reminders, the settings of the
watchdogs, the catalog file of detection and its decision log are left out. Of edit
learning, `observe_inserted` (which the application does not call), the algorithms
that locate a range, compare texts and extract candidates, the probing of panes,
the redaction of stored texts and the delivery of notices are left out.

## Plan

1. Done: processing queue, dictation, capture exclusion, with proofs of the first two.
2. Done: live transcript and journal, with proofs.
3. Done: meeting lifecycle, watchdogs, detection, realtime recognition, edit
   learning.
4. Hotkey edges and chords, capsule notices, session intent; the speakers of a
   live session.
5. Pane targets, insertion and clipboard.
6. Context capture, secret store, model prewarm.
7. Pure algorithms of the offline pipeline, of the dictionary and of edit
   comparison against reference definitions, in one module of bounded inputs.
8. Done: proofs for the watchdogs, the exclusion of captures, the meeting lifecycle
   and edit learning.
9. Done: proofs for detection, for dictation, for the captions of the live
   transcript, for realtime recognition and, at any pace, for the meeting lifecycle.
