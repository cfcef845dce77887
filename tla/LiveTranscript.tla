--------------------------- MODULE LiveTranscript ---------------------------
(***************************************************************************)
(* The live transcript of one recording (meeting_live.rs), the journal     *)
(* that saves it from a crash (meeting_journal.rs), the log the draft      *)
(* minutes are made from (meeting_draft.rs) and the caption list of the    *)
(* window (MeetingPanel.tsx).                                              *)
(*                                                                         *)
(* Four threads: the live worker, which turns the recognizer's results     *)
(* into revisions of segments; the journal's writer, which appends the     *)
(* worker's lines to a file in synced batches; the verifier, which         *)
(* attributes a finished segment to a speaker later on; and the window,    *)
(* which receives the revisions of both while its meeting tab is shown and *)
(* starts from an empty list when it is shown again.  The process may      *)
(* crash at any step; what recovery then reads is Load(disk).              *)
(*                                                                         *)
(* A segment is <<track, number>>.  What a segment says is a member of     *)
(* Texts, or Silence for a blank result.  Times are left out: they only    *)
(* order the lines that are shown.                                         *)
(***************************************************************************)
EXTENDS Naturals, Sequences

CONSTANTS
    TrackOrder,       \* the tracks of the recording, in the worker's order
    Texts,            \* what the recognizer may hear
    Silence,          \* a blank result
    Nothing,          \* no revision is waiting to be emitted
    MaxUtterances,    \* bound: segments per track
    MaxRevision,      \* bound: revisions of a segment before its final one
    MaxLines,         \* bound: journal lines
    VerifyCapacity    \* EMBED_QUEUE_CAPACITY

Tracks == {TrackOrder[i] : i \in DOMAIN TrackOrder}
Segments == Tracks \X (0 .. MaxUtterances)

(* A revision of a segment, as the window receives it.                     *)
Events == [segment : Tracks \X Nat, revision : Nat, text : Texts \cup {Silence},
           speaker : BOOLEAN]

ASSUME SilenceIsNoText == Silence \notin Texts
ASSUME NothingIsNoEvent == Nothing \notin Events
ASSUME OneTrack == TrackOrder \in Seq(Tracks) /\ TrackOrder # << >>
ASSUME BoundsAreNat ==
    /\ MaxUtterances \in Nat
    /\ MaxRevision \in Nat
    /\ MaxLines \in Nat
    /\ VerifyCapacity \in Nat

VARIABLES
    worker,           \* "running", "flushing", "finishing", "ended"
    unflushed,        \* tracks whose trailing text is still to be flushed
    utterance,        \* SegmentTracker::utterance_idx
    revision,         \* SegmentTracker::revision
    lastText,         \* SegmentTracker::last_text
    toEmit,           \* the revision the worker is about to emit
    log,              \* LiveTranscriptLog: finished segment -> text
    journaling,       \* JournalWriter::tx is there
    seq,              \* JournalWriter::seq
    lastCheckpoint,   \* JournalWriter::last_checkpoint: segment -> text
    channel,          \* lines sent, not yet received by the writer
    batch,            \* lines the writer is writing and syncing
    disk,             \* lines of the file that are durable
    writer,           \* "running", "failed", "ended", or "absent": no file
    verifying,        \* the verifier's queue
    mounted,          \* the window shows the captions
    ui,               \* the window's map: segment -> latest revision
    finals,           \* history: segments of which the captions, since they
                      \* were mounted, were sent the final revision ...
    attributed,       \* ... and those they were sent a speaker for
    crashed,          \* the process is gone
    moments           \* Transcript after each line that was sent

tracker == <<utterance, revision, lastText>>
journal == <<journaling, seq, lastCheckpoint, channel>>
file == <<batch, disk, writer>>
captions == <<mounted, ui, finals, attributed>>
window == <<verifying, captions>>
vars == <<worker, unflushed, tracker, toEmit, log, journal, file, window,
          crashed, moments>>

-----------------------------------------------------------------------------
(* Journal lines.  A final is a line about one segment, a checkpoint one   *)
(* about the unfinished segment of each track; the loader reads both in    *)
(* the same way, so a line is its number and what it says of which         *)
(* segments.                                                               *)

Line(n, says) == [seq |-> n, says |-> says]
About(lines, s) == {i \in DOMAIN lines : s \in DOMAIN lines[i].says}
Mentioned(lines) == UNION {DOMAIN lines[i].says : i \in DOMAIN lines}

(* Mutant: the first line about a segment wins.                            *)
WinnerIsTheFirst(lines, s) ==
    CHOOSE i \in About(lines, s) :
        \A j \in About(lines, s) : lines[j].seq >= lines[i].seq

(* load_journal: per segment the line with the highest number wins, a      *)
(* winning blank means that the segment was retracted.                     *)
Winner(lines, s) ==
    CHOOSE i \in About(lines, s) :
        \A j \in About(lines, s) : lines[j].seq <= lines[i].seq
WinningText(lines, s) == lines[Winner(lines, s)].says[s]
Load(lines) ==
    [s \in {m \in Mentioned(lines) : WinningText(lines, m) # Silence}
        |-> WinningText(lines, s)]

(* LiveTranscriptLog::record_final: a blank text removes the segment.      *)
Note(transcript, segment, text) ==
    [s \in (DOMAIN transcript \ {segment})
                \cup (IF text = Silence THEN {} ELSE {segment})
        |-> IF s = segment THEN text ELSE transcript[s]]

-----------------------------------------------------------------------------
Empty == [s \in {} |-> Silence]
Current(t) == <<t, utterance[t]>>
Finished(s) == s[2] < utterance[s[1]]

(* The worker has nothing in hand and the process is alive.                *)
Free(state) == worker = state /\ toEmit = Nothing /\ ~crashed

Init ==
    /\ worker = "running"
    /\ unflushed = TrackOrder
    /\ utterance = [t \in Tracks |-> 0]
    /\ revision = [t \in Tracks |-> 0]
    /\ lastText = [t \in Tracks |-> Silence]
    /\ toEmit = Nothing
    /\ log = Empty
    /\ journaling \in BOOLEAN           \* the file may fail to open
    /\ seq = 0
    /\ lastCheckpoint = Empty
    /\ channel = << >>
    /\ batch = << >>
    /\ disk = << >>
    /\ writer = IF journaling THEN "running" ELSE "absent"
    /\ verifying = << >>
    /\ mounted = TRUE
    /\ ui = Empty
    /\ finals = {}
    /\ attributed = {}
    /\ crashed = FALSE
    /\ moments = <<Empty>>

(* The transcript as the worker has it: what is finished, and the last     *)
(* checkpoint's text of what is not.                                       *)
Transcript ==
    [s \in DOMAIN log \cup {u \in DOMAIN lastCheckpoint : ~Finished(u)}
        |-> IF s \in DOMAIN log THEN log[s] ELSE lastCheckpoint[s]]

(* JournalWriter::next_seq and send.  Once the writer thread is gone a     *)
(* line is lost, and the first one lost ends the journaling.               *)
Send(says) ==
    IF writer = "absent"
    THEN UNCHANGED <<seq, channel, journaling, moments>>
    ELSE /\ seq' = seq + 1
         /\ IF journaling /\ writer = "running"
            THEN /\ channel' = Append(channel, Line(seq + 1, says))
                 /\ moments' = Append(moments, Transcript')
                 /\ UNCHANGED journaling
            ELSE /\ journaling' = FALSE
                 /\ UNCHANGED <<channel, moments>>

(* SegmentTracker::on_partial: a rolling result that is not blank and has  *)
(* changed is the next revision of the track's segment.                    *)
OnPartial(t, text) ==
    /\ Free("running")
    /\ text # lastText[t]
    /\ revision[t] < MaxRevision
    /\ lastText' = [lastText EXCEPT ![t] = text]
    /\ revision' = [revision EXCEPT ![t] = revision[t] + 1]
    /\ toEmit' = [segment |-> Current(t), revision |-> revision[t] + 1,
                  text |-> text, speaker |-> FALSE]
    /\ UNCHANGED <<worker, unflushed, utterance, log, journal, file, window,
                   crashed, moments>>

(* SegmentTracker::on_endpoint with what run_worker does about its result: *)
(* a segment that was announced or has text is finished, handed to the     *)
(* verifier when it is long enough and there is room, logged and           *)
(* journaled; the revision is emitted after that.                          *)
OnEndpoint(t, text) ==
    /\ revision' = [revision EXCEPT ![t] = 0]
    /\ lastText' = [lastText EXCEPT ![t] = Silence]
    /\ UNCHANGED <<lastCheckpoint, captions>>
    /\ IF revision[t] > 0 \/ text # Silence
       THEN LET final == [segment |-> Current(t), revision |-> revision[t] + 1,
                          text |-> text, speaker |-> FALSE]
            IN /\ utterance' = [utterance EXCEPT ![t] = utterance[t] + 1]
               /\ toEmit' = final
               /\ \/ UNCHANGED verifying
                  \/ /\ text # Silence
                     /\ Len(verifying) < VerifyCapacity
                     /\ verifying' = Append(verifying, final)
               /\ log' = Note(log, Current(t), text)
               /\ Send([s \in {Current(t)} |-> text])
       ELSE UNCHANGED <<utterance, toEmit, verifying, log, seq, channel,
                        journaling, moments>>

Endpoint(t, text) ==
    /\ Free("running")
    /\ utterance[t] < MaxUtterances
    /\ seq < MaxLines
    /\ OnEndpoint(t, text)
    /\ UNCHANGED <<worker, unflushed, file, crashed>>

(* Mutants: a blank final is shown instead of deleting the line, and the   *)
(* last event to arrive is shown instead of the newest.                    *)
ShowKeepsBlank(e) ==
    IF e.segment \in DOMAIN ui /\ ui[e.segment].revision >= e.revision
    THEN ui
    ELSE [s \in DOMAIN ui \cup {e.segment}
            |-> IF s = e.segment THEN e ELSE ui[s]]

(* emit and the listener of LiveTranscript in MeetingPanel.tsx: an event   *)
(* that is not newer than the one shown is ignored, a blank final deletes  *)
(* the line.                                                               *)
Show(e) ==
    IF e.segment \in DOMAIN ui /\ ui[e.segment].revision >= e.revision
    THEN ui
    ELSE [s \in (DOMAIN ui \ {e.segment})
                    \cup (IF e.text = Silence THEN {} ELSE {e.segment})
            |-> IF s = e.segment THEN e ELSE ui[s]]

(* An event nobody listens to is lost.                                     *)
Receive(e) ==
    IF mounted
    THEN /\ ui' = Show(e)
         /\ finals' = finals \cup {s \in {e.segment} : Finished(s)}
         /\ attributed' = attributed \cup {s \in {e.segment} : e.speaker}
         /\ UNCHANGED mounted
    ELSE UNCHANGED captions

(* The meeting tab is left: its panel is unmounted.  The one that is       *)
(* mounted when it is shown again knows no segment.                        *)
Unmount ==
    /\ ~crashed
    /\ mounted
    /\ mounted' = FALSE
    /\ ui' = Empty /\ finals' = {} /\ attributed' = {}
    /\ UNCHANGED <<worker, unflushed, tracker, toEmit, log, journal, file,
                   verifying, crashed, moments>>

Mount ==
    /\ ~crashed
    /\ ~mounted
    /\ mounted' = TRUE
    /\ UNCHANGED <<worker, unflushed, tracker, toEmit, log, journal, file, ui,
                   finals, attributed, verifying, crashed, moments>>

Emit ==
    /\ ~crashed
    /\ toEmit # Nothing
    /\ Receive(toEmit)
    /\ toEmit' = Nothing
    /\ UNCHANGED <<worker, unflushed, tracker, log, journal, file, verifying,
                   crashed, moments>>

(* run_verifier: the oldest finished segment gets a speaker, as a revision *)
(* of its own, or is passed over.                                          *)
Verify ==
    /\ ~crashed
    /\ verifying # << >>
    /\ verifying' = Tail(verifying)
    /\ \/ UNCHANGED captions
       \/ LET job == Head(verifying)
          IN Receive([job EXCEPT !.revision = job.revision + 1, !.speaker = TRUE])
    /\ UNCHANGED <<worker, unflushed, tracker, toEmit, log, journal, file,
                   crashed, moments>>

(* current_partials and JournalWriter::checkpoint.  Partials equal to the  *)
(* last ones are skipped; a partial's end moves with the audio, so one of  *)
(* the same text need not be equal.                                        *)
Announced == {t \in Tracks : revision[t] > 0}
Partials == [s \in {Current(t) : t \in Announced} |-> lastText[s[1]]]

Checkpoint ==
    /\ Free("running")
    /\ writer # "absent"
    /\ seq < MaxLines
    /\ Partials # lastCheckpoint \/ Announced # {}
    /\ lastCheckpoint' = Partials
    /\ UNCHANGED <<worker, unflushed, tracker, toEmit, log, file, window, crashed>>
    /\ Send(Partials)

(* MeetingLive::stop, or the mic's sender is dropped.                      *)
Stop ==
    /\ Free("running")
    /\ worker' = "flushing"
    /\ UNCHANGED <<unflushed, tracker, toEmit, log, journal, file, window,
                   crashed, moments>>

(* The flush of run_worker, one track after the other.                     *)
Flush(text) ==
    /\ Free("flushing")
    /\ unflushed # << >>
    /\ OnEndpoint(Head(unflushed), text)
    /\ unflushed' = Tail(unflushed)
    /\ UNCHANGED <<worker, file, crashed>>

(* journal.finish: the sender is dropped, the worker waits for the writer. *)
Finish ==
    /\ Free("flushing")
    /\ unflushed = << >>
    /\ worker' = "finishing"
    /\ journaling' = FALSE
    /\ UNCHANGED <<unflushed, tracker, toEmit, log, seq, lastCheckpoint,
                   channel, file, window, crashed, moments>>

EndWaitsForSuccess ==               \* mutant: a failed writer is awaited
    /\ Free("finishing")
    /\ writer \in {"ended", "absent"}
    /\ verifying = << >>
    /\ worker' = "ended"
    /\ UNCHANGED <<unflushed, tracker, toEmit, log, journal, file, window,
                   crashed, moments>>

(* The writer is joined and the verifier has emptied its queue.            *)
End ==
    /\ Free("finishing")
    /\ writer # "running"
    /\ verifying = << >>
    /\ worker' = "ended"
    /\ UNCHANGED <<unflushed, tracker, toEmit, log, journal, file, window,
                   crashed, moments>>

-----------------------------------------------------------------------------
(* run_writer.                                                             *)
WriterTakes ==
    /\ ~crashed
    /\ writer = "running" /\ batch = << >> /\ channel # << >>
    /\ batch' = channel
    /\ channel' = << >>
    /\ UNCHANGED <<worker, unflushed, tracker, toEmit, log, journaling, seq,
                   lastCheckpoint, disk, writer, window, crashed, moments>>

WriterSyncs ==
    /\ ~crashed
    /\ writer = "running" /\ batch # << >>
    /\ disk' = disk \o batch
    /\ batch' = << >>
    /\ UNCHANGED <<worker, unflushed, tracker, toEmit, log, journal, writer,
                   window, crashed, moments>>

(* The first I/O error ends the thread; any part of the batch may be on    *)
(* the disk.                                                               *)
WriterFails ==
    /\ ~crashed
    /\ writer = "running" /\ batch # << >>
    /\ \E n \in 0 .. Len(batch) : disk' = disk \o SubSeq(batch, 1, n)
    /\ batch' = << >>
    /\ channel' = << >>
    /\ writer' = "failed"
    /\ UNCHANGED <<worker, unflushed, tracker, toEmit, log, journaling, seq,
                   lastCheckpoint, window, crashed, moments>>

WriterEndsWithoutDraining ==        \* mutant: what was queued is dropped
    /\ ~crashed
    /\ writer = "running" /\ batch = << >> /\ ~journaling
    /\ writer' = "ended"
    /\ UNCHANGED <<worker, unflushed, tracker, toEmit, log, journal, batch,
                   disk, window, crashed, moments>>

(* The sender is gone and everything sent has been written.                *)
WriterEnds ==
    /\ ~crashed
    /\ writer = "running" /\ batch = << >> /\ channel = << >> /\ ~journaling
    /\ writer' = "ended"
    /\ UNCHANGED <<worker, unflushed, tracker, toEmit, log, journal, batch,
                   disk, window, crashed, moments>>

(* A crash keeps any part of the batch that was being written; its last    *)
(* line may be cut, and read_records skips that one.  recover_one_meeting  *)
(* then drafts minutes from Load(disk).                                    *)
Crash ==
    /\ ~crashed
    /\ worker # "ended"
    /\ crashed' = TRUE
    /\ \E n \in 0 .. Len(batch) : disk' = disk \o SubSeq(batch, 1, n)
    /\ UNCHANGED <<worker, unflushed, tracker, toEmit, log, journal, batch,
                   writer, window, moments>>

-----------------------------------------------------------------------------
WorkerStep ==
    \/ Emit
    \/ Finish
    \/ End
    \/ \E text \in Texts \cup {Silence} : Flush(text)

WriterStep == WriterTakes \/ WriterSyncs \/ WriterFails \/ WriterEnds

Next ==
    \/ WorkerStep
    \/ WriterStep
    \/ Verify
    \/ Unmount \/ Mount
    \/ Checkpoint
    \/ Stop
    \/ Crash
    \/ \E t \in Tracks, text \in Texts : OnPartial(t, text)
    \/ \E t \in Tracks, text \in Texts \cup {Silence} : Endpoint(t, text)

Fairness == WF_vars(WorkerStep) /\ WF_vars(WriterStep) /\ WF_vars(Verify)

Spec == Init /\ [][Next]_vars
LiveSpec == Spec /\ Fairness
-----------------------------------------------------------------------------
(* The types of the state.                                                 *)
TypeOK ==
    /\ worker \in {"running", "flushing", "finishing", "ended"}
    /\ unflushed \in Seq(Tracks)
    /\ utterance \in [Tracks -> Nat]
    /\ revision \in [Tracks -> Nat]
    /\ lastText \in [Tracks -> Texts \cup {Silence}]
    /\ toEmit = Nothing \/ toEmit \in Events
    /\ DOMAIN log \subseteq Tracks \X Nat
    /\ \A s \in DOMAIN log : log[s] \in Texts
    /\ journaling \in BOOLEAN
    /\ seq \in Nat
    /\ writer \in {"running", "failed", "ended", "absent"}
    /\ mounted \in BOOLEAN
    /\ finals \subseteq Segments /\ attributed \subseteq finals
    /\ crashed \in BOOLEAN

(* Whatever part of the journal is on the disk, reading it gives the       *)
(* transcript exactly as the worker had it after that many lines: finished *)
(* segments with their final text, retracted ones gone, and unfinished     *)
(* ones as last checkpointed (load_journal; a partial counts unless a      *)
(* higher line replaced it).                                               *)
JournalIsAMoment == Load(disk) = moments[Len(disk) + 1]

(* A recording that stopped normally, with a journal that could be         *)
(* written, has left in it the very lines the draft is made from           *)
(* (JournalWriter::finish: every segment is final now).                    *)
ClosedJournalIsTheLog ==
    worker = "ended" /\ writer = "ended" => Load(disk) = log

(* What the captions show of a finished segment, once its revision has     *)
(* been emitted, is the text the draft will have, and nothing when it was  *)
(* retracted; and they do show it if its final revision reached them,      *)
(* whatever the verifier emits and in whatever order.  A line finished     *)
(* before they were mounted is not shown at all: nothing tells the panel   *)
(* what it missed.                                                         *)
WindowAgreesWithLog ==
    \A s \in Segments :
        /\ Finished(s)
        /\ toEmit = Nothing \/ toEmit.segment # s
        => /\ s \in DOMAIN ui => s \in DOMAIN log /\ ui[s].text = log[s]
           /\ s \in DOMAIN log \cap finals => s \in DOMAIN ui

(* A speaker that was attributed stays on the line: the verifier may       *)
(* overtake the worker's own final revision, which must not wipe it.       *)
AttributionIsKept ==
    \A s \in attributed : s \in DOMAIN ui /\ ui[s].speaker

(* The captions have what they were sent as the log has it, with the       *)
(* speakers attributed, in whatever order the two threads' events arrive.  *)
WindowFollowsLog == WindowAgreesWithLog /\ AttributionIsKept

(* Stopping always comes to an end: the flush, the writer and the verifier *)
(* all finish, also when the disk fails (stop_meeting_recording waits).    *)
StopEnds == [](worker = "flushing" => <>(worker = "ended" \/ crashed))
=============================================================================
