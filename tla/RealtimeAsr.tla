------------------------------ MODULE RealtimeAsr ------------------------------
(***************************************************************************)
(* One realtime recognition run (realtime_asr.rs) of a dictation or of a   *)
(* meeting track.  A bridge thread moves captured chunks to the pump, the  *)
(* pump sends them to the provider and collects what it finalized, a       *)
(* reader task turns the provider's frames into events, and whoever ends   *)
(* the recording signals the end and waits for the outcome                 *)
(* (dictation.rs, meeting_cmd.rs).                                         *)
(*                                                                         *)
(* Speech is a number of chunks; the provider cuts it into items, and a    *)
(* text is the sequence of the items it is made of.  The provider and the  *)
(* connection are external: frames arrive in order, items are answered in  *)
(* order, anything may fail or stay away.                                  *)
(***************************************************************************)
EXTENDS Naturals, Sequences

CONSTANTS
    MaxChunks,   \* bound: chunks captured in a run
    None

ASSUME RealtimeAssumption == MaxChunks \in Nat /\ None \notin Nat

Chunks == 0 .. MaxChunks
Item == 1 .. MaxChunks

VARIABLES
    kind,        \* "dictation" or "meeting"
    engine,      \* "openai_audio" or "volcengine"
    recording,   \* the recorder captures
    spoken,      \* chunks captured so far
    tap,         \* the sender of the live tap exists
    ended,       \* `end` was sent or dropped
    owner,       \* where the one who ends the run is
    result,      \* what the owner made of the run
    pump,        \* where the pump task is
    taken,       \* chunks the pump received
    sent,        \* chunks it sent; the rest is pcm16_buffer
    commit,      \* the commit: "unsent", "sent" or "heard"
    commitPhase, \* commit_phase
    collected,   \* utterances of the pump loop
    drained,     \* utterances of finish_with
    trailing,    \* trailing_partial
    outcome,     \* what the pump task delivers
    reader,      \* "reading", "finished" (is_complete), "closed" or "failed"
    awaiting,    \* awaiting_done
    named,       \* history: items the reader has heard of
    events,      \* the channel from the reader
    frames,      \* frames on their way from the provider
    provider,    \* "up", "failed" (an error was reported), "closed" or "broken"
    heard,       \* chunks that reached the provider
    cuts,        \* last chunk of each item it committed
    begun,       \* it announced the item it is hearing
    shown,       \* items it sent a delta of
    answered     \* items it transcribed

ownerVars == <<kind, engine, recording, spoken, tap, ended, owner, result>>
pumpVars == <<pump, taken, sent, commit, commitPhase, collected, drained,
              trailing, outcome>>
readerVars == <<reader, awaiting, named>>
providerVars == <<provider, heard, cuts, begun, shown, answered>>
vars == <<ownerVars, pumpVars, readerVars, events, frames, providerVars>>

NoOutcome == [state |-> "none", by |-> "none", text |-> <<>>]

Init ==
    /\ kind \in {"dictation", "meeting"}
    /\ engine \in {"openai_audio", "volcengine"}
    /\ recording = TRUE /\ spoken = 0 /\ tap = TRUE /\ ended = FALSE
    /\ owner = "recording" /\ result = NoOutcome
    /\ pump = "connecting" /\ taken = 0 /\ sent = 0
    /\ commit = "unsent" /\ commitPhase = FALSE
    /\ collected = <<>> /\ drained = <<>> /\ trailing = None
    /\ outcome = NoOutcome
    /\ reader = "reading" /\ awaiting = {} /\ named = {}
    /\ events = <<>> /\ frames = <<>>
    /\ provider = "up" /\ heard = 0 /\ cuts = <<>> /\ begun = FALSE
    /\ shown = 0 /\ answered = 0

-----------------------------------------------------------------------------
(* The pump *)

PumpAt(from, to) == pump = from /\ pump' = to

\* Mutant: what was finalized during the speech is put last.
MergedLate(state) == drained \o collected

\* The outcome of the task: the pump's own utterances come before what the
\* final drain produced, and a partial is the text only when there is no other.
\* A meeting keeps its utterances on any exit.
Merged(state) ==
    IF kind = "meeting" \/ collected \o drained # <<>> \/ trailing = None
    THEN collected \o (IF state = "ok" THEN drained ELSE <<>>)
    ELSE <<trailing>>

Over(state, by) ==
    /\ pump' = "over"
    /\ outcome' = [state |-> state, by |-> by,
                   text |-> IF state = "ok" \/ kind = "meeting"
                            THEN Merged(state) ELSE <<>>]

\* What is sent into a connection that is gone is lost until the reader sees it.
CanSend == provider \in {"up", "failed"} \/ reader = "reading"

Connects ==
    /\ PumpAt("connecting", "pumping")
    /\ UNCHANGED <<ownerVars, taken, sent, commit, commitPhase, collected, drained,
                   trailing, outcome, readerVars, events, frames, providerVars>>

ConnectFails ==
    /\ pump = "connecting"
    /\ Over("failed", "connect")
    /\ UNCHANGED <<ownerVars, taken, sent, commit, commitPhase, collected, drained,
                   trailing, readerVars, events, frames, providerVars>>

PumpTakesChunk ==
    /\ taken < spoken
    /\ PumpAt("pumping", "sending")
    /\ taken' = taken + 1
    /\ UNCHANGED <<ownerVars, sent, commit, commitPhase, collected, drained, trailing,
                   outcome, readerVars, events, frames, providerVars>>

\* A chunk is resampled and sent in pieces of 100 ms; a remainder stays.
SendsChunk ==
    /\ PumpAt("sending", "polling")
    /\ sent' \in IF CanSend THEN sent .. taken ELSE {sent}
    /\ UNCHANGED <<ownerVars, taken, commit, commitPhase, collected, drained, trailing,
                   outcome, readerVars, events, frames, providerVars>>

\* send_audio or the commit fails on a connection that is gone.
SendFails ==
    /\ provider \in {"closed", "broken"}
    /\ \/ pump = "sending"
       \/ pump = "flushing" /\ sent < taken
       \/ pump = "committing"
    /\ Over("failed", "send")
    /\ UNCHANGED <<ownerVars, taken, sent, commit, commitPhase, collected, drained,
                   trailing, readerVars, events, frames, providerVars>>

\* Mutant: a failure while the user speaks is passed over.
PumpSkipsFailure ==
    /\ pump = "polling"
    /\ events # <<>>
    /\ events' = Tail(events)
    /\ collected' = IF Head(events).type = "utterance"
                      THEN Append(collected, Head(events).item) ELSE collected
    /\ UNCHANGED <<ownerVars, pump, taken, sent, commit, commitPhase, drained,
                   trailing, outcome, readerVars, frames, providerVars>>

\* try_recv until the channel is empty.
PumpTakesEvent ==
    /\ pump = "polling"
    /\ events # <<>>
    /\ events' = Tail(events)
    /\ LET e == Head(events) IN
         \/ e.type \in {"partial", "done"} /\ UNCHANGED <<pump, collected, outcome>>
         \/ /\ e.type = "utterance"
            /\ collected' = Append(collected, e.item)
            /\ UNCHANGED <<pump, outcome>>
         \/ /\ e.type = "failed"
            /\ Over("failed", "event")
            /\ UNCHANGED collected
    /\ UNCHANGED <<ownerVars, taken, sent, commit, commitPhase, drained, trailing,
                   readerVars, frames, providerVars>>

PumpLoops ==
    /\ PumpAt("polling", "pumping")
    /\ events = <<>>
    /\ UNCHANGED <<ownerVars, taken, sent, commit, commitPhase, collected, drained,
                   trailing, outcome, readerVars, events, frames, providerVars>>

\* select! takes either branch when both are ready: the end may come before
\* chunks that were captured earlier.
PumpEnds ==
    /\ PumpAt("pumping", "flushing")
    /\ ended \/ (~tap /\ taken = spoken)
    /\ UNCHANGED <<ownerVars, taken, sent, commit, commitPhase, collected, drained,
                   trailing, outcome, readerVars, events, frames, providerVars>>

FlushesTail ==
    /\ PumpAt("flushing", "committing")
    /\ CanSend \/ sent = taken
    /\ sent' = taken
    /\ UNCHANGED <<ownerVars, taken, commit, commitPhase, collected, drained,
                   trailing, outcome, readerVars, events, frames, providerVars>>

\* finish_with: the commit is sent, then commit_phase is stored.
Commits ==
    /\ PumpAt("committing", "committed")
    /\ CanSend
    /\ commit' = "sent"
    /\ UNCHANGED <<ownerVars, taken, sent, commitPhase, collected, drained, trailing,
                   outcome, readerVars, events, frames, providerVars>>

EntersCommitPhase ==
    /\ PumpAt("committed", "draining")
    /\ commitPhase' = TRUE
    /\ UNCHANGED <<ownerVars, taken, sent, commit, collected, drained, trailing,
                   outcome, readerVars, events, frames, providerVars>>

DrainsEvent ==
    /\ pump = "draining"
    /\ events # <<>>
    /\ events' = Tail(events)
    /\ LET e == Head(events) IN
         \/ /\ e.type = "partial"
            /\ trailing' = e.item
            /\ UNCHANGED <<pump, drained, outcome>>
         \/ /\ e.type = "utterance"
            /\ drained' = Append(drained, e.item)
            /\ UNCHANGED <<pump, trailing, outcome>>
         \/ /\ e.type = "done"
            /\ Over("ok", "event")
            /\ UNCHANGED <<drained, trailing>>
         \/ /\ e.type = "failed"
            /\ Over("failed", "event")
            /\ UNCHANGED <<drained, trailing>>
    /\ UNCHANGED <<ownerVars, taken, sent, commit, commitPhase, collected,
                   readerVars, frames, providerVars>>

\* The channel is closed, or no event came for the deadline.
DrainEnds ==
    /\ pump = "draining"
    /\ events = <<>>
    /\ Over("ok", IF reader = "reading" THEN "deadline" ELSE "event")
    /\ UNCHANGED <<ownerVars, taken, sent, commit, commitPhase, collected, drained,
                   trailing, readerVars, events, frames, providerVars>>

\* The bridge sits in tap.recv(): it ends when the tap is dropped or when it
\* cannot pass the next chunk on.  Joining it blocks the task.
JoinsBridge ==
    /\ PumpAt("over", "done")
    /\ ~tap \/ recording
    /\ UNCHANGED <<ownerVars, taken, sent, commit, commitPhase, collected, drained,
                   trailing, outcome, readerVars, events, frames, providerVars>>

\* What the connection answers: the handshake and every send are awaited without
\* a timeout and without a look at `end`.
WireStep ==
    \/ Connects \/ ConnectFails
    \/ SendsChunk \/ SendFails \/ FlushesTail \/ Commits

\* What the pump does by itself, or by the deadline of the drain.
PumpStepsAlone ==
    \/ PumpTakesChunk \/ PumpTakesEvent \/ PumpLoops \/ PumpEnds
    \/ sent = taken /\ FlushesTail
    \/ EntersCommitPhase \/ DrainsEvent \/ DrainEnds
    \/ JoinsBridge

PumpStep == WireStep \/ PumpStepsAlone

-----------------------------------------------------------------------------
(* The reader *)

Event(t) == [type |-> t, item |-> None]
EventOf(t, i) == [type |-> t, item |-> i]

Reads(t) ==
    /\ reader = "reading"
    /\ pump \notin {"over", "done"}
    /\ frames # <<>>
    /\ Head(frames).type = t
    /\ frames' = Tail(frames)
    /\ UNCHANGED <<ownerVars, pumpVars, providerVars>>

\* Done, when our commit is out and no item is awaited.
Completes(awaited, pushed) ==
    IF commitPhase /\ awaited = {}
    THEN reader' = "finished" /\ events' = events \o pushed \o <<Event("done")>>
    ELSE reader' = reader /\ events' = events \o pushed

\* speech_started and committed name an item, a delta does and shows it.
ReadsItem ==
    \/ /\ Reads("named")
       /\ awaiting' = awaiting \cup {Head(frames).item}
       /\ named' = named \cup {Head(frames).item}
       /\ UNCHANGED <<reader, events>>
    \/ /\ Reads("delta")
       /\ awaiting' = awaiting \cup {Head(frames).item}
       /\ named' = named \cup {Head(frames).item}
       /\ events' = Append(events, EventOf("partial", Head(frames).item))
       /\ UNCHANGED reader

ReadsCompleted ==
    /\ Reads("completed")
    /\ awaiting' = awaiting \ {Head(frames).item}
    /\ Completes(awaiting \ {Head(frames).item},
                 <<EventOf("utterance", Head(frames).item)>>)
    /\ UNCHANGED named

\* The commit found the buffer drained: "buffer too small" is no failure.
ReadsTooSmall ==
    /\ Reads("too_small")
    /\ Completes(awaiting, <<>>)
    /\ UNCHANGED <<awaiting, named>>

ReadsEnd ==
    /\ \/ Reads("close") /\ reader' = "closed"
          /\ events' = Append(events, Event("done"))
       \/ Reads("failed") /\ reader' = "failed"
          /\ events' = events \o <<Event("failed"), Event("done")>>
    /\ UNCHANGED <<awaiting, named>>

\* Volcengine sends the text so far with every result, and the whole of it with
\* the last: one item that no other event names.
ReadsResult ==
    \/ /\ Reads("text")
       /\ events' = Append(events, EventOf("partial", Head(frames).item))
       /\ UNCHANGED readerVars
    \/ /\ Reads("last")
       /\ reader' = "finished"
       /\ named' = {Head(frames).item} \ {None}
       /\ events' = events
                \o (IF Head(frames).item = None THEN <<>>
                    ELSE <<EventOf("utterance", Head(frames).item)>>)
                \o <<Event("done")>>
       /\ UNCHANGED awaiting

ReaderStep ==
    ReadsItem \/ ReadsCompleted \/ ReadsTooSmall \/ ReadsEnd \/ ReadsResult

-----------------------------------------------------------------------------
(* The provider *)

Frame(t, i) == [type |-> t, item |-> i]
LastCut == IF cuts = <<>> THEN 0 ELSE cuts[Len(cuts)]

Provider ==
    /\ provider = "up"
    /\ pump \notin {"connecting", "over", "done"}
    /\ UNCHANGED <<ownerVars, pumpVars, readerVars, events>>

ProviderHears ==
    /\ Provider
    /\ heard < sent
    /\ heard' = heard + 1
    /\ UNCHANGED <<frames, provider, cuts, begun, shown, answered>>

\* Voice activity is detected: the item it will be is announced.
ProviderAnnounces ==
    /\ Provider
    /\ engine = "openai_audio"
    /\ heard > LastCut /\ ~begun
    /\ begun' = TRUE
    /\ frames' = Append(frames, Frame("named", Len(cuts) + 1))
    /\ UNCHANGED <<provider, heard, cuts, shown, answered>>

\* At a pause, or at our commit, an item is committed.
ProviderCuts ==
    /\ heard > LastCut
    /\ cuts' = Append(cuts, heard)
    /\ begun' = FALSE
    /\ frames' = Append(frames, Frame("named", Len(cuts) + 1))

ProviderCutsAtPause ==
    /\ Provider
    /\ begun
    /\ ProviderCuts
    /\ UNCHANGED <<provider, heard, shown, answered>>

ProviderHearsCommit ==
    /\ engine = "openai_audio"
    /\ provider = "up"
    /\ pump \notin {"over", "done"}
    /\ commit = "sent" /\ heard = sent
    /\ commit' = "heard"
    /\ \/ ProviderCuts
       \/ /\ heard = LastCut
          /\ frames' = Append(frames, Frame("too_small", None))
          /\ UNCHANGED <<cuts, begun>>
    /\ UNCHANGED <<ownerVars, pump, taken, sent, commitPhase, collected, drained,
                   trailing, outcome, readerVars, events, provider, heard, shown,
                   answered>>

\* Volcengine: results come while it hears, the last after the negated sequence.
ProviderResults ==
    /\ Provider
    /\ engine = "volcengine"
    /\ answered = 0
    /\ \/ /\ heard > 0 /\ shown = 0
          /\ shown' = 1
          /\ frames' = Append(frames, Frame("text", 1))
          /\ UNCHANGED <<cuts, answered>>
       \/ /\ commit = "sent" /\ heard = sent
          /\ answered' = 1
          /\ cuts' = IF heard = 0 THEN <<>> ELSE <<heard>>
          /\ frames' = Append(frames, Frame("last", IF heard = 0 THEN None ELSE 1))
          /\ UNCHANGED shown
    /\ UNCHANGED <<provider, heard, begun>>

ProviderAnswers ==
    /\ Provider
    /\ engine = "openai_audio"
    /\ answered < Len(cuts)
    /\ \/ /\ shown = answered
          /\ shown' = answered + 1
          /\ frames' = Append(frames, Frame("delta", answered + 1))
          /\ UNCHANGED answered
       \/ /\ answered' = answered + 1
          /\ shown' = answered + 1
          /\ frames' = Append(frames, Frame("completed", answered + 1))
    /\ UNCHANGED <<provider, heard, cuts, begun>>

ProviderGoes ==
    /\ Provider
    /\ \/ provider' = "closed" /\ frames' = Append(frames, Frame("close", None))
       \/ provider' \in {"failed", "broken"}
          /\ frames' = Append(frames, Frame("failed", None))
    /\ UNCHANGED <<heard, cuts, begun, shown, answered>>

ProviderStep ==
    \/ ProviderHears \/ ProviderAnnounces \/ ProviderCutsAtPause
    \/ ProviderHearsCommit \/ ProviderAnswers \/ ProviderResults \/ ProviderGoes

-----------------------------------------------------------------------------
(* The recording and whoever ends it *)

Owner(from, to) ==
    /\ owner = from /\ owner' = to
    /\ UNCHANGED <<kind, engine, spoken, pumpVars, readerVars, events, frames, providerVars>>

Speaks ==
    /\ recording /\ spoken < MaxChunks
    /\ spoken' = spoken + 1
    /\ UNCHANGED <<kind, engine, recording, tap, ended, owner, result, pumpVars,
                   readerVars, events, frames, providerVars>>

\* The recorder stops; a meeting's fan-out drops the taps with it.
Stops ==
    /\ Owner("recording", "stopped")
    /\ recording' = FALSE
    /\ tap' = (kind = "dictation")
    /\ UNCHANGED <<ended, result>>

\* finish_realtime: set_live_tap(None), then `end`, then the outcome.
FinishDropsTap ==
    /\ Owner("stopped", "finishing")
    /\ tap' = FALSE
    /\ UNCHANGED <<recording, ended, result>>

FinishSignals ==
    /\ Owner("finishing", "waiting")
    /\ ended' = TRUE
    /\ UNCHANGED <<recording, tap, result>>

\* A dictation uses a text that is not empty, else the samples go through the
\* batch pipeline; a meeting takes the utterances there are.
Answer(o) ==
    IF kind = "meeting" THEN [state |-> "ok", by |-> o.by, text |-> o.text]
    ELSE IF o.state = "ok" /\ o.text # <<>> THEN o
    ELSE [state |-> "batch", by |-> o.by, text |-> <<>>]

FinishReceives ==
    /\ Owner("waiting", "over")
    /\ pump = "done"
    /\ result' = Answer(outcome)
    /\ UNCHANGED <<recording, tap, ended>>

FinishTimesOut ==
    /\ Owner("waiting", "over")
    /\ pump # "done"
    /\ result' = Answer([state |-> "failed", by |-> "timeout",
                         text |-> IF pump = "over" THEN outcome.text ELSE collected])
    /\ UNCHANGED <<recording, tap, ended>>

\* abort_realtime drops the handle, then the tap.
AbortSignals ==
    /\ kind = "dictation"
    /\ Owner("stopped", "aborting")
    /\ ended' = TRUE
    /\ UNCHANGED <<recording, tap, result>>

\* Mutant: the tap of the aborted run stays installed.
AbortForgetsTap ==
    /\ Owner("aborting", "over")
    /\ UNCHANGED <<recording, tap, ended, result>>

AbortDropsTap ==
    /\ Owner("aborting", "over")
    /\ tap' = FALSE
    /\ UNCHANGED <<recording, ended, result>>

\* cancel_recording_inner leaves the run alone; the next start replaces the tap
\* and then the handle.
Cancels ==
    /\ kind = "dictation"
    /\ Owner("recording", "cancelled")
    /\ recording' = FALSE
    /\ UNCHANGED <<tap, ended, result>>

NextStartReplacesTap ==
    /\ Owner("cancelled", "replacing")
    /\ tap' = FALSE
    /\ UNCHANGED <<recording, ended, result>>

NextStartReplacesHandle ==
    /\ Owner("replacing", "over")
    /\ ended' = TRUE
    /\ UNCHANGED <<recording, tap, result>>

EndsRun ==
    \/ FinishDropsTap \/ FinishSignals \/ FinishReceives \/ FinishTimesOut
    \/ AbortDropsTap \/ NextStartReplacesHandle

OwnerStep ==
    EndsRun \/ Speaks \/ Stops \/ AbortSignals \/ Cancels \/ NextStartReplacesTap

Next == PumpStep \/ ReaderStep \/ ProviderStep \/ OwnerStep

\* The pump and whoever ends the run go on, and the waits that have a deadline
\* end.  Nobody has to speak, stop or answer, and a connect or a send may hang.
Fairness == WF_vars(PumpStepsAlone) /\ WF_vars(EndsRun)

Spec == Init /\ [][Next]_vars /\ Fairness

-----------------------------------------------------------------------------
InOrder(text) == \A i \in 1 .. Len(text) : text[i] = i

\* Whatever part of the run a text comes from (the pump loop, the final drain,
\* a trailing partial, a timeout), it is what was said from the beginning on,
\* each item once and none skipped; when the reader declares the run complete,
\* every item it was told of is there.
TextIsWhatWasHeard ==
    /\ InOrder(outcome.text) /\ InOrder(result.text)
    /\ outcome.state = "ok" /\ reader = "finished" /\ outcome.by = "event" =>
          named \subseteq 1 .. Len(outcome.text)

\* A failure the reader saw reaches the dictation, which then transcribes the
\* samples instead of inserting half a text, whenever the failure came: while
\* the user spoke, with chunks under way, or after the commit.
FailureFallsBack ==
    kind = "dictation" /\ reader = "failed" =>
        outcome.state # "ok" /\ result.state # "ok"

\* The pump waits for the connection.
OnTheWire ==
    \/ pump \in {"connecting", "sending", "committing"}
    \/ pump = "flushing" /\ sent < taken

\* A run that was told to end winds down, finished, aborted or replaced, and does
\* not keep the runtime's thread joining a bridge nobody feeds: only a handshake
\* or a send that hangs for ever keeps it, and even then whoever ended the
\* recording gets an answer.
RunWindsDown ==
    /\ <>[]OnTheWire \/ (ended ~> pump = "done")
    /\ owner = "waiting" ~> owner = "over"
==============================================================================
