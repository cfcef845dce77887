--------------------------- MODULE ProcessingQueue ---------------------------
(***************************************************************************)
(* The serial queue of offline meeting processing (meeting_queue.rs): the  *)
(* callers that enqueue a meeting, the one worker thread, the thread each  *)
(* job runs on, the recording gate and the job budget.                     *)
(*                                                                         *)
(* The queue's mutex makes enqueue, the pop of take_next, finish and       *)
(* detach atomic; everything the worker or a job does between two of them  *)
(* (reading the gate, spawning, waiting for the reply) is a step of its    *)
(* own.  Durations are abstracted: GATE_MAX_WAIT is MaxPolls polls of the  *)
(* gate, and a job may exceed its budget at any time.                      *)
(***************************************************************************)
EXTENDS Naturals, Sequences

CONSTANTS Meeting,          \* the meetings that can be submitted
          None,             \* Option::None
          MaxPolls,         \* GATE_MAX_WAIT / GATE_POLL
          HandlerMayPanic   \* may on_panic itself panic?

ASSUME NoneAssumption == None \notin Meeting
ASSUME MaxPollsAssumption == MaxPolls \in Nat
ASSUME HandlerAssumption == HandlerMayPanic \in BOOLEAN

VARIABLES pending,    \* State::pending, in submission order
          running,    \* State::running
          detached,   \* State::detached
          worker,     \* where the worker thread is in its loop
          current,    \* the meeting of this turn of the worker's loop
          polls,      \* polls of the gate since the worker took up the head
          reply,      \* the done channel of this turn's job
          body,       \* per meeting, how many threads are inside run()
          handler,    \* per meeting, how many threads are inside on_panic()
          recording   \* what the gate reports

queueVars  == <<pending, running, detached>>
workerVars == <<worker, current, polls>>
jobVars    == <<reply, body, handler>>
vars == <<queueVars, workerVars, jobVars, recording>>

WorkerPC == {"take", "gate", "pop", "spawn", "unspawned", "recv", "overdue",
             "dead"}

TypeOK ==
    /\ pending \in Seq(Meeting)
    /\ running \in Meeting \cup {None}
    /\ detached \subseteq Meeting
    /\ worker \in WorkerPC
    /\ current \in Meeting \cup {None}
    /\ polls \in 0..MaxPolls
    /\ reply \in {"open", "unsent", "sent", "closed"}
    /\ body \in [Meeting -> Nat]
    /\ handler \in [Meeting -> Nat]
    /\ recording \in BOOLEAN

Init ==
    /\ pending = <<>>
    /\ running = None
    /\ detached = {}
    /\ worker = "take"
    /\ current = None
    /\ polls = 0
    /\ reply = "open"
    /\ body = [m \in Meeting |-> 0]
    /\ handler = [m \in Meeting |-> 0]
    /\ recording = FALSE

-----------------------------------------------------------------------------
Queued(m) == \E i \in 1..Len(pending) : pending[i] = m

\* Mutant: dedupe forgets the jobs past their budget.
IsRunningNotDetached(m) == running = m

IsRunning(m) == running = m \/ m \in detached

\* What is_pending answers.
IsPending(m) == IsRunning(m) \/ Queued(m)

\* Mutant: only the running job is looked at.
EnqueueTwice(m) ==
    /\ ~IsRunning(m)
    /\ pending' = Append(pending, m)
    /\ UNCHANGED <<running, detached, workerVars, jobVars, recording>>

\* An accepted submission; a refused one (AlreadyQueued, AlreadyRunning)
\* changes nothing.
Enqueue(m) ==
    /\ ~IsRunning(m)
    /\ ~Queued(m)
    /\ pending' = Append(pending, m)
    /\ UNCHANGED <<running, detached, workerVars, jobVars, recording>>

\* Mutant: the detached mark is never taken back.
FinishKeepsDetached(m) ==
    /\ running' = IF running = m THEN None ELSE running
    /\ UNCHANGED detached

\* finish(): called by the job's thread, or by the worker for a job whose
\* thread could not be started.
Finish(m) ==
    /\ running' = IF running = m THEN None ELSE running
    /\ detached' = detached \ {m}

-----------------------------------------------------------------------------
\* take_next: the condition variable lets the worker through once a job waits.
Take ==
    /\ worker = "take"
    /\ pending # <<>>
    /\ worker' = "gate"
    /\ polls' = 0
    /\ UNCHANGED <<queueVars, current, jobVars, recording>>

\* take_next: the gate reports a recording; sleep one poll.
Hold ==
    /\ worker = "gate"
    /\ recording
    /\ polls < MaxPolls
    /\ polls' = polls + 1
    /\ UNCHANGED <<queueVars, worker, current, jobVars, recording>>

\* Mutant: no longest wait, a recording parks the queue.
PassGateWhenOpen ==
    /\ worker = "gate"
    /\ ~recording
    /\ worker' = "pop"
    /\ UNCHANGED <<queueVars, current, polls, jobVars, recording>>

\* take_next: the gate is open, or it was held for the longest wait.
PassGate ==
    /\ worker = "gate"
    /\ ~recording \/ polls >= MaxPolls
    /\ worker' = "pop"
    /\ UNCHANGED <<queueVars, current, polls, jobVars, recording>>

\* take_next: pop the head under the lock and mark it running.
Pop ==
    /\ worker = "pop"
    /\ pending # <<>>
    /\ current' = Head(pending)
    /\ running' = Head(pending)
    /\ pending' = Tail(pending)
    /\ worker' = "spawn"
    /\ UNCHANGED <<detached, polls, jobVars, recording>>

\* The job gets a thread and a done channel of its own.
Spawn ==
    /\ worker = "spawn"
    /\ body' = [body EXCEPT ![current] = @ + 1]
    /\ reply' = "open"
    /\ worker' = "recv"
    /\ UNCHANGED <<queueVars, current, polls, handler, recording>>

\* The thread cannot be started: on_panic runs on the worker itself.
SpawnFails ==
    /\ worker = "spawn"
    /\ worker' = "unspawned"
    /\ UNCHANGED <<queueVars, current, polls, jobVars, recording>>

\* on_panic panics on the worker, outside any catch_unwind: no worker is left.
WorkerDies ==
    /\ HandlerMayPanic
    /\ worker = "unspawned"
    /\ worker' = "dead"
    /\ UNCHANGED <<queueVars, current, polls, jobVars, recording>>

FinishUnspawned ==
    /\ worker = "unspawned"
    /\ Finish(current)
    /\ worker' = "take"
    /\ UNCHANGED <<pending, current, polls, jobVars, recording>>

\* recv_timeout returns Ok, or Disconnected because the thread died.
Receive ==
    /\ worker = "recv"
    /\ reply \in {"sent", "closed"}
    /\ worker' = "take"
    /\ UNCHANGED <<queueVars, current, polls, jobVars, recording>>

\* Mutant: the worker moves on without detaching the job.
OverdueDropped ==
    /\ worker = "recv"
    /\ reply \in {"open", "unsent"}
    /\ worker' = "take"
    /\ UNCHANGED <<queueVars, current, polls, jobVars, recording>>

\* recv_timeout gives up on the job; the detach is a later lock.
Overdue ==
    /\ worker = "recv"
    /\ reply \in {"open", "unsent"}
    /\ worker' = "overdue"
    /\ UNCHANGED <<queueVars, current, polls, jobVars, recording>>

\* Mutant: detach() without its check, after the job finished in between.
DetachUnchecked ==
    /\ worker = "overdue"
    /\ running' = None
    /\ detached' = detached \cup {current}
    /\ worker' = "take"
    /\ UNCHANGED <<pending, current, polls, jobVars, recording>>

Detach ==
    /\ worker = "overdue"
    /\ IF running = current
         THEN running' = None /\ detached' = detached \cup {current}
         ELSE UNCHANGED <<running, detached>>
    /\ worker' = "take"
    /\ UNCHANGED <<pending, current, polls, jobVars, recording>>

-----------------------------------------------------------------------------
\* The worker still listens to the channel of m's job.
Listening(m) == current = m /\ worker \in {"recv", "overdue"}

\* run() panics: catch_unwind hands the meeting to on_panic.
JobPanics(m) ==
    /\ body[m] > 0
    /\ body' = [body EXCEPT ![m] = @ - 1]
    /\ handler' = [handler EXCEPT ![m] = @ + 1]
    /\ UNCHANGED <<queueVars, workerVars, reply, recording>>

\* The thread calls finish() after run() or on_panic() returned.
JobFinishes(m) ==
    /\ \/ /\ body[m] > 0
          /\ body' = [body EXCEPT ![m] = @ - 1]
          /\ UNCHANGED handler
       \/ /\ handler[m] > 0
          /\ handler' = [handler EXCEPT ![m] = @ - 1]
          /\ UNCHANGED body
    /\ Finish(m)
    /\ reply' = IF Listening(m) THEN "unsent" ELSE reply
    /\ UNCHANGED <<pending, workerVars, recording>>

\* done_tx.send, after the lock of finish() was released.
JobReplies ==
    /\ reply = "unsent"
    /\ reply' = "sent"
    /\ UNCHANGED <<queueVars, workerVars, body, handler, recording>>

\* on_panic panics: the thread unwinds without finish(), dropping done_tx.
HandlerPanics(m) ==
    /\ HandlerMayPanic
    /\ handler[m] > 0
    /\ handler' = [handler EXCEPT ![m] = @ - 1]
    /\ reply' = IF Listening(m) THEN "closed" ELSE reply
    /\ UNCHANGED <<queueVars, workerVars, body, recording>>

\* A recording starts or ends (meeting_cmd, modelled elsewhere).
ToggleRecording ==
    /\ recording' = ~recording
    /\ UNCHANGED <<queueVars, workerVars, jobVars>>

-----------------------------------------------------------------------------
WorkerStep ==
    \/ Take \/ Hold \/ PassGate \/ Pop \/ Spawn \/ SpawnFails
    \/ WorkerDies \/ FinishUnspawned \/ Receive \/ Overdue \/ Detach

JobStep(m) == JobPanics(m) \/ JobFinishes(m) \/ HandlerPanics(m)

Next ==
    \/ \E m \in Meeting : Enqueue(m)
    \/ WorkerStep
    \/ \E m \in Meeting : JobStep(m)
    \/ JobReplies
    \/ ToggleRecording

\* The worker is a thread of its own and every wait it makes is timed, so it
\* always proceeds.  A job is never assumed to end: it may hang.
Fairness == WF_vars(WorkerStep)

Spec == Init /\ [][Next]_vars

FairSpec == Spec /\ Fairness

-----------------------------------------------------------------------------
\* Meeting m is inside run() or on_panic() on at least one thread.
Busy(m) == body[m] > 0 \/ handler[m] > 0

\* Dedupe: a meeting waits at most once, and never while it is processed,
\* detached jobs included, so enqueue's two checks see every live job.
Deduped ==
    /\ \A i, j \in 1..Len(pending) : pending[i] = pending[j] => i = j
    /\ \A m \in Meeting : Queued(m) => ~Busy(m) /\ ~IsRunning(m)

\* Two threads never process the same meeting, even after a timeout that
\* races the job's own finish().
OneThreadPerMeeting ==
    \A m \in Meeting :
        /\ body[m] <= 1
        /\ handler[m] <= 1
        /\ body[m] = 0 \/ handler[m] = 0

\* A job that holds no detached mark holds the worker: two jobs run at once
\* only when all but one of them exceeded their budget.
Serial ==
    \A m, n \in Meeting :
        Busy(m) /\ Busy(n) /\ m \notin detached /\ n \notin detached => m = n

\* take_next's expect(): the head it waited for is still there when it pops.
HeadIsThere == worker \in {"gate", "pop"} => pending # <<>>

\* Unless on_panic panicked, a meeting refused as AlreadyRunning has a thread
\* that will call finish(), or the worker is about to start or finish it.
RunningIsBacked ==
    \A m \in Meeting :
        IsRunning(m) =>
            Busy(m) \/ (m = current /\ worker \in {"spawn", "unspawned"})

\* A live job is always visible to dedupe (a conjunct of the inductive invariant).
BusyIsRunning == \A m \in Meeting : Busy(m) => IsRunning(m)

\* The queue as its module documentation describes it.
Schedule == INSTANCE MeetingSchedule
    WITH waiting <- pending, holder <- running, overrun <- detached

\* Whatever the threads do, callers see a FIFO of meetings processed one at a
\* time, overrunning ones aside.
RefinesSchedule == Schedule!FairSpec

\* Neither a hung job, a panic, a failed spawn nor a recording that never ends
\* parks the queue: every accepted meeting gets its turn, and the budget bounds
\* how long its job holds up the others.
EveryJobGetsItsTurn ==
    \A m \in Meeting : /\ Queued(m) ~> (running = m)
                       /\ (running = m) ~> (running # m)
==============================================================================
