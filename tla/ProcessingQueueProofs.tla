------------------------ MODULE ProcessingQueueProofs ------------------------
(***************************************************************************)
(* Proofs about the processing queue, for every set of meetings, every     *)
(* gate wait and whether or not the panic handler may itself panic.        *)
(***************************************************************************)
EXTENDS ProcessingQueue, TLAPS

\* Before it pops, the worker owes nothing to the job it last waited for.
PopsIdle ==
    worker \in {"take", "gate", "pop"} =>
        \A m \in Meeting : running = m => ~Busy(m)

\* The job of this turn is marked running and has no thread yet.
TurnIsFresh ==
    worker \in {"spawn", "unspawned", "dead"} =>
        /\ current \in Meeting
        /\ running = current
        /\ ~Busy(current)

\* While the worker listens, only its own job can be marked running, and that
\* job is over once its channel says so.
TurnIsHeard ==
    worker \in {"recv", "overdue"} =>
        /\ current \in Meeting
        /\ running \in {None, current}
        /\ reply # "open" /\ running = current => ~Busy(current)

NotBoth == \A m \in Meeting : running = m => m \notin detached

IndInv ==
    /\ TypeOK
    /\ Deduped
    /\ OneThreadPerMeeting
    /\ HeadIsThere
    /\ BusyIsRunning
    /\ PopsIdle
    /\ TurnIsFresh
    /\ TurnIsHeard
    /\ NotBoth

-----------------------------------------------------------------------------
\* Appending a new element, or removing the head, keeps a queue free of
\* repetitions: the two ways pending changes.
LEMMA AppendKeepsDistinct ==
    ASSUME NEW S, NEW q \in Seq(S), NEW x \in S,
           \A i, j \in 1..Len(q) : q[i] = q[j] => i = j,
           \A i \in 1..Len(q) : q[i] # x
    PROVE  /\ Append(q, x) \in Seq(S)
           /\ \A i, j \in 1..Len(Append(q, x)) :
                 Append(q, x)[i] = Append(q, x)[j] => i = j
           /\ \A y \in S : (\E i \in 1..Len(Append(q, x)) : Append(q, x)[i] = y)
                 <=> (y = x \/ \E i \in 1..Len(q) : q[i] = y)
<1> DEFINE r == Append(q, x)
<1>1. r \in Seq(S) /\ Len(r) = Len(q) + 1
  OBVIOUS
<1>2. \A i \in 1..Len(q) : r[i] = q[i]
  OBVIOUS
<1>3. r[Len(q) + 1] = x
  OBVIOUS
<1>4. Len(q) \in Nat
  OBVIOUS
<1> HIDE DEF r
<1>5. \A i, j \in 1..Len(r) : r[i] = r[j] => i = j
  BY <1>1, <1>2, <1>3, <1>4
<1>6. ASSUME NEW y \in S
      PROVE  (\E i \in 1..Len(r) : r[i] = y)
                <=> (y = x \/ \E i \in 1..Len(q) : q[i] = y)
  BY <1>1, <1>2, <1>3, <1>4
<1> QED BY <1>1, <1>5, <1>6 DEF r

LEMMA TailKeepsDistinct ==
    ASSUME NEW S, NEW q \in Seq(S), q # <<>>,
           \A i, j \in 1..Len(q) : q[i] = q[j] => i = j
    PROVE  /\ Head(q) \in S
           /\ Tail(q) \in Seq(S)
           /\ \A i, j \in 1..Len(Tail(q)) : Tail(q)[i] = Tail(q)[j] => i = j
           /\ \E i \in 1..Len(q) : q[i] = Head(q)
           /\ \A y \in S : (\E i \in 1..Len(Tail(q)) : Tail(q)[i] = y)
                 <=> (y # Head(q) /\ \E i \in 1..Len(q) : q[i] = y)
<1> DEFINE r == Tail(q)
           h == Head(q)
<1>1. r \in Seq(S) /\ Len(r) = Len(q) - 1 /\ Len(q) \in Nat /\ Len(q) >= 1
  OBVIOUS
<1>2. \A i \in 1..Len(r) : r[i] = q[i + 1]
  OBVIOUS
<1>3. h = q[1] /\ h \in S
  OBVIOUS
<1> HIDE DEF r, h
<1>4. \A i, j \in 1..Len(r) : r[i] = r[j] => i = j
  BY <1>1, <1>2
<1>5. \E i \in 1..Len(q) : q[i] = h
  BY <1>1, <1>3
<1>6. ASSUME NEW y \in S
      PROVE  (\E i \in 1..Len(r) : r[i] = y)
                <=> (y # h /\ \E i \in 1..Len(q) : q[i] = y)
  <2>1. ASSUME NEW i \in 1..Len(r), r[i] = y
        PROVE  y # h /\ \E k \in 1..Len(q) : q[k] = y
    BY <1>1, <1>2, <1>3, <2>1
  <2>2. ASSUME y # h, NEW k \in 1..Len(q), q[k] = y
        PROVE  \E i \in 1..Len(r) : r[i] = y
    <3>1. k # 1
      BY <1>3, <2>2
    <3>2. k - 1 \in 1..Len(r)
      BY <1>1, <3>1
    <3>3. r[k - 1] = y
      BY <1>1, <1>2, <2>2, <3>2
    <3> QED BY <3>2, <3>3
  <2> QED BY <2>1, <2>2
<1> QED BY <1>1, <1>3, <1>4, <1>5, <1>6 DEF r, h

-----------------------------------------------------------------------------
\* The queue starts empty, with no thread: the invariant holds initially.
LEMMA InitInv == Init => IndInv
<1> SUFFICES ASSUME Init PROVE IndInv
  OBVIOUS
<1> USE NoneAssumption, MaxPollsAssumption
<1>1. pending \in Seq(Meeting) /\ Len(pending) = 0
  BY DEF Init
<1>2. polls \in 0..MaxPolls /\ detached \subseteq Meeting
  BY DEF Init
<1>3. body \in [Meeting -> Nat] /\ handler \in [Meeting -> Nat]
  BY DEF Init
<1>4. TypeOK
  BY <1>1, <1>2, <1>3 DEF TypeOK, WorkerPC, Init
<1>5. Deduped
  BY <1>1 DEF Deduped, Queued
<1>6. \A m \in Meeting : body[m] = 0 /\ handler[m] = 0
  BY DEF Init
<1>7. OneThreadPerMeeting /\ \A m \in Meeting : ~Busy(m)
  BY <1>6 DEF OneThreadPerMeeting, Busy
<1> QED
  BY <1>4, <1>5, <1>7
  DEF IndInv, HeadIsThere, BusyIsRunning, PopsIdle, TurnIsFresh, TurnIsHeard,
      NotBoth, Init

\* Every step of the callers, the worker and the jobs preserves it.
LEMMA NextInv == IndInv /\ [Next]_vars => IndInv'
<1> SUFFICES ASSUME IndInv, [Next]_vars PROVE IndInv'
  OBVIOUS
<1> USE NoneAssumption, MaxPollsAssumption
<1>1. ASSUME NEW m \in Meeting, Enqueue(m) PROVE IndInv'
  <2>1. /\ pending' = Append(pending, m)
        /\ \A i \in 1..Len(pending) : pending[i] # m
    BY <1>1 DEF Enqueue, Queued
  <2>2. /\ pending \in Seq(Meeting)
        /\ \A i, j \in 1..Len(pending) : pending[i] = pending[j] => i = j
    BY DEF IndInv, TypeOK, Deduped
  <2>3. /\ pending' \in Seq(Meeting)
        /\ \A i, j \in 1..Len(pending') : pending'[i] = pending'[j] => i = j
        /\ \A y \in Meeting : (\E i \in 1..Len(pending') : pending'[i] = y)
              <=> (y = m \/ \E i \in 1..Len(pending) : pending[i] = y)
    BY <2>1, <2>2, AppendKeepsDistinct
  <2>4. \A y \in Meeting : Queued(y)' <=> (y = m \/ Queued(y))
    BY <2>3 DEF Queued
  <2>5. pending' # <<>>
    BY <2>3, <2>4 DEF Queued
  <2>6. UNCHANGED <<running, detached, workerVars, jobVars, recording>>
    BY <1>1 DEF Enqueue
  <2>7. ~IsRunning(m)
    BY <1>1 DEF Enqueue
  <2> QED
    BY <2>3, <2>4, <2>5, <2>6, <2>7
    DEF IndInv, TypeOK, WorkerPC, Deduped, OneThreadPerMeeting, HeadIsThere,
        BusyIsRunning, PopsIdle, TurnIsFresh, TurnIsHeard, NotBoth, Busy,
        IsRunning, workerVars, jobVars
<1>2. CASE Pop
  <2> DEFINE h == Head(pending)
  <2>1. /\ pending # <<>>
        /\ pending' = Tail(pending)
        /\ pending \in Seq(Meeting)
        /\ \A i, j \in 1..Len(pending) : pending[i] = pending[j] => i = j
    BY <1>2 DEF Pop, IndInv, TypeOK, Deduped
  <2>2. /\ h \in Meeting
        /\ pending' \in Seq(Meeting)
        /\ \A i, j \in 1..Len(pending') : pending'[i] = pending'[j] => i = j
        /\ \E i \in 1..Len(pending) : pending[i] = h
        /\ \A y \in Meeting : (\E i \in 1..Len(pending') : pending'[i] = y)
              <=> (y # h /\ \E i \in 1..Len(pending) : pending[i] = y)
    <3>1. /\ h \in Meeting
          /\ Tail(pending) \in Seq(Meeting)
          /\ \A i, j \in 1..Len(Tail(pending)) :
                Tail(pending)[i] = Tail(pending)[j] => i = j
          /\ \E i \in 1..Len(pending) : pending[i] = h
          /\ \A y \in Meeting :
                (\E i \in 1..Len(Tail(pending)) : Tail(pending)[i] = y)
                <=> (y # h /\ \E i \in 1..Len(pending) : pending[i] = y)
      BY <2>1, TailKeepsDistinct
    <3> HIDE DEF h
    <3> QED BY <2>1, <3>1
  <2>3. Queued(h) /\ \A y \in Meeting : Queued(y)' <=> (y # h /\ Queued(y))
    BY <2>2 DEF Queued
  <2>4. /\ worker = "pop" /\ worker' = "spawn"
        /\ current' = h /\ running' = h
        /\ UNCHANGED <<detached, polls, jobVars, recording>>
    BY <1>2 DEF Pop
  <2> HIDE DEF h
  <2>5. h \notin detached /\ ~Busy(h)
    BY <2>2, <2>3 DEF IndInv, Deduped, IsRunning
  <2> QED
    BY <2>2, <2>3, <2>4, <2>5
    DEF IndInv, TypeOK, WorkerPC, Deduped, OneThreadPerMeeting, HeadIsThere,
        BusyIsRunning, PopsIdle, TurnIsFresh, TurnIsHeard, NotBoth, Busy,
        IsRunning, jobVars
<1> USE DEF IndInv, TypeOK, WorkerPC, Deduped, OneThreadPerMeeting, HeadIsThere,
      BusyIsRunning, PopsIdle, TurnIsFresh, TurnIsHeard, NotBoth, Queued, Busy,
      IsRunning
<1>3. CASE Take
  BY <1>3 DEF Take, queueVars, jobVars
<1>4. CASE Hold
  BY <1>4 DEF Hold, queueVars, jobVars
<1>5. CASE PassGate
  BY <1>5 DEF PassGate, queueVars, jobVars
<1>6. CASE Spawn
  BY <1>6 DEF Spawn, queueVars
<1>7. CASE SpawnFails
  BY <1>7 DEF SpawnFails, queueVars, jobVars
<1>8. CASE WorkerDies
  BY <1>8 DEF WorkerDies, queueVars, jobVars
<1>9. CASE FinishUnspawned
  BY <1>9 DEF FinishUnspawned, Finish, jobVars
<1>10. CASE Receive
  BY <1>10 DEF Receive, queueVars, jobVars
<1>11. CASE Overdue
  BY <1>11 DEF Overdue, queueVars, jobVars
<1>12. CASE Detach
  BY <1>12 DEF Detach, jobVars
<1>13. ASSUME NEW m \in Meeting, JobPanics(m) PROVE IndInv'
  <2>1. /\ body[m] > 0
        /\ body' = [body EXCEPT ![m] = @ - 1]
        /\ handler' = [handler EXCEPT ![m] = @ + 1]
        /\ UNCHANGED <<queueVars, workerVars, reply, recording>>
    BY <1>13 DEF JobPanics
  <2>2. body[m] = 1 /\ handler[m] = 0
    BY <2>1
  <2>3. /\ body' = [body EXCEPT ![m] = 0]
        /\ handler' = [handler EXCEPT ![m] = 1]
    BY <2>1, <2>2
  <2> QED
    BY <2>1, <2>2, <2>3 DEF queueVars, workerVars
<1>14. ASSUME NEW m \in Meeting, JobFinishes(m) PROVE IndInv'
  <2>1. /\ Finish(m)
        /\ reply' = IF Listening(m) THEN "unsent" ELSE reply
        /\ UNCHANGED <<pending, workerVars, recording>>
    BY <1>14 DEF JobFinishes
  <2>2. /\ body' = [body EXCEPT ![m] = 0]
        /\ handler' = [handler EXCEPT ![m] = 0]
    <3>1. CASE /\ body[m] > 0
               /\ body' = [body EXCEPT ![m] = @ - 1]
               /\ UNCHANGED handler
      <4>1. body[m] = 1 /\ handler[m] = 0
        BY <3>1
      <4> QED BY <3>1, <4>1
    <3>2. CASE /\ handler[m] > 0
               /\ handler' = [handler EXCEPT ![m] = @ - 1]
               /\ UNCHANGED body
      <4>1. handler[m] = 1 /\ body[m] = 0
        BY <3>2
      <4> QED BY <3>2, <4>1
    <3> QED BY <1>14, <3>1, <3>2 DEF JobFinishes
  <2>3. /\ ~Busy(m)'
        /\ \A n \in Meeting \ {m} : Busy(n)' <=> Busy(n)
        /\ ~IsRunning(m)'
        /\ \A n \in Meeting \ {m} : IsRunning(n)' <=> IsRunning(n)
    BY <2>1, <2>2 DEF Finish
  <2>4. TypeOK'
    BY <2>1, <2>2 DEF Finish, Listening, workerVars
  <2>5. Deduped' /\ OneThreadPerMeeting' /\ BusyIsRunning' /\ HeadIsThere'
    BY <2>1, <2>2, <2>3 DEF workerVars
  <2>6. PopsIdle' /\ NotBoth'
    BY <2>1, <2>2, <2>3 DEF Finish, workerVars
  <2>7. m = current /\ worker \in {"spawn", "unspawned", "dead"} => FALSE
    BY <1>14 DEF JobFinishes
  <2>8. TurnIsFresh'
    BY <2>1, <2>3, <2>7 DEF Finish, workerVars
  <2>9. TurnIsHeard'
    BY <2>1, <2>2, <2>3 DEF Finish, Listening, workerVars
  <2> QED
    BY <2>4, <2>5, <2>6, <2>8, <2>9
<1>15. ASSUME NEW m \in Meeting, HandlerPanics(m) PROVE IndInv'
  <2>1. /\ handler[m] > 0
        /\ handler' = [handler EXCEPT ![m] = @ - 1]
        /\ reply' = IF Listening(m) THEN "closed" ELSE reply
        /\ UNCHANGED <<queueVars, workerVars, body, recording>>
    BY <1>15 DEF HandlerPanics
  <2>2. handler[m] = 1 /\ body[m] = 0
    BY <2>1
  <2>3. handler' = [handler EXCEPT ![m] = 0]
    BY <2>1, <2>2
  <2> QED
    BY <2>1, <2>2, <2>3 DEF Listening, queueVars, workerVars
<1>16. CASE JobReplies
  BY <1>16 DEF JobReplies, queueVars, workerVars
<1>17. CASE ToggleRecording
  BY <1>17 DEF ToggleRecording, queueVars, workerVars, jobVars
<1>18. CASE UNCHANGED vars
  BY <1>18 DEF vars, queueVars, workerVars, jobVars
<1> QED
  BY <1>1, <1>2, <1>3, <1>4, <1>5, <1>6, <1>7, <1>8, <1>9, <1>10, <1>11, <1>12,
     <1>13, <1>14, <1>15, <1>16, <1>17, <1>18
  DEF Next, WorkerStep, JobStep

-----------------------------------------------------------------------------
\* What the queue, its worker and the job threads know of each other holds always.
THEOREM Invariance == Spec => []IndInv
  BY InitInv, NextInv, PTL DEF Spec

\* Every variable keeps its type; in particular the worker never polls the
\* gate longer than GATE_MAX_WAIT.
THEOREM TypeCorrect == Spec => []TypeOK
<1>1. IndInv => TypeOK
  BY DEF IndInv
<1> QED BY <1>1, Invariance, PTL

\* enqueue's dedupe is sound: no meeting waits twice, or waits while it is
\* processed, and no two threads ever process the same meeting, whatever the
\* timeouts, the panics and the order of finish() and detach().
THEOREM DedupeCorrect == Spec => [](Deduped /\ OneThreadPerMeeting /\ BusyIsRunning)
<1>1. IndInv => Deduped /\ OneThreadPerMeeting /\ BusyIsRunning
  BY DEF IndInv
<1> QED BY <1>1, Invariance, PTL

\* The queue is serial: two live jobs that are within their budget are the
\* same job.
THEOREM SerialCorrect == Spec => []Serial
<1>1. IndInv => Serial
  BY DEF IndInv, BusyIsRunning, IsRunning, Serial
<1> QED BY <1>1, Invariance, PTL

\* take_next's expect() never fires.
THEOREM PopIsSafe == Spec => []HeadIsThere
<1>1. IndInv => HeadIsThere
  BY DEF IndInv
<1> QED BY <1>1, Invariance, PTL

-----------------------------------------------------------------------------
\* When the panic handler never panics, every turn ends with finish() or
\* detach(), so the worker never pops over a job still marked running.
TurnsEnd ==
    /\ worker \in {"take", "gate", "pop"} => running = None
    /\ reply # "closed"
    /\ worker \in {"recv", "overdue"} /\ reply # "open" => running = None
    /\ worker # "dead"

LEMMA TurnsEndInv ==
    ASSUME HandlerMayPanic = FALSE
    PROVE  Spec => [](IndInv /\ TurnsEnd)
<1>1. Init => TurnsEnd
  BY DEF Init, TurnsEnd
<1>2. IndInv /\ TurnsEnd /\ [Next]_vars => TurnsEnd'
  <2> SUFFICES ASSUME IndInv, TurnsEnd, [Next]_vars PROVE TurnsEnd'
    OBVIOUS
  <2> USE NoneAssumption DEF TurnsEnd, queueVars, workerVars, jobVars
  <2>1. ASSUME NEW m \in Meeting, Enqueue(m) PROVE TurnsEnd'
    BY <2>1 DEF Enqueue
  <2>2. CASE WorkerStep
    BY <2>2 DEF IndInv, TurnIsFresh, TurnIsHeard, WorkerStep, Take, Hold,
       PassGate, Pop, Spawn, SpawnFails, WorkerDies, FinishUnspawned, Finish,
       Receive, Overdue, Detach
  <2>3. ASSUME NEW m \in Meeting, JobStep(m) PROVE TurnsEnd'
    BY <2>3 DEF IndInv, TurnIsHeard, JobStep, JobPanics, JobFinishes, Finish,
       HandlerPanics, Listening
  <2>4. CASE JobReplies \/ ToggleRecording \/ UNCHANGED vars
    BY <2>4 DEF JobReplies, ToggleRecording, vars
  <2> QED BY <2>1, <2>2, <2>3, <2>4 DEF Next
<1> QED BY <1>1, <1>2, InitInv, NextInv, PTL DEF Spec

\* A meeting refused as AlreadyRunning is being processed: no timeout, failed
\* spawn or panicking job leaves a mark that nobody will take back.
THEOREM RunningCorrect ==
    ASSUME HandlerMayPanic = FALSE
    PROVE  Spec => []RunningIsBacked
<1>1. Init => RunningIsBacked
  BY NoneAssumption DEF Init, RunningIsBacked, IsRunning
<1>2. IndInv /\ RunningIsBacked /\ [Next]_vars => RunningIsBacked'
  <2> SUFFICES ASSUME IndInv, RunningIsBacked, [Next]_vars PROVE RunningIsBacked'
    OBVIOUS
  <2> USE NoneAssumption
          DEF RunningIsBacked, IsRunning, Busy, queueVars, workerVars, jobVars
  <2>1. ASSUME NEW m \in Meeting, Enqueue(m) PROVE RunningIsBacked'
    BY <2>1 DEF Enqueue
  <2>2. CASE WorkerStep
    <3>1. CASE Take \/ Hold \/ PassGate \/ Receive \/ Overdue
      BY <3>1 DEF Take, Hold, PassGate, Receive, Overdue
    <3>2. CASE Pop
      BY <3>2 DEF Pop
    <3>3. CASE Spawn
      <4>1. /\ body' = [body EXCEPT ![current] = @ + 1]
            /\ body \in [Meeting -> Nat] /\ current \in Meeting
            /\ UNCHANGED <<running, detached, handler, current>>
        BY <3>3 DEF Spawn, IndInv, TypeOK, TurnIsFresh
      <4>2. /\ body[current] \in Nat /\ body'[current] = body[current] + 1
            /\ \A m \in Meeting \ {current} : body'[m] = body[m]
        BY <4>1
      <4>3. Busy(current)' /\ \A m \in Meeting : Busy(m) => Busy(m)'
        BY <4>1, <4>2
      <4> QED BY <4>1, <4>3
    <3>4. CASE SpawnFails
      BY <3>4 DEF SpawnFails
    <3>5. CASE WorkerDies
      BY <3>5 DEF WorkerDies
    <3>6. CASE FinishUnspawned
      BY <3>6 DEF FinishUnspawned, Finish, IndInv, TurnIsFresh
    <3>7. CASE Detach
      BY <3>7 DEF Detach
    <3> QED BY <2>2, <3>1, <3>2, <3>3, <3>4, <3>5, <3>6, <3>7 DEF WorkerStep
  <2>3. ASSUME NEW m \in Meeting, JobPanics(m) PROVE RunningIsBacked'
    <3>1. /\ handler' = [handler EXCEPT ![m] = @ + 1]
          /\ body' = [body EXCEPT ![m] = @ - 1]
          /\ handler \in [Meeting -> Nat] /\ body \in [Meeting -> Nat]
          /\ UNCHANGED <<running, detached, worker, current>>
      BY <2>3 DEF JobPanics, IndInv, TypeOK
    <3>2. \A n \in Meeting : Busy(n) => Busy(n)'
      BY <3>1
    <3> QED BY <3>1, <3>2
  <2>4. ASSUME NEW m \in Meeting, JobFinishes(m) PROVE RunningIsBacked'
    <3>1. /\ UNCHANGED <<worker, current>>
          /\ Finish(m)
          /\ \A n \in Meeting \ {m} : body'[n] = body[n] /\ handler'[n] = handler[n]
      BY <2>4 DEF JobFinishes, IndInv, TypeOK
    <3>2. \A n \in Meeting \ {m} : Busy(n) => Busy(n)'
      BY <3>1
    <3>3. \A n \in Meeting : IsRunning(n)' => n # m /\ IsRunning(n)
      BY <3>1 DEF Finish
    <3> QED BY <3>1, <3>2, <3>3
  <2>5. ASSUME NEW m \in Meeting, HandlerPanics(m) PROVE FALSE
    BY <2>5 DEF HandlerPanics
  <2>6. CASE JobReplies \/ ToggleRecording \/ UNCHANGED vars
    BY <2>6 DEF JobReplies, ToggleRecording, vars
  <2> QED BY <2>1, <2>2, <2>3, <2>4, <2>5, <2>6 DEF Next, JobStep
<1> QED BY <1>1, <1>2, Invariance, PTL DEF Spec

\* The queue implements the schedule its documentation describes: every step
\* of the callers, the worker and the jobs is a step of MeetingSchedule or
\* leaves what the callers see unchanged.
THEOREM ImplementsSchedule ==
    ASSUME HandlerMayPanic = FALSE
    PROVE  Spec => Schedule!Spec
<1>1. Init => Schedule!Init
  BY DEF Init, Schedule!Init
<1>2. IndInv /\ TurnsEnd /\ [Next]_vars => [Schedule!Next]_(Schedule!vars)
  <2> SUFFICES ASSUME IndInv, TurnsEnd, [Next]_vars
               PROVE  Schedule!Next \/ UNCHANGED <<pending, running, detached>>
    BY DEF Schedule!vars
  <2> USE DEF queueVars
  <2>1. ASSUME NEW m \in Meeting, Enqueue(m) PROVE Schedule!Submit(m)
    BY <2>1 DEF Enqueue, IsRunning, Queued, Schedule!Submit
  <2>2. CASE Pop
    BY <2>2 DEF Pop, TurnsEnd, Schedule!Next, Schedule!Start
  <2>3. CASE FinishUnspawned
    <3>1. current \in Meeting /\ running = current /\ current \notin detached
      BY <2>3 DEF FinishUnspawned, IndInv, TurnIsFresh, NotBoth
    <3>2. Schedule!End(current)
      BY <2>3, <3>1 DEF FinishUnspawned, Finish, Schedule!End
    <3> QED BY <3>1, <3>2 DEF Schedule!Next, Schedule!Release
  <2>4. CASE Detach
    <3>1. CASE running = current
      <4>1. current \in Meeting
        BY <2>4 DEF Detach, IndInv, TurnIsHeard
      <4>2. Schedule!Overrun(current)
        BY <2>4, <3>1 DEF Detach, Schedule!Overrun
      <4> QED BY <4>1, <4>2 DEF Schedule!Next, Schedule!Release
    <3>2. CASE running # current
      BY <2>4, <3>2 DEF Detach
    <3> QED BY <3>1, <3>2
  <2>5. CASE Take \/ Hold \/ PassGate \/ Spawn \/ SpawnFails \/ WorkerDies
             \/ Receive \/ Overdue
    BY <2>5 DEF Take, Hold, PassGate, Spawn, SpawnFails, WorkerDies, Receive,
       Overdue
  <2>6. ASSUME NEW m \in Meeting, JobFinishes(m)
        PROVE  Schedule!Next \/ UNCHANGED <<pending, running, detached>>
    <3>1. UNCHANGED pending /\ Finish(m)
      BY <2>6 DEF JobFinishes
    <3>2. CASE running = m
      <4>1. m \notin detached
        BY <3>2 DEF IndInv, NotBoth
      <4>2. Schedule!End(m)
        BY <3>1, <3>2, <4>1 DEF Finish, Schedule!End
      <4> QED BY <4>2 DEF Schedule!Next, Schedule!Release
    <3>3. CASE running # m /\ m \in detached
      <4>1. Schedule!EndLate(m)
        BY <3>1, <3>3 DEF Finish, Schedule!EndLate
      <4> QED BY <4>1 DEF Schedule!Next
    <3>4. CASE running # m /\ m \notin detached
      BY <3>1, <3>4 DEF Finish
    <3> QED BY <3>2, <3>3, <3>4
  <2>7. ASSUME NEW m \in Meeting, JobPanics(m) \/ HandlerPanics(m)
        PROVE  UNCHANGED <<pending, running, detached>>
    BY <2>7 DEF JobPanics, HandlerPanics
  <2>8. CASE JobReplies \/ ToggleRecording \/ UNCHANGED vars
    BY <2>8 DEF JobReplies, ToggleRecording, vars
  <2> QED
    BY <2>1, <2>2, <2>3, <2>4, <2>5, <2>6, <2>7, <2>8
    DEF Next, WorkerStep, JobStep, Schedule!Next
<1> QED
  BY <1>1, <1>2, TurnsEndInv, PTL DEF Spec, Schedule!Spec
==============================================================================
