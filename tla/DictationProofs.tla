---------------------------- MODULE DictationProofs ----------------------------
(***************************************************************************)
(* Proofs about Dictation, for any number of sessions.  With any pacing:   *)
(* type correctness; the output ducking, the capture arbiter and the       *)
(* PROCESSING phase are never left without the capture or the stop task    *)
(* they belong to; and, until a processing stage is ended early, one       *)
(* pipeline runs and an Esc is heard by it.  With keys pressed and waits   *)
(* ended only when no task can run (Paced): the quiet state.  With         *)
(* meetings beside (the last section, any pacing): the arbiter follows     *)
(* whoever records, and no suspension of the hotkeys outlives its reason.  *)
(***************************************************************************)
EXTENDS CaptureExclusion, TLAPS

\* Only a session that reached ProcessingCancel::arm is armed or holds a permit.
BeforeArming == {"new", "begun", "arming"}
AfterArming == {"select", "broken", "asr", "correct", "insert", "ended"}
ArmingComesFirst ==
    \A n \in Session : stopPC[n] \in BeforeArming
                          => n \notin permits /\ armed.owner # n

\* PROCESSING_CANCEL.session is None, or names its session.
ArmedHasOwner == armed.owner = Nobody => armed = Unarmed

\* A pipeline past the capture has samples of some capture.
SamplesHaveOrigin ==
    \A n \in Session : stopPC[n] \in {"asr", "correct", "insert"}
                          => source[n] # Nobody

\* While PROCESSING, the stop task of the last session is at work, no Esc has
\* told it to stop, and what is armed since it armed is not cancelled: it will
\* neither be dropped nor return without resetting the phase.
ProcessingInHand ==
    phase = "processing" =>
        /\ count \in Session
        /\ stopPC[count] \notin {"new", "done", "dropped"}
        /\ count \notin permits
        /\ stopPC[count] \in AfterArming => ~armed.cancelled

\* The arbiter stays with dictation no longer than the capture.
ArbiterYields == mode = "Dictation" => mic # Nobody

\* The capture's companions.
CaptureInHand == DuckingFollowsMic /\ ArbiterYields

\* With no meeting beside it, dictation is the only one to move the arbiter.
Alone == mode # "MeetingRecording" /\ (mic # Nobody => mode = "Dictation")

IInv ==
    /\ TypeOK
    /\ ArmingComesFirst
    /\ ArmedHasOwner
    /\ SamplesHaveOrigin
    /\ ProcessingInHand
    /\ CaptureInHand

USE DEF taskVars, captureVars, liveVars, pipeVars, cancelVars, historyVars, escVars,
        StartAt, StopAt

\* A step that touches none of the variables the invariant is about, but for
\* their types, keeps it.
LEMMA Untouched ==
    ASSUME IInv, TypeOK',
           UNCHANGED <<phase, count, stopPC, permits, armed, source, mic, ducked, mode>>
    PROVE  IInv'
BY DEF IInv, ArmingComesFirst, ArmedHasOwner, SamplesHaveOrigin,
       ProcessingInHand, CaptureInHand, DuckingFollowsMic, ArbiterYields

\* The start task of a session, and the press that begins it.
LEMMA StartInv ==
    ASSUME IInv, NEW n \in Session,
           StartBegins(n) \/ StartSkips(n) \/ StartWaits(n) \/ StartLocks(n)
           \/ StartNotReady(n) \/ StartPrepares(n) \/ StartOpens(n) \/
           StartCannotOpen(n) \/ StartReserves(n) \/ StartPublishes(n) \/
           StartDiscards(n) \/ StartYields(n) \/ StartReportsError(n)
    PROVE  IInv'
<1>1. CASE StartBegins(n)
  <2>1. TypeOK'
    BY <1>1, MaxSessionsAssumption DEF IInv, StartBegins, TypeOK, StartPC,
         Session
  <2>2. ProcessingInHand'
    BY <1>1 DEF IInv, TypeOK, StartBegins, ProcessingInHand, AfterArming,
         ArmingComesFirst, BeforeArming, Session
  <2>3. QED
    BY <1>1, <2>1, <2>2 DEF IInv, StartBegins, ArmingComesFirst, BeforeArming,
         ArmedHasOwner, Unarmed, SamplesHaveOrigin, CaptureInHand,
         DuckingFollowsMic, ArbiterYields, Nobody
<1>2. CASE StartSkips(n)
  <2>1. TypeOK'
    BY <1>2 DEF IInv, StartSkips, TypeOK, StartPC
  <2>2. QED
    BY <1>2, <2>1, Untouched DEF StartSkips
<1>3. CASE StartWaits(n)
  <2>1. TypeOK'
    BY <1>3 DEF IInv, StartWaits, TypeOK, StartPC
  <2>2. QED
    BY <1>3, <2>1, Untouched DEF StartWaits
<1>4. CASE StartLocks(n)
  <2>1. TypeOK'
    BY <1>4 DEF IInv, StartLocks, TypeOK, StartPC, Owner, Session, Nobody
  <2>2. QED
    BY <1>4, <2>1, Untouched DEF StartLocks
<1>5. CASE StartNotReady(n)
  <2>1. TypeOK'
    BY <1>5 DEF IInv, StartNotReady, TypeOK, StartPC, Owner, Session, Nobody
  <2>2. QED
    BY <1>5, <2>1, Untouched DEF StartNotReady
<1>6. CASE StartPrepares(n)
  <2>1. TypeOK'
    <3>1. realtime' \in Owner /\ kept' \subseteq Session
      BY <1>6 DEF IInv, TypeOK, StartPrepares, Owner
    <3>2. startPC' \in [Session -> StartPC]
      BY <1>6 DEF IInv, TypeOK, StartPrepares, StartPC
    <3> QED
      BY <1>6, <3>1, <3>2 DEF IInv, TypeOK, StartPrepares
  <2>2. QED
    BY <1>6, <2>1, Untouched DEF StartPrepares
<1>7. CASE StartOpens(n)
  <2>1. TypeOK'
    BY <1>7 DEF IInv, StartOpens, BeginDictation, TypeOK, StartPC, Owner,
         CaptureMode, Session, Nobody
  <2>2. CaptureInHand'
    BY <1>7 DEF IInv, TypeOK, StartOpens, BeginDictation, CaptureInHand,
         DuckingFollowsMic, ArbiterYields, Nobody, Session, CaptureMode
  <2>3. QED
    BY <1>7, <2>1, <2>2 DEF IInv, StartOpens, BeginDictation,
         ArmingComesFirst, BeforeArming, ArmedHasOwner, Unarmed,
         SamplesHaveOrigin, ProcessingInHand, AfterArming
<1>8. CASE StartCannotOpen(n)
  <2>1. TypeOK'
    BY <1>8 DEF IInv, StartCannotOpen, TypeOK, StartPC, Owner, Session, Nobody
  <2>2. QED
    BY <1>8, <2>1, Untouched DEF StartCannotOpen
<1>9. CASE StartReserves(n)
  <2>1. TypeOK'
    BY <1>9 DEF IInv, StartReserves, TypeOK, StartPC, Owner, Session, Nobody
  <2>2. QED
    BY <1>9, <2>1, Untouched DEF StartReserves
<1>10. CASE StartPublishes(n)
  <2>1. TypeOK'
    BY <1>10 DEF IInv, StartPublishes, TypeOK, StartPC
  <2>2. QED
    BY <1>10, <2>1, Untouched DEF StartPublishes
<1>11. CASE StartDiscards(n)
  <2>1. TypeOK'
    BY <1>11 DEF IInv, StartDiscards, CancelRecording, ReleaseMic,
         EndDictation, TypeOK, StartPC, Owner, CaptureMode, Session, Nobody
  <2>2. CaptureInHand'
    BY <1>11 DEF IInv, TypeOK, StartDiscards, CancelRecording, ReleaseMic,
         EndDictation, CaptureInHand, DuckingFollowsMic, ArbiterYields,
         Nobody, Session, CaptureMode
  <2>3. QED
    BY <1>11, <2>1, <2>2 DEF IInv, StartDiscards, CancelRecording, ReleaseMic,
         EndDictation, ArmingComesFirst, BeforeArming, ArmedHasOwner, Unarmed,
         SamplesHaveOrigin, ProcessingInHand, AfterArming
<1>12. CASE StartYields(n)
  <2>1. TypeOK'
    BY <1>12 DEF IInv, StartYields, TypeOK, StartPC
  <2>2. QED
    BY <1>12, <2>1, Untouched DEF StartYields
<1>13. CASE StartReportsError(n)
  <2>1. TypeOK'
    BY <1>13 DEF IInv, StartReportsError, TypeOK, StartPC, ProcessingInHand
  <2>2. ProcessingInHand'
    BY <1>13 DEF IInv, TypeOK, StartReportsError, ProcessingInHand,
         AfterArming, ArmingComesFirst, BeforeArming, Session
  <2>3. QED
    BY <1>13, <2>1, <2>2 DEF IInv, StartReportsError, ArmingComesFirst,
         BeforeArming, ArmedHasOwner, Unarmed, SamplesHaveOrigin,
         CaptureInHand, DuckingFollowsMic, ArbiterYields, Nobody
<1>14. QED  BY <1>1, <1>2, <1>3, <1>4, <1>5, <1>6, <1>7, <1>8, <1>9, <1>10,
     <1>11, <1>12, <1>13

\* The stop task of a session, and the release that begins it.
LEMMA StopInv ==
    ASSUME IInv, NEW n \in Session,
           StopBegins(n) \/ StopSeesNoCapture(n) \/ StopSeesCapture(n) \/
           StopArms(n) \/ TakesCapture(n) \/ CaptureFails(n) \/
           CaptureGivenUp(n) \/ CaptureRejected(n) \/ Recognizes(n) \/ AsrFails(n) \/
           CorrectionFails(n) \/ Commits(n) \/ CommitRefused(n) \/ Outputs(n)
           \/ Drops(n) \/ Disarms(n) \/ StopFinishes(n)
    PROVE  IInv'
<1>1. CASE StopBegins(n)
  <2>1. TypeOK'
    BY <1>1 DEF IInv, StopBegins, TypeOK, StopPC
  <2>2. ArmingComesFirst'
    BY <1>1 DEF IInv, TypeOK, StopBegins, ArmingComesFirst, BeforeArming,
         Session, Nobody
  <2>3. SamplesHaveOrigin'
    BY <1>1 DEF IInv, TypeOK, StopBegins, SamplesHaveOrigin, Session, Nobody
  <2>4. ProcessingInHand'
    BY <1>1 DEF IInv, TypeOK, StopBegins, ProcessingInHand, AfterArming,
         ArmingComesFirst, BeforeArming, Session
  <2>5. QED
    BY <1>1, <2>1, <2>2, <2>3, <2>4 DEF IInv, StopBegins, ArmedHasOwner,
         Unarmed, CaptureInHand, DuckingFollowsMic, ArbiterYields, Nobody
<1>2. CASE StopSeesNoCapture(n)
  <2>1. TypeOK'
    BY <1>2 DEF IInv, StopSeesNoCapture, TypeOK, StopPC
  <2>2. ArmingComesFirst'
    BY <1>2 DEF IInv, TypeOK, StopSeesNoCapture, ArmingComesFirst,
         BeforeArming, Session, Nobody
  <2>3. SamplesHaveOrigin'
    BY <1>2 DEF IInv, TypeOK, StopSeesNoCapture, SamplesHaveOrigin, Session,
         Nobody
  <2>4. ProcessingInHand'
    BY <1>2 DEF IInv, TypeOK, StopSeesNoCapture, ProcessingInHand,
         AfterArming, ArmingComesFirst, BeforeArming, Session
  <2>5. QED
    BY <1>2, <2>1, <2>2, <2>3, <2>4 DEF IInv, StopSeesNoCapture,
         ArmedHasOwner, Unarmed, CaptureInHand, DuckingFollowsMic,
         ArbiterYields, Nobody
<1>3. CASE StopSeesCapture(n)
  <2>1. TypeOK'
    BY <1>3 DEF IInv, StopSeesCapture, TypeOK, StopPC
  <2>2. ArmingComesFirst'
    BY <1>3 DEF IInv, TypeOK, StopSeesCapture, ArmingComesFirst, BeforeArming,
         Session, Nobody
  <2>3. SamplesHaveOrigin'
    BY <1>3 DEF IInv, TypeOK, StopSeesCapture, SamplesHaveOrigin, Session,
         Nobody
  <2>4. ProcessingInHand'
    BY <1>3 DEF IInv, TypeOK, StopSeesCapture, ProcessingInHand, AfterArming,
         ArmingComesFirst, BeforeArming, Session
  <2>5. QED
    BY <1>3, <2>1, <2>2, <2>3, <2>4 DEF IInv, StopSeesCapture, ArmedHasOwner,
         Unarmed, CaptureInHand, DuckingFollowsMic, ArbiterYields, Nobody
<1>4. CASE StopArms(n)
  <2>1. TypeOK'
    BY <1>4 DEF IInv, StopArms, TypeOK, StopPC, Owner, Session, Nobody
  <2>2. ArmingComesFirst'
    BY <1>4 DEF IInv, TypeOK, StopArms, ArmingComesFirst, BeforeArming,
         Session, Nobody
  <2>3. ArmedHasOwner'
    BY <1>4 DEF IInv, TypeOK, StopArms, ArmedHasOwner, Unarmed, Session,
         Nobody
  <2>4. SamplesHaveOrigin'
    BY <1>4 DEF IInv, TypeOK, StopArms, SamplesHaveOrigin, Session, Nobody
  <2>5. ProcessingInHand'
    BY <1>4 DEF IInv, TypeOK, StopArms, ProcessingInHand, AfterArming,
         ArmingComesFirst, BeforeArming, Session
  <2>6. QED
    BY <1>4, <2>1, <2>2, <2>3, <2>4, <2>5 DEF IInv, StopArms, CaptureInHand,
         DuckingFollowsMic, ArbiterYields, Nobody
<1>5. CASE TakesCapture(n)
  <2>1. TypeOK'
    <3>1. mic' \in Owner /\ ducked' \in BOOLEAN /\ mode' \in CaptureMode
      BY <1>5 DEF IInv, TypeOK, TakesCapture, ReleaseMic, EndDictation, Owner, CaptureMode
    <3>2. stopPC' \in [Session -> StopPC] /\ source' \in [Session -> Owner]
      BY <1>5 DEF IInv, TypeOK, TakesCapture, StopPC
    <3>3. UNCHANGED <<phase, count, startPC, lock, liveVars, output, cancelVars, escVars>>
      BY <1>5 DEF TakesCapture, ReleaseMic, EndDictation
    <3> QED
      BY <3>1, <3>2, <3>3 DEF IInv, TypeOK
  <2>2. ArmingComesFirst'
    BY <1>5 DEF IInv, TypeOK, TakesCapture, ReleaseMic, EndDictation,
         ArmingComesFirst, BeforeArming, Session, Nobody
  <2>3. SamplesHaveOrigin'
    BY <1>5 DEF IInv, TypeOK, TakesCapture, ReleaseMic, EndDictation,
         SamplesHaveOrigin, Session, Nobody
  <2>4. ProcessingInHand'
    BY <1>5 DEF IInv, TypeOK, TakesCapture, ReleaseMic, EndDictation,
         ProcessingInHand, AfterArming, ArmingComesFirst, BeforeArming,
         Session
  <2>5. CaptureInHand'
    BY <1>5 DEF IInv, TypeOK, TakesCapture, ReleaseMic, EndDictation,
         CaptureInHand, DuckingFollowsMic, ArbiterYields, Nobody, Session,
         CaptureMode
  <2>6. QED
    BY <1>5, <2>1, <2>2, <2>3, <2>4, <2>5 DEF IInv, TakesCapture, ReleaseMic,
         EndDictation, ArmedHasOwner, Unarmed
<1>6. CASE CaptureFails(n)
  <2>1. TypeOK'
    <3>1. mic' \in Owner /\ ducked' \in BOOLEAN /\ mode' \in CaptureMode
      BY <1>6 DEF IInv, TypeOK, CaptureFails, ReleaseMic, EndDictation, Owner, CaptureMode
    <3>2. stopPC' \in [Session -> StopPC]
      BY <1>6 DEF IInv, TypeOK, CaptureFails, StopPC
    <3>3. UNCHANGED <<phase, count, startPC, lock, liveVars, pipeVars, cancelVars, escVars>>
      BY <1>6 DEF CaptureFails, ReleaseMic, EndDictation
    <3> QED
      BY <3>1, <3>2, <3>3 DEF IInv, TypeOK
  <2>2. ArmingComesFirst'
    BY <1>6 DEF IInv, TypeOK, CaptureFails, ArmingComesFirst, BeforeArming,
         Session, Nobody
  <2>3. SamplesHaveOrigin'
    BY <1>6 DEF IInv, TypeOK, CaptureFails, SamplesHaveOrigin, Session, Nobody
  <2>4. ProcessingInHand'
    BY <1>6 DEF IInv, TypeOK, CaptureFails, ProcessingInHand, AfterArming,
         ArmingComesFirst, BeforeArming, Session
  <2>5. CaptureInHand'
    BY <1>6 DEF IInv, TypeOK, CaptureFails, ReleaseMic, EndDictation,
         CaptureInHand, DuckingFollowsMic, ArbiterYields, Nobody, Session,
         CaptureMode
  <2>6. QED
    BY <1>6, <2>1, <2>2, <2>3, <2>4, <2>5 DEF IInv, CaptureFails,
         ReleaseMic, EndDictation, ArmedHasOwner, Unarmed
<1>7. CASE CaptureRejected(n)
  <2>1. TypeOK'
    BY <1>7 DEF IInv, CaptureRejected, Fails, AbortRealtime, TypeOK, StopPC,
         Owner, Session, Nobody
  <2>2. ArmingComesFirst'
    BY <1>7 DEF IInv, TypeOK, CaptureRejected, Fails, AbortRealtime,
         ArmingComesFirst, BeforeArming, Session, Nobody
  <2>3. SamplesHaveOrigin'
    BY <1>7 DEF IInv, TypeOK, CaptureRejected, Fails, AbortRealtime,
         SamplesHaveOrigin, Session, Nobody
  <2>4. ProcessingInHand'
    BY <1>7 DEF IInv, TypeOK, CaptureRejected, Fails, AbortRealtime,
         ProcessingInHand, AfterArming, ArmingComesFirst, BeforeArming,
         Session
  <2>5. QED
    BY <1>7, <2>1, <2>2, <2>3, <2>4 DEF IInv, CaptureRejected, Fails,
         AbortRealtime, ArmedHasOwner, Unarmed, CaptureInHand,
         DuckingFollowsMic, ArbiterYields, Nobody
<1>8. CASE Recognizes(n)
  <2>1. TypeOK'
    BY <1>8 DEF IInv, Recognizes, TypeOK, StopPC, Owner, Session, Nobody
  <2>2. ArmingComesFirst'
    BY <1>8 DEF IInv, TypeOK, Recognizes, ArmingComesFirst, BeforeArming,
         Session, Nobody
  <2>3. SamplesHaveOrigin'
    BY <1>8 DEF IInv, TypeOK, Recognizes, SamplesHaveOrigin, Session, Nobody
  <2>4. ProcessingInHand'
    BY <1>8 DEF IInv, TypeOK, Recognizes, ProcessingInHand, AfterArming,
         ArmingComesFirst, BeforeArming, Session
  <2>5. QED
    BY <1>8, <2>1, <2>2, <2>3, <2>4 DEF IInv, Recognizes, ArmedHasOwner,
         Unarmed, CaptureInHand, DuckingFollowsMic, ArbiterYields, Nobody
<1>9. CASE AsrFails(n)
  <2>1. TypeOK'
    BY <1>9 DEF IInv, AsrFails, Fails, TypeOK, StopPC, Owner, Session, Nobody
  <2>2. ArmingComesFirst'
    BY <1>9 DEF IInv, TypeOK, AsrFails, Fails, ArmingComesFirst, BeforeArming,
         Session, Nobody
  <2>3. SamplesHaveOrigin'
    BY <1>9 DEF IInv, TypeOK, AsrFails, Fails, SamplesHaveOrigin, Session,
         Nobody
  <2>4. ProcessingInHand'
    BY <1>9 DEF IInv, TypeOK, AsrFails, Fails, ProcessingInHand, AfterArming,
         ArmingComesFirst, BeforeArming, Session
  <2>5. QED
    BY <1>9, <2>1, <2>2, <2>3, <2>4 DEF IInv, AsrFails, Fails, ArmedHasOwner,
         Unarmed, CaptureInHand, DuckingFollowsMic, ArbiterYields, Nobody
<1>10. CASE CorrectionFails(n)
  <2>1. TypeOK'
    BY <1>10 DEF IInv, CorrectionFails, Fails, TypeOK, StopPC, Owner, Session,
         Nobody
  <2>2. ArmingComesFirst'
    BY <1>10 DEF IInv, TypeOK, CorrectionFails, Fails, ArmingComesFirst,
         BeforeArming, Session, Nobody
  <2>3. SamplesHaveOrigin'
    BY <1>10 DEF IInv, TypeOK, CorrectionFails, Fails, SamplesHaveOrigin,
         Session, Nobody
  <2>4. ProcessingInHand'
    BY <1>10 DEF IInv, TypeOK, CorrectionFails, Fails, ProcessingInHand,
         AfterArming, ArmingComesFirst, BeforeArming, Session
  <2>5. QED
    BY <1>10, <2>1, <2>2, <2>3, <2>4 DEF IInv, CorrectionFails, Fails,
         ArmedHasOwner, Unarmed, CaptureInHand, DuckingFollowsMic,
         ArbiterYields, Nobody
<1>11. CASE Commits(n)
  <2>1. TypeOK'
    <3>1. armed' \in [owner : Owner, cancelled : BOOLEAN, committed : BOOLEAN]
      BY <1>11 DEF IInv, Commits, TypeOK
    <3> QED
      BY <1>11, <3>1 DEF IInv, Commits, TypeOK, StopPC
  <2>2. ArmingComesFirst'
    BY <1>11 DEF IInv, TypeOK, Commits, ArmingComesFirst, BeforeArming,
         Session, Nobody
  <2>3. ArmedHasOwner'
    BY <1>11 DEF IInv, TypeOK, Commits, ArmedHasOwner, Unarmed, Session,
         Nobody
  <2>4. SamplesHaveOrigin'
    BY <1>11 DEF IInv, TypeOK, Commits, SamplesHaveOrigin, Session, Nobody
  <2>5. ProcessingInHand'
    BY <1>11 DEF IInv, TypeOK, Commits, ProcessingInHand, AfterArming,
         ArmingComesFirst, BeforeArming, Session
  <2>6. QED
    BY <1>11, <2>1, <2>2, <2>3, <2>4, <2>5 DEF IInv, Commits, CaptureInHand,
         DuckingFollowsMic, ArbiterYields, Nobody
<1>12. CASE CommitRefused(n)
  <2>1. TypeOK'
    BY <1>12 DEF IInv, CommitRefused, Fails, AbortRealtime, TypeOK, StopPC,
         Owner, Session, Nobody
  <2>2. ArmingComesFirst'
    BY <1>12 DEF IInv, TypeOK, CommitRefused, Fails, AbortRealtime,
         ArmingComesFirst, BeforeArming, Session, Nobody
  <2>3. SamplesHaveOrigin'
    BY <1>12 DEF IInv, TypeOK, CommitRefused, Fails, AbortRealtime,
         SamplesHaveOrigin, Session, Nobody
  <2>4. ProcessingInHand'
    BY <1>12 DEF IInv, TypeOK, CommitRefused, Fails, AbortRealtime,
         ProcessingInHand, AfterArming, ArmingComesFirst, BeforeArming,
         Session
  <2>5. QED
    BY <1>12, <2>1, <2>2, <2>3, <2>4 DEF IInv, CommitRefused, Fails,
         AbortRealtime, ArmedHasOwner, Unarmed, CaptureInHand,
         DuckingFollowsMic, ArbiterYields, Nobody
<1>13. CASE Outputs(n)
  <2>1. TypeOK'
    BY <1>13 DEF IInv, Outputs, TypeOK, StopPC, Owner, SamplesHaveOrigin,
         Session, Nobody
  <2>2. ArmingComesFirst'
    BY <1>13 DEF IInv, TypeOK, Outputs, ArmingComesFirst, BeforeArming,
         Session, Nobody
  <2>3. SamplesHaveOrigin'
    BY <1>13 DEF IInv, TypeOK, Outputs, SamplesHaveOrigin, Session, Nobody
  <2>4. ProcessingInHand'
    BY <1>13 DEF IInv, TypeOK, Outputs, ProcessingInHand, AfterArming,
         ArmingComesFirst, BeforeArming, Session
  <2>5. QED
    BY <1>13, <2>1, <2>2, <2>3, <2>4 DEF IInv, Outputs, ArmedHasOwner,
         Unarmed, CaptureInHand, DuckingFollowsMic, ArbiterYields, Nobody
<1>14. CASE Drops(n)
  <2>1. TypeOK'
    BY <1>14 DEF IInv, Drops, TypeOK, StopPC
  <2>2. ArmingComesFirst'
    BY <1>14 DEF IInv, TypeOK, Drops, ArmingComesFirst, BeforeArming, Session,
         Nobody
  <2>3. SamplesHaveOrigin'
    BY <1>14 DEF IInv, TypeOK, Drops, SamplesHaveOrigin, Session, Nobody
  <2>4. ProcessingInHand'
    BY <1>14 DEF IInv, TypeOK, Drops, ProcessingInHand, AfterArming,
         ArmingComesFirst, BeforeArming, Session
  <2>5. QED
    BY <1>14, <2>1, <2>2, <2>3, <2>4 DEF IInv, Drops, ArmedHasOwner, Unarmed,
         CaptureInHand, DuckingFollowsMic, ArbiterYields, Nobody
<1>15. CASE Disarms(n)
  <2>1. TypeOK'
    BY <1>15 DEF IInv, Disarms, TypeOK, StopPC, Owner, Unarmed, Session,
         Nobody
  <2>2. ArmingComesFirst'
    <3>1. armed'.owner = Nobody /\ permits' = permits
      BY <1>15 DEF Disarms, Unarmed
    <3>2. \A m \in Session : stopPC'[m] \in BeforeArming => stopPC[m] \in BeforeArming
      BY <1>15 DEF IInv, TypeOK, Disarms, BeforeArming
    <3>3. QED
      BY <3>1, <3>2 DEF IInv, ArmingComesFirst, Session, Nobody
  <2>3. ArmedHasOwner'
    BY <1>15 DEF IInv, TypeOK, Disarms, ArmedHasOwner, Unarmed, Session,
         Nobody
  <2>4. SamplesHaveOrigin'
    BY <1>15 DEF IInv, TypeOK, Disarms, SamplesHaveOrigin, Session, Nobody
  <2>5. ProcessingInHand'
    BY <1>15 DEF IInv, TypeOK, Disarms, ProcessingInHand, AfterArming,
         ArmingComesFirst, BeforeArming, Session, Unarmed
  <2>6. QED
    BY <1>15, <2>1, <2>2, <2>3, <2>4, <2>5 DEF IInv, Disarms, CaptureInHand,
         DuckingFollowsMic, ArbiterYields, Nobody
<1>16. CASE StopFinishes(n)
  <2>1. TypeOK'
    BY <1>16 DEF IInv, StopFinishes, TypeOK, StopPC
  <2>2. ArmingComesFirst'
    BY <1>16 DEF IInv, TypeOK, StopFinishes, ArmingComesFirst, BeforeArming,
         Session, Nobody
  <2>3. SamplesHaveOrigin'
    BY <1>16 DEF IInv, TypeOK, StopFinishes, SamplesHaveOrigin, Session,
         Nobody
  <2>4. ProcessingInHand'
    BY <1>16 DEF IInv, TypeOK, StopFinishes, ProcessingInHand, AfterArming,
         ArmingComesFirst, BeforeArming, Session
  <2>5. QED
    BY <1>16, <2>1, <2>2, <2>3, <2>4 DEF IInv, StopFinishes, ArmedHasOwner,
         Unarmed, CaptureInHand, DuckingFollowsMic, ArbiterYields, Nobody
<1>17. CASE CaptureGivenUp(n)
  <2>1. TypeOK'
    BY <1>17 DEF IInv, CaptureGivenUp, Fails, AbortRealtime, TypeOK, StopPC,
         Owner, Session, Nobody
  <2>2. ArmingComesFirst'
    BY <1>17 DEF IInv, TypeOK, CaptureGivenUp, Fails, AbortRealtime,
         ArmingComesFirst, BeforeArming, Session, Nobody
  <2>3. SamplesHaveOrigin'
    BY <1>17 DEF IInv, TypeOK, CaptureGivenUp, Fails, AbortRealtime,
         SamplesHaveOrigin, Session, Nobody
  <2>4. ProcessingInHand'
    BY <1>17 DEF IInv, TypeOK, CaptureGivenUp, Fails, AbortRealtime,
         ProcessingInHand, AfterArming, ArmingComesFirst, BeforeArming,
         Session
  <2>5. QED
    BY <1>17, <2>1, <2>2, <2>3, <2>4 DEF IInv, CaptureGivenUp, Fails,
         AbortRealtime, ArmedHasOwner, Unarmed, CaptureInHand,
         DuckingFollowsMic, ArbiterYields, Nobody
<1> QED
  BY <1>1, <1>2, <1>3, <1>4, <1>5, <1>6, <1>7, <1>8, <1>9, <1>10, <1>11, <1>12,
     <1>13, <1>14, <1>15, <1>16, <1>17

\* The global Esc.
LEMMA EscInv ==
    ASSUME IInv,
           SyncEsc \/ EscPressed \/ EscDiscardsRecording \/
           EscAbandonsProcessing \/ EscIgnored
    PROVE  IInv'
<1>1. CASE SyncEsc
  <2>1. TypeOK'
    BY <1>1 DEF IInv, SyncEsc, TypeOK
  <2>2. QED
    BY <1>1, <2>1, Untouched DEF SyncEsc
<1>2. CASE EscPressed
  <2>1. TypeOK'
    BY <1>2 DEF IInv, EscPressed, TypeOK
  <2>2. QED
    BY <1>2, <2>1, Untouched DEF EscPressed
<1>3. CASE EscDiscardsRecording
  <2>1. TypeOK'
    BY <1>3 DEF IInv, EscDiscardsRecording, CancelRecording, ReleaseMic,
         EndDictation, TypeOK, Owner, CaptureMode, Session, Nobody
  <2>2. ProcessingInHand'
    BY <1>3 DEF IInv, TypeOK, EscDiscardsRecording, CancelRecording,
         ReleaseMic, EndDictation, ProcessingInHand, AfterArming,
         ArmingComesFirst, BeforeArming, Session
  <2>3. CaptureInHand'
    BY <1>3 DEF IInv, TypeOK, EscDiscardsRecording, CancelRecording,
         ReleaseMic, EndDictation, CaptureInHand, DuckingFollowsMic,
         ArbiterYields, Nobody, Session, CaptureMode
  <2>4. QED
    BY <1>3, <2>1, <2>2, <2>3 DEF IInv, EscDiscardsRecording, CancelRecording,
         ReleaseMic, EndDictation, ArmingComesFirst, BeforeArming,
         ArmedHasOwner, Unarmed, SamplesHaveOrigin
<1>4. CASE EscAbandonsProcessing
  <2>1. TypeOK'
    BY <1>4 DEF IInv, EscAbandonsProcessing, Cancellable, TypeOK, Owner,
         ArmedHasOwner, ProcessingInHand, Session, Nobody
  <2>2. ArmingComesFirst'
    BY <1>4 DEF IInv, TypeOK, EscAbandonsProcessing, Cancellable,
         ArmingComesFirst, BeforeArming, Session, Nobody
  <2>3. ArmedHasOwner'
    BY <1>4 DEF IInv, TypeOK, EscAbandonsProcessing, Cancellable,
         ArmedHasOwner, Unarmed, Session, Nobody
  <2>4. ProcessingInHand'
    BY <1>4 DEF IInv, TypeOK, EscAbandonsProcessing, Cancellable,
         ProcessingInHand, AfterArming, ArmingComesFirst, BeforeArming,
         Session
  <2>5. QED
    BY <1>4, <2>1, <2>2, <2>3, <2>4 DEF IInv, EscAbandonsProcessing,
         Cancellable, SamplesHaveOrigin, CaptureInHand, DuckingFollowsMic,
         ArbiterYields, Nobody
<1>5. CASE EscIgnored
  <2>1. TypeOK'
    BY <1>5 DEF IInv, EscIgnored, TypeOK
  <2>2. QED
    BY <1>5, <2>1, Untouched DEF EscIgnored
<1>6. QED  BY <1>1, <1>2, <1>3, <1>4, <1>5

LEMMA InitInv ==
    ASSUME Init
    PROVE  IInv
<1>1. TypeOK
  <2>1. count \in 0..MaxSessions
    BY MaxSessionsAssumption DEF Init
  <2>2. /\ startPC \in [Session -> StartPC]
        /\ stopPC \in [Session -> StopPC]
        /\ source \in [Session -> Owner]
    BY DEF Init, StartPC, StopPC, Owner
  <2>3. armed \in [owner : Owner, cancelled : BOOLEAN, committed : BOOLEAN]
    BY DEF Init, Unarmed, Owner
  <2>4. QED
    BY <2>1, <2>2, <2>3 DEF Init, TypeOK, CaptureMode, Owner
<1>2. ArmingComesFirst
  BY DEF Init, ArmingComesFirst, Session, Nobody, Unarmed
<1>3. ArmedHasOwner /\ ProcessingInHand
  BY DEF Init, ArmedHasOwner, ProcessingInHand
<1>4. SamplesHaveOrigin
  BY DEF Init, SamplesHaveOrigin
<1>5. CaptureInHand
  BY DEF Init, CaptureInHand, DuckingFollowsMic, ArbiterYields
<1>6. QED
  BY <1>1, <1>2, <1>3, <1>4, <1>5 DEF IInv

LEMMA NextInv ==
    ASSUME IInv, [Next]_vars
    PROVE  IInv'
<1>1. ASSUME NEW n \in Session,
             StartStep(n) \/ StartWaitEnds(n) \/ StartBegins(n)
      PROVE  IInv'
  BY <1>1, StartInv DEF StartStep, StartWaitEnds
<1>2. ASSUME NEW n \in Session, StopStep(n) \/ StopWaitEnds(n) \/ StopBegins(n)
      PROVE  IInv'
  BY <1>2, StopInv DEF StopStep, StopWaitEnds
<1>3. CASE SyncEsc \/ EscStep \/ EscPressed
  BY <1>3, EscInv DEF EscStep
<1>4. CASE UNCHANGED vars
  <2>1. TypeOK'
    BY <1>4 DEF IInv, TypeOK, vars
  <2>2. QED
    BY <1>4, <2>1, Untouched DEF vars
<1>5. QED
  BY <1>1, <1>2, <1>3, <1>4 DEF Next

\* How dictation touches the microphone and the arbiter: not at all, or it opens
\* a capture, or it ends one (start_recording_inner, cancel_recording_inner and
\* the pipeline's first step).
LEMMA MicSteps ==
    ASSUME Next
    PROVE  \/ UNCHANGED <<mic, mode>>
           \/ mic' \in Session /\ BeginDictation
           \/ mic' = Nobody /\ EndDictation
<1>1. ASSUME NEW n \in Session, StartOpens(n)
      PROVE  mic' \in Session /\ BeginDictation
  BY <1>1 DEF StartOpens
<1>2. ASSUME NEW n \in Session,
             StartDiscards(n) \/ TakesCapture(n) \/ CaptureFails(n)
             \/ EscDiscardsRecording
      PROVE  mic' = Nobody /\ EndDictation
  BY <1>2 DEF StartDiscards, TakesCapture, CaptureFails, EscDiscardsRecording,
       CancelRecording, ReleaseMic
<1>3. ASSUME NEW n \in Session,
             \/ StartStep(n) /\ ~StartDiscards(n)
             \/ StartWaitEnds(n) /\ ~StartOpens(n)
             \/ StartBegins(n)
      PROVE  UNCHANGED <<mic, mode>>
  BY <1>3 DEF StartStep, StartWaitEnds, StartBegins, StartSkips, StartWaits,
       StartLocks, StartNotReady, StartPrepares, StartCannotOpen,
       StartReserves, StartPublishes, StartYields, StartReportsError
<1>4. ASSUME NEW n \in Session,
             \/ StopStep(n) /\ ~TakesCapture(n) /\ ~CaptureFails(n)
             \/ StopWaitEnds(n)
             \/ StopBegins(n)
      PROVE  UNCHANGED <<mic, mode>>
  BY <1>4 DEF StopStep, StopWaitEnds, StopBegins, StopSeesNoCapture,
       StopSeesCapture, StopArms, Drops, Disarms, StopFinishes, Fails,
       CaptureGivenUp, CaptureRejected, Recognizes, AsrFails, CorrectionFails, Commits,
       CommitRefused, Outputs
<1>5. ASSUME SyncEsc \/ EscPressed \/ EscAbandonsProcessing \/ EscIgnored
      PROVE  UNCHANGED <<mic, mode>>
  BY <1>5 DEF SyncEsc, EscPressed, EscAbandonsProcessing, EscIgnored
<1>6. EscDiscardsRecording => mic' = Nobody /\ EndDictation
  BY DEF EscDiscardsRecording, CancelRecording, ReleaseMic
<1>7. QED
  BY <1>1, <1>2, <1>3, <1>4, <1>5, <1>6 DEF Next, EscStep, StartStep,
     StartWaitEnds, StopStep

\* The inductive invariant holds in every behaviour, however the tasks of any
\* number of sessions interleave.
THEOREM Invariance == Spec => [](IInv /\ Alone)
<1>1. Init => IInv /\ Alone
  BY InitInv DEF Init, Alone
<1>2. IInv /\ Alone /\ [Next]_vars => IInv' /\ Alone'
  <2>1. ASSUME IInv, Alone, Next PROVE Alone'
    <3>1. mode \in CaptureMode /\ Nobody \notin Session
      BY <2>1 DEF IInv, TypeOK, Session, Nobody
    <3>2. QED
      BY <2>1, <3>1, MicSteps DEF Alone, BeginDictation, EndDictation, CaptureMode
  <2>2. ASSUME Alone, UNCHANGED vars PROVE Alone'
    BY <2>2 DEF Alone, vars
  <2>3. QED
    BY <2>1, <2>2, NextInv
<1>3. QED
  BY <1>1, <1>2, PTL DEF Spec

\* Type correctness.
THEOREM TypeCorrect == Spec => []TypeOK
<1>1. IInv => TypeOK
  BY DEF IInv
<1>2. QED
  BY <1>1, Invariance, PTL

\* No exit of a start, a stop or an Esc leaves the output of other applications
\* ducked after the capture it was lowered for.
THEOREM DuckingCorrect == Spec => []DuckingFollowsMic
<1>1. IInv => DuckingFollowsMic
  BY DEF IInv, CaptureInHand
<1>2. QED
  BY <1>1, Invariance, PTL

\* Whichever task opens or ends a capture, CaptureArbiter says so.
THEOREM ArbiterCorrect == Spec => []ArbiterFollowsMic
<1>1. IInv /\ Alone => ArbiterFollowsMic
  BY DEF IInv, CaptureInHand, ArbiterYields, ArbiterFollowsMic, Alone
<1>2. QED
  BY <1>1, Invariance, PTL

\* Every path that ends a capture gives back ducking and arbiter, and no other
\* path does: both follow the microphone in every interleaving.
THEOREM CaptureCorrect == Spec => []CaptureOwnership
<1>1. DuckingFollowsMic /\ ArbiterFollowsMic => CaptureOwnership
  BY DEF CaptureOwnership
<1>2. QED
  BY <1>1, DuckingCorrect, ArbiterCorrect, PTL

\* PROCESSING is never stranded: the stop task of the last session is still there
\* to leave it, although tasks of cancelled sessions disarm, drop and finish
\* around it.
THEOREM ProcessingCorrect == Spec => []ProcessingIsOwned
<1>1. IInv => ProcessingIsOwned
  BY DEF IInv, ProcessingInHand, ProcessingIsOwned, Session
<1>2. QED
  BY <1>1, Invariance, PTL

-----------------------------------------------------------------------------
(* Paced sessions *)

\* Where the last session's stop task is.
At == IF count \in Session THEN stopPC[count] ELSE "new"

\* Only the last session has a stop task at work, and only sessions begun have
\* tasks.
LastWorks ==
    \A n \in Session :
        /\ stopPC[n] \notin {"new", "done"} => n = count
        /\ n > count => startPC[n] = "new" /\ stopPC[n] = "new"

\* What is armed belongs to it, and Esc has told it so in the same step as it
\* reset the phase.
CancelFollowsStop ==
    /\ At \in {"new", "done"} =>
          phase # "processing" /\ armed = Unarmed /\ permits = {}
    /\ At \in {"begun", "arming", "finishing"} =>
          phase = "processing" /\ armed = Unarmed /\ permits = {}
    /\ At \in {"select", "broken", "asr", "correct", "insert", "ended", "dropped"} =>
          armed.owner = count
    /\ At \in {"select", "insert", "ended"} =>
          phase = "processing" /\ armed.cancelled = FALSE /\ permits = {}
    /\ At \in {"broken", "asr", "correct"} =>
          IF armed.cancelled = TRUE THEN phase = "idle" /\ permits = {count}
                                    ELSE phase = "processing" /\ permits = {}
    /\ At \in {"select", "broken", "asr", "correct"} => armed.committed = FALSE
    /\ At = "insert" => armed.committed = TRUE
    /\ At = "dropped" =>
          phase = "idle" /\ armed.cancelled = TRUE /\ permits = {}

\* Only one start holds the lock, with no capture beside it; none is on its way to
\* the microphone while a pipeline runs.
StartsYield ==
    /\ \A n \in Session : startPC[n] \in {"gate", "opening"} <=> lock = n
    /\ lock # Nobody => mic = Nobody
    /\ At \in {"arming", "select", "broken", "asr", "correct", "insert", "ended", "dropped"} =>
          /\ lock = Nobody
          /\ \A n \in Session : startPC[n] \in {"new", "reserving", "checking", "done"}
    /\ At \in {"begun", "finishing"} =>
          \A n \in Session : startPC[n] \notin {"begun", "failed"}
                             /\ (startPC[n] = "waiting" => lock # Nobody)
    /\ At \in {"broken", "asr", "correct", "insert", "ended", "dropped", "finishing"} => mic = Nobody
    /\ \A n \in Session : startPC[n] = "failed" => mic = Nobody

\* An Esc in progress meets a recording, or a stop task that waits.
EscIsPaced ==
    esc = TRUE => \/ phase = "recording" /\ mic # Nobody
                  \/ phase = "processing" /\ At \in {"broken", "asr", "correct", "insert"}

\* The phase, the microphone and the grabbed Esc agree but for what a start task
\* has still to check.
PhaseInHand ==
    /\ phase = "idle" /\ mic # Nobody =>
          \E n \in Session : startPC[n] \in {"reserving", "checking"}
    /\ phase = "recording" =>
          /\ count \in Session
          /\ mic = Nobody =>
               /\ startPC[count] \in {"begun", "waiting", "gate", "opening", "failed"}
               /\ grab = FALSE /\ syncs = FALSE
          /\ mic # Nobody /\ syncs = FALSE /\ grab = FALSE =>
               \E n \in Session : startPC[n] \in {"reserving", "checking"}
    /\ phase = "idle" /\ syncs = FALSE => grab = FALSE

\* The invariant of paced sessions.
PacedInv ==
    /\ LastWorks /\ CancelFollowsStop /\ StartsYield /\ EscIsPaced /\ PhaseInHand

\* What the proofs below take from the types.
LEMMA PacedTypes ==
    ASSUME IInv
    PROVE  /\ startPC \in [Session -> StartPC] /\ stopPC \in [Session -> StopPC]
           /\ source \in [Session -> Owner] /\ output \subseteq Session \X Session
           /\ abandoned \subseteq Session /\ permits \subseteq Session
           /\ mic \in Session \cup {Nobody} /\ realtime \in Session \cup {Nobody}
           /\ lock \in Session \cup {Nobody}
           /\ armed \in [owner : Owner, cancelled : BOOLEAN, committed : BOOLEAN]
           /\ grab \in BOOLEAN /\ syncs \in BOOLEAN /\ esc \in BOOLEAN
           /\ phase \in {"idle", "recording", "processing"}
           /\ Nobody \notin Session
  BY DEF IInv, TypeOK, Owner, Session, Nobody

\* A step of a stop task at work is a step of the last session's.
LEMMA AtMoves ==
    ASSUME LastWorks, NEW n \in Session, NEW from, NEW to, StopAt(n, from, to), IInv,
           from \notin {"new", "done"}, UNCHANGED count
    PROVE  n = count /\ At = from /\ At' = to
  BY PacedTypes DEF LastWorks, At

LEMMA AtStays == ASSUME UNCHANGED <<count, stopPC>> PROVE At' = At
  BY DEF At

\* What a key or the end of a wait finds.
LEMMA Calms ==
    ASSUME IInv, PacedInv, Calm
    PROVE  /\ At \in {"new", "broken", "asr", "correct", "insert", "done"}
           /\ permits = {} /\ syncs = FALSE /\ esc = FALSE
           /\ \A n \in Session : \/ startPC[n] \in {"new", "gate", "opening", "reserving", "done"}
                                 \/ startPC[n] = "waiting" /\ lock # Nobody
<1>1. esc = FALSE
  BY PacedTypes DEF PacedInv, Calm, EscIsPaced, StartsYield
<1> QED
  BY <1>1, PacedTypes DEF Calm, At

\* The start tasks.
LEMMA PacedStart ==
    ASSUME IInv, PacedInv, NEW n \in Session,
           \/ StartSkips(n) \/ StartWaits(n) \/ StartLocks(n) \/
              StartPublishes(n) \/ StartDiscards(n) \/ StartYields(n) \/
              StartReportsError(n)
           \/ /\ Calm
              /\ StartNotReady(n) \/ StartPrepares(n) \/ StartOpens(n) \/
                 StartCannotOpen(n) \/ StartReserves(n)
    PROVE  PacedInv'
<1> USE PacedTypes DEF PacedInv
<1>1. CASE StartSkips(n)
  <2>1. At' = At /\ count' = count
    BY <1>1, AtStays DEF StartSkips
  <2>2. LastWorks' /\ CancelFollowsStop' /\ EscIsPaced'
    BY <1>1, <2>1 DEF StartSkips, LastWorks, CancelFollowsStop, Unarmed,
        EscIsPaced, StartsYield
  <2>3. StartsYield' /\ PhaseInHand'
    BY <1>1, <2>1 DEF StartSkips, StartsYield, PhaseInHand, CancelFollowsStop,
        EscIsPaced, StartPC
  <2> QED
    BY <2>1, <2>2, <2>3
<1>2. CASE StartWaits(n)
  <2>1. At' = At /\ count' = count
    BY <1>2, AtStays DEF StartWaits
  <2>2. LastWorks' /\ CancelFollowsStop' /\ EscIsPaced'
    BY <1>2, <2>1 DEF StartWaits, LastWorks, CancelFollowsStop, Unarmed,
        EscIsPaced, StartsYield
  <2>3. StartsYield' /\ PhaseInHand'
    BY <1>2, <2>1 DEF StartWaits, StartsYield, PhaseInHand, CancelFollowsStop,
        EscIsPaced, StartPC
  <2> QED
    BY <2>1, <2>2, <2>3
<1>3. CASE StartLocks(n)
  <2>1. At' = At /\ count' = count
    BY <1>3, AtStays DEF StartLocks
  <2>2. LastWorks'
    BY <1>3, <2>1 DEF StartLocks, LastWorks
  <2>3. EscIsPaced'
    BY <1>3, <2>1 DEF StartLocks, CancelFollowsStop, EscIsPaced, StartsYield
  <2>4. CancelFollowsStop'
    BY <1>3, <2>1 DEF StartLocks, CancelFollowsStop, Unarmed
  <2>5. StartsYield' /\ PhaseInHand'
    BY <1>3, <2>1 DEF StartLocks, StartsYield, PhaseInHand, CancelFollowsStop,
        EscIsPaced, StartPC
  <2> QED
    BY <2>1, <2>2, <2>3, <2>4, <2>5
<1>4. CASE StartNotReady(n) /\ Calm
  <2>1. At' = At /\ count' = count
    BY <1>4, AtStays DEF StartNotReady
  <2>2. LastWorks' /\ CancelFollowsStop' /\ EscIsPaced'
    BY <1>4, <2>1, Calms DEF StartNotReady, LastWorks, CancelFollowsStop,
        Unarmed, EscIsPaced, StartsYield
  <2>3. StartsYield' /\ PhaseInHand'
    <3>1. StartsYield'
      BY <1>4, <2>1, Calms DEF StartNotReady, StartsYield, CancelFollowsStop, StartPC
    <3>2. PhaseInHand'
      BY <1>4, <2>1, Calms DEF StartNotReady, StartsYield, PhaseInHand,
          CancelFollowsStop, EscIsPaced, StartPC
    <3> QED
      BY <3>1, <3>2
  <2> QED
    BY <2>1, <2>2, <2>3
<1>5. CASE StartPrepares(n) /\ Calm
  <2>1. At' = At /\ count' = count
    BY <1>5, AtStays DEF StartPrepares
  <2>2. LastWorks' /\ CancelFollowsStop' /\ EscIsPaced'
    BY <1>5, <2>1, Calms DEF StartPrepares, LastWorks, CancelFollowsStop,
        Unarmed, EscIsPaced, StartsYield
  <2>3. StartsYield' /\ PhaseInHand'
    <3>1. StartsYield'
      BY <1>5, <2>1, Calms DEF StartPrepares, StartsYield, CancelFollowsStop, StartPC
    <3>2. PhaseInHand'
      BY <1>5, <2>1, Calms DEF StartPrepares, StartsYield, PhaseInHand,
          CancelFollowsStop, EscIsPaced, StartPC
    <3> QED
      BY <3>1, <3>2
  <2> QED
    BY <2>1, <2>2, <2>3
<1>6. CASE StartOpens(n) /\ Calm
  <2>1. At' = At /\ count' = count
    BY <1>6, AtStays DEF StartOpens
  <2>2. LastWorks' /\ CancelFollowsStop' /\ EscIsPaced'
    BY <1>6, <2>1, Calms DEF StartOpens, LastWorks, CancelFollowsStop, Unarmed,
        EscIsPaced, StartsYield
  <2>3. StartsYield' /\ PhaseInHand'
    <3>1. StartsYield'
      BY <1>6, <2>1, Calms DEF StartOpens, StartsYield, CancelFollowsStop, StartPC
    <3>2. PhaseInHand'
      BY <1>6, <2>1, Calms DEF StartOpens, StartsYield, PhaseInHand,
          CancelFollowsStop, EscIsPaced, StartPC
    <3> QED
      BY <3>1, <3>2
  <2> QED
    BY <2>1, <2>2, <2>3
<1>7. CASE StartCannotOpen(n) /\ Calm
  <2>1. At' = At /\ count' = count
    BY <1>7, AtStays DEF StartCannotOpen
  <2>2. LastWorks' /\ CancelFollowsStop' /\ EscIsPaced'
    BY <1>7, <2>1, Calms DEF StartCannotOpen, LastWorks, CancelFollowsStop,
        Unarmed, EscIsPaced, StartsYield
  <2>3. StartsYield' /\ PhaseInHand'
    <3>1. StartsYield'
      BY <1>7, <2>1, Calms DEF StartCannotOpen, StartsYield, CancelFollowsStop, StartPC
    <3>2. PhaseInHand'
      BY <1>7, <2>1, Calms DEF StartCannotOpen, StartsYield, PhaseInHand,
          CancelFollowsStop, EscIsPaced, StartPC
    <3> QED
      BY <3>1, <3>2
  <2> QED
    BY <2>1, <2>2, <2>3
<1>8. CASE StartReserves(n) /\ Calm
  <2>1. At' = At /\ count' = count
    BY <1>8, AtStays DEF StartReserves
  <2>2. LastWorks' /\ CancelFollowsStop' /\ EscIsPaced'
    BY <1>8, <2>1, Calms DEF StartReserves, LastWorks, CancelFollowsStop,
        Unarmed, EscIsPaced, StartsYield
  <2>3. StartsYield' /\ PhaseInHand'
    <3>1. StartsYield'
      BY <1>8, <2>1, Calms DEF StartReserves, StartsYield, CancelFollowsStop, StartPC
    <3>2. PhaseInHand'
      BY <1>8, <2>1, Calms DEF StartReserves, StartsYield, PhaseInHand,
          CancelFollowsStop, EscIsPaced, StartPC
    <3> QED
      BY <3>1, <3>2
  <2> QED
    BY <2>1, <2>2, <2>3
<1>9. CASE StartPublishes(n)
  <2>1. At' = At /\ count' = count
    BY <1>9, AtStays DEF StartPublishes
  <2>2. LastWorks' /\ CancelFollowsStop' /\ EscIsPaced'
    BY <1>9, <2>1 DEF StartPublishes, LastWorks, CancelFollowsStop, Unarmed,
        EscIsPaced, StartsYield
  <2>3. StartsYield' /\ PhaseInHand'
    BY <1>9, <2>1 DEF StartPublishes, StartsYield, PhaseInHand,
        CancelFollowsStop, EscIsPaced, StartPC
  <2> QED
    BY <2>1, <2>2, <2>3
<1>10. CASE StartDiscards(n)
  <2>1. At' = At /\ count' = count
    BY <1>10, AtStays DEF StartDiscards, CancelRecording, ReleaseMic
  <2>2. LastWorks' /\ CancelFollowsStop' /\ EscIsPaced'
    BY <1>10, <2>1 DEF StartDiscards, CancelRecording, ReleaseMic, LastWorks,
        CancelFollowsStop, Unarmed, EscIsPaced, StartsYield
  <2>3. StartsYield' /\ PhaseInHand'
    BY <1>10, <2>1 DEF StartDiscards, CancelRecording, ReleaseMic, StartsYield,
        PhaseInHand, CancelFollowsStop, EscIsPaced, StartPC
  <2> QED
    BY <2>1, <2>2, <2>3
<1>11. CASE StartYields(n)
  <2>1. At' = At /\ count' = count
    BY <1>11, AtStays DEF StartYields
  <2>2. LastWorks' /\ CancelFollowsStop' /\ EscIsPaced'
    BY <1>11, <2>1 DEF StartYields, LastWorks, CancelFollowsStop, Unarmed,
        EscIsPaced, StartsYield
  <2>3. StartsYield' /\ PhaseInHand'
    BY <1>11, <2>1 DEF StartYields, StartsYield, PhaseInHand, CancelFollowsStop,
        EscIsPaced, StartPC
  <2> QED
    BY <2>1, <2>2, <2>3
<1>12. CASE StartReportsError(n)
  <2>1. At' = At /\ count' = count
    BY <1>12, AtStays DEF StartReportsError
  <2>2. LastWorks' /\ CancelFollowsStop' /\ EscIsPaced'
    BY <1>12, <2>1 DEF StartReportsError, LastWorks, CancelFollowsStop, Unarmed,
        EscIsPaced, StartsYield
  <2>3. StartsYield' /\ PhaseInHand'
    BY <1>12, <2>1 DEF StartReportsError, StartsYield, PhaseInHand,
        CancelFollowsStop, EscIsPaced, StartPC
  <2> QED
    BY <2>1, <2>2, <2>3
<1> QED
  BY <1>1, <1>2, <1>3, <1>4, <1>5, <1>6, <1>7, <1>8, <1>9, <1>10, <1>11, <1>12

\* The stop tasks.
LEMMA PacedStop ==
    ASSUME IInv, PacedInv, NEW n \in Session,
           \/ StopSeesNoCapture(n) \/ StopSeesCapture(n) \/ StopArms(n) \/
              TakesCapture(n) \/ CaptureFails(n) \/ StopFinishes(n)
           \/ /\ Calm
              /\ CaptureGivenUp(n) \/ CaptureRejected(n) \/ Recognizes(n) \/
                 AsrFails(n) \/ CorrectionFails(n) \/ Commits(n) \/
                 CommitRefused(n) \/ Outputs(n)
    PROVE  PacedInv'
<1> USE PacedTypes DEF PacedInv
<1>1. CASE StopSeesNoCapture(n)
  <2>1. n = count /\ At = "begun" /\ At' = "finishing" /\ count' = count
    BY <1>1, AtMoves DEF StopSeesNoCapture
  <2>2. LastWorks' /\ CancelFollowsStop' /\ EscIsPaced'
    BY <1>1, <2>1 DEF StopSeesNoCapture, LastWorks, CancelFollowsStop, Unarmed,
        EscIsPaced, StartsYield
  <2>3. StartsYield' /\ PhaseInHand'
    BY <1>1, <2>1 DEF StopSeesNoCapture, StartsYield, PhaseInHand,
        CancelFollowsStop, EscIsPaced, StartPC
  <2> QED
    BY <2>1, <2>2, <2>3
<1>2. CASE StopSeesCapture(n)
  <2>1. n = count /\ At = "begun" /\ At' = "arming" /\ count' = count
    BY <1>2, AtMoves DEF StopSeesCapture
  <2>2. LastWorks'
    BY <1>2, <2>1 DEF StopSeesCapture, LastWorks
  <2>3. EscIsPaced'
    BY <1>2, <2>1 DEF StopSeesCapture, CancelFollowsStop, EscIsPaced,
        StartsYield
  <2>4. CancelFollowsStop'
    BY <1>2, <2>1 DEF StopSeesCapture, CancelFollowsStop, Unarmed
  <2>5. StartsYield' /\ PhaseInHand'
    BY <1>2, <2>1 DEF StopSeesCapture, StartsYield, PhaseInHand,
        CancelFollowsStop, EscIsPaced, StartPC
  <2> QED
    BY <2>1, <2>2, <2>3, <2>4, <2>5
<1>3. CASE StopArms(n)
  <2>1. n = count /\ At = "arming" /\ At' = "select" /\ count' = count
    BY <1>3, AtMoves DEF StopArms
  <2>2. LastWorks' /\ CancelFollowsStop' /\ EscIsPaced'
    BY <1>3, <2>1 DEF StopArms, LastWorks, CancelFollowsStop, Unarmed,
        EscIsPaced, StartsYield
  <2>3. StartsYield' /\ PhaseInHand'
    BY <1>3, <2>1 DEF StopArms, StartsYield, PhaseInHand, CancelFollowsStop,
        EscIsPaced, StartPC
  <2> QED
    BY <2>1, <2>2, <2>3
<1>4. CASE TakesCapture(n)
  <2>1. n = count /\ At = "select" /\ At' = "asr" /\ count' = count
    BY <1>4, AtMoves DEF TakesCapture, ReleaseMic
  <2>2. LastWorks'
    BY <1>4, <2>1 DEF TakesCapture, ReleaseMic, LastWorks
  <2>3. EscIsPaced'
    BY <1>4, <2>1 DEF TakesCapture, ReleaseMic, CancelFollowsStop, EscIsPaced,
        StartsYield
  <2>4. CancelFollowsStop'
    BY <1>4, <2>1 DEF TakesCapture, ReleaseMic, CancelFollowsStop, Unarmed
  <2>5. StartsYield' /\ PhaseInHand'
    BY <1>4, <2>1 DEF TakesCapture, ReleaseMic, StartsYield, PhaseInHand,
        CancelFollowsStop, EscIsPaced, StartPC
  <2> QED
    BY <2>1, <2>2, <2>3, <2>4, <2>5
<1>5. CASE CaptureFails(n)
  <2>1. n = count /\ At = "select" /\ At' = "broken" /\ count' = count
    BY <1>5, AtMoves DEF CaptureFails, ReleaseMic
  <2>2. LastWorks'
    BY <1>5, <2>1 DEF CaptureFails, ReleaseMic, LastWorks
  <2>3. EscIsPaced'
    BY <1>5, <2>1 DEF CaptureFails, ReleaseMic,
        CancelFollowsStop, EscIsPaced, StartsYield
  <2>4. CancelFollowsStop'
    BY <1>5, <2>1 DEF CaptureFails, ReleaseMic,
        CancelFollowsStop, Unarmed
  <2>5. StartsYield' /\ PhaseInHand'
    BY <1>5, <2>1 DEF CaptureFails, ReleaseMic,
        StartsYield, PhaseInHand, CancelFollowsStop, EscIsPaced, StartPC
  <2> QED
    BY <2>1, <2>2, <2>3, <2>4, <2>5
<1>6. CASE CaptureRejected(n) /\ Calm
  <2>1. n = count /\ At = "asr" /\ At' = "ended" /\ count' = count
    BY <1>6, AtMoves DEF CaptureRejected, Fails, AbortRealtime
  <2>2. LastWorks'
    BY <1>6, <2>1, Calms DEF CaptureRejected, Fails, AbortRealtime, LastWorks
  <2>3. EscIsPaced'
    BY <1>6, <2>1, Calms DEF CaptureRejected, Fails, AbortRealtime,
        CancelFollowsStop, EscIsPaced, StartsYield
  <2>4. CancelFollowsStop'
    <3>1. UNCHANGED <<phase, permits, armed>>
      BY <1>6 DEF CaptureRejected, Fails, AbortRealtime
    <3>2. /\ armed.owner = count /\ armed.cancelled = FALSE
          /\ phase = "processing" /\ permits = {}
      BY <1>6, <2>1, Calms DEF CaptureRejected, Fails, CancelFollowsStop
    <3> QED
      BY <2>1, <3>1, <3>2 DEF CancelFollowsStop
  <2>5. StartsYield' /\ PhaseInHand'
    BY <1>6, <2>1, Calms DEF CaptureRejected, Fails, AbortRealtime, StartsYield,
        PhaseInHand, CancelFollowsStop, EscIsPaced, StartPC
  <2> QED
    BY <2>1, <2>2, <2>3, <2>4, <2>5
<1>7. CASE Recognizes(n) /\ Calm
  <2>1. n = count /\ At = "asr" /\ At' = "correct" /\ count' = count
    BY <1>7, AtMoves DEF Recognizes
  <2>2. LastWorks'
    BY <1>7, <2>1, Calms DEF Recognizes, LastWorks
  <2>3. EscIsPaced'
    BY <1>7, <2>1, Calms DEF Recognizes, CancelFollowsStop, EscIsPaced,
        StartsYield
  <2>4. CancelFollowsStop'
    BY <1>7, <2>1, Calms DEF Recognizes, CancelFollowsStop, Unarmed
  <2>5. StartsYield' /\ PhaseInHand'
    BY <1>7, <2>1, Calms DEF Recognizes, StartsYield, PhaseInHand,
        CancelFollowsStop, EscIsPaced, StartPC
  <2> QED
    BY <2>1, <2>2, <2>3, <2>4, <2>5
<1>8. CASE AsrFails(n) /\ Calm
  <2>1. n = count /\ At = "asr" /\ At' = "ended" /\ count' = count
    BY <1>8, AtMoves DEF AsrFails, Fails
  <2>2. LastWorks'
    BY <1>8, <2>1, Calms DEF AsrFails, Fails, LastWorks
  <2>3. EscIsPaced'
    BY <1>8, <2>1, Calms DEF AsrFails, Fails, CancelFollowsStop, EscIsPaced,
        StartsYield
  <2>4. CancelFollowsStop'
    <3>1. UNCHANGED <<phase, permits, armed>>
      BY <1>8 DEF AsrFails, Fails
    <3>2. /\ armed.owner = count /\ armed.cancelled = FALSE
          /\ phase = "processing" /\ permits = {}
      BY <1>8, <2>1, Calms DEF AsrFails, Fails, CancelFollowsStop
    <3> QED
      BY <2>1, <3>1, <3>2 DEF CancelFollowsStop
  <2>5. StartsYield' /\ PhaseInHand'
    BY <1>8, <2>1, Calms DEF AsrFails, Fails, StartsYield, PhaseInHand,
        CancelFollowsStop, EscIsPaced, StartPC
  <2> QED
    BY <2>1, <2>2, <2>3, <2>4, <2>5
<1>9. CASE CorrectionFails(n) /\ Calm
  <2>1. n = count /\ At = "correct" /\ At' = "ended" /\ count' = count
    BY <1>9, AtMoves DEF CorrectionFails, Fails
  <2>2. LastWorks'
    BY <1>9, <2>1, Calms DEF CorrectionFails, Fails, LastWorks
  <2>3. EscIsPaced'
    BY <1>9, <2>1, Calms DEF CorrectionFails, Fails, CancelFollowsStop,
        EscIsPaced, StartsYield
  <2>4. CancelFollowsStop'
    <3>1. UNCHANGED <<phase, permits, armed>>
      BY <1>9 DEF CorrectionFails, Fails
    <3>2. /\ armed.owner = count /\ armed.cancelled = FALSE
          /\ phase = "processing" /\ permits = {}
      BY <1>9, <2>1, Calms DEF CorrectionFails, Fails, CancelFollowsStop
    <3> QED
      BY <2>1, <3>1, <3>2 DEF CancelFollowsStop
  <2>5. StartsYield' /\ PhaseInHand'
    BY <1>9, <2>1, Calms DEF CorrectionFails, Fails, StartsYield, PhaseInHand,
        CancelFollowsStop, EscIsPaced, StartPC
  <2> QED
    BY <2>1, <2>2, <2>3, <2>4, <2>5
<1>10. CASE Commits(n) /\ Calm
  <2>1. n = count /\ At = "correct" /\ At' = "insert" /\ count' = count
    BY <1>10, AtMoves DEF Commits
  <2>2. LastWorks' /\ CancelFollowsStop' /\ EscIsPaced'
    BY <1>10, <2>1, Calms DEF Commits, LastWorks, CancelFollowsStop, Unarmed,
        EscIsPaced, StartsYield
  <2>3. StartsYield' /\ PhaseInHand'
    BY <1>10, <2>1, Calms DEF Commits, StartsYield, PhaseInHand,
        CancelFollowsStop, EscIsPaced, StartPC
  <2> QED
    BY <2>1, <2>2, <2>3
<1>11. CASE CommitRefused(n) /\ Calm
  <2>1. n = count /\ At = "correct" /\ At' = "ended" /\ count' = count
    BY <1>11, AtMoves DEF CommitRefused, Fails, AbortRealtime
  <2>2. LastWorks'
    BY <1>11, <2>1, Calms DEF CommitRefused, Fails, AbortRealtime, LastWorks
  <2>3. EscIsPaced'
    BY <1>11, <2>1, Calms DEF CommitRefused, Fails, AbortRealtime,
        CancelFollowsStop, EscIsPaced, StartsYield
  <2>4. CancelFollowsStop'
    BY <1>11, <2>1, Calms DEF CommitRefused, Fails, AbortRealtime,
        CancelFollowsStop, Unarmed
  <2>5. StartsYield' /\ PhaseInHand'
    BY <1>11, <2>1, Calms DEF CommitRefused, Fails, AbortRealtime, StartsYield,
        PhaseInHand, CancelFollowsStop, EscIsPaced, StartPC
  <2> QED
    BY <2>1, <2>2, <2>3, <2>4, <2>5
<1>12. CASE Outputs(n) /\ Calm
  <2>1. n = count /\ At = "insert" /\ At' = "ended" /\ count' = count
    BY <1>12, AtMoves DEF Outputs, Fails
  <2>2. LastWorks'
    BY <1>12, <2>1, Calms DEF Outputs, Fails, LastWorks
  <2>3. EscIsPaced'
    BY <1>12, <2>1, Calms DEF Outputs, Fails, CancelFollowsStop, EscIsPaced,
        StartsYield
  <2>4. CancelFollowsStop'
    BY <1>12, <2>1, Calms DEF Outputs, Fails, CancelFollowsStop, Unarmed
  <2>5. StartsYield' /\ PhaseInHand'
    BY <1>12, <2>1, Calms DEF Outputs, Fails, StartsYield, PhaseInHand,
        CancelFollowsStop, EscIsPaced, StartPC
  <2> QED
    BY <2>1, <2>2, <2>3, <2>4, <2>5
<1>13. CASE StopFinishes(n)
  <2>1. n = count /\ At = "finishing" /\ At' = "done" /\ count' = count
    BY <1>13, AtMoves DEF StopFinishes
  <2>2. LastWorks' /\ CancelFollowsStop' /\ EscIsPaced'
    BY <1>13, <2>1 DEF StopFinishes, LastWorks, CancelFollowsStop, Unarmed,
        EscIsPaced, StartsYield
  <2>3. StartsYield' /\ PhaseInHand'
    BY <1>13, <2>1 DEF StopFinishes, StartsYield, PhaseInHand,
        CancelFollowsStop, EscIsPaced, StartPC
  <2> QED
    BY <2>1, <2>2, <2>3
<1>14. CASE CaptureGivenUp(n) /\ Calm
  <2>1. n = count /\ At = "broken" /\ At' = "ended" /\ count' = count
    BY <1>14, AtMoves DEF CaptureGivenUp, Fails, AbortRealtime
  <2>2. LastWorks'
    BY <1>14, <2>1, Calms DEF CaptureGivenUp, Fails, AbortRealtime, LastWorks
  <2>3. EscIsPaced'
    BY <1>14, <2>1, Calms DEF CaptureGivenUp, Fails, AbortRealtime,
        CancelFollowsStop, EscIsPaced, StartsYield
  <2>4. CancelFollowsStop'
    <3>1. UNCHANGED <<phase, permits, armed>>
      BY <1>14 DEF CaptureGivenUp, Fails, AbortRealtime
    <3>2. /\ armed.owner = count /\ armed.cancelled = FALSE
          /\ phase = "processing" /\ permits = {}
      BY <1>14, <2>1, Calms DEF CaptureGivenUp, Fails, CancelFollowsStop
    <3> QED
      BY <2>1, <3>1, <3>2 DEF CancelFollowsStop
  <2>5. StartsYield' /\ PhaseInHand'
    BY <1>14, <2>1, Calms DEF CaptureGivenUp, Fails, AbortRealtime, StartsYield,
        PhaseInHand, CancelFollowsStop, EscIsPaced, StartPC
  <2> QED
    BY <2>1, <2>2, <2>3, <2>4, <2>5
<1> QED
  BY <1>1, <1>2, <1>3, <1>4, <1>5, <1>6, <1>7, <1>8, <1>9, <1>10, <1>11, <1>12,
      <1>13, <1>14

\* The global Esc.
LEMMA PacedEsc ==
    ASSUME IInv, PacedInv,
           \/ SyncEsc \/ EscDiscardsRecording \/ EscAbandonsProcessing \/
              EscIgnored
           \/ /\ Calm
              /\ EscPressed
    PROVE  PacedInv'
<1> USE PacedTypes DEF PacedInv
<1>1. CASE SyncEsc
  <2>1. At' = At /\ count' = count
    BY <1>1, AtStays DEF SyncEsc
  <2>2. LastWorks' /\ CancelFollowsStop' /\ EscIsPaced'
    BY <1>1, <2>1 DEF SyncEsc, LastWorks, CancelFollowsStop, Unarmed,
        EscIsPaced, StartsYield
  <2>3. StartsYield' /\ PhaseInHand'
    BY <1>1, <2>1 DEF SyncEsc, StartsYield, PhaseInHand, CancelFollowsStop,
        EscIsPaced, StartPC
  <2> QED
    BY <2>1, <2>2, <2>3
<1>2. CASE EscPressed /\ Calm
  <2>1. At' = At /\ count' = count
    BY <1>2, AtStays DEF EscPressed
  <2>2. LastWorks' /\ CancelFollowsStop' /\ EscIsPaced'
    <3>1. grab = TRUE /\ esc' = TRUE
      BY <1>2, PacedTypes DEF EscPressed
    <3>2. \/ phase = "recording" /\ mic # Nobody
          \/ phase = "processing" /\ At \in {"broken", "asr", "correct", "insert"}
      BY <1>2, <3>1, Calms DEF PhaseInHand, CancelFollowsStop
    <3> QED
      BY <1>2, <2>1, <3>1, <3>2, Calms DEF EscPressed, EscIsPaced, LastWorks,
          CancelFollowsStop
  <2>3. StartsYield' /\ PhaseInHand'
    BY <1>2, <2>1, Calms DEF EscPressed, StartsYield, PhaseInHand,
        CancelFollowsStop, EscIsPaced, StartPC
  <2> QED
    BY <2>1, <2>2, <2>3
<1>3. CASE EscDiscardsRecording
  <2>1. At' = At /\ count' = count
    BY <1>3, AtStays DEF EscDiscardsRecording, CancelRecording, ReleaseMic
  <2>2. LastWorks' /\ CancelFollowsStop' /\ EscIsPaced'
    BY <1>3, <2>1 DEF EscDiscardsRecording, CancelRecording, ReleaseMic,
        LastWorks, CancelFollowsStop, Unarmed, EscIsPaced, StartsYield
  <2>3. StartsYield' /\ PhaseInHand'
    BY <1>3, <2>1 DEF EscDiscardsRecording, CancelRecording, ReleaseMic,
        StartsYield, PhaseInHand, CancelFollowsStop, EscIsPaced, StartPC
  <2> QED
    BY <2>1, <2>2, <2>3
<1>4. CASE EscAbandonsProcessing
  <2>1. At' = At /\ count' = count
    BY <1>4, AtStays DEF EscAbandonsProcessing, Cancellable
  <2>2. LastWorks'
    BY <1>4, <2>1 DEF EscAbandonsProcessing, Cancellable, LastWorks
  <2>3. EscIsPaced'
    BY <1>4, <2>1 DEF EscAbandonsProcessing, Cancellable, CancelFollowsStop,
        EscIsPaced, StartsYield
  <2>4. CancelFollowsStop'
    <3>1. /\ At \in {"broken", "asr", "correct"} /\ permits' = {count} /\ phase' = "idle"
          /\ armed' = [armed EXCEPT !.cancelled = TRUE]
      BY <1>4, <2>1 DEF EscAbandonsProcessing, Cancellable, Unarmed,
          EscIsPaced, CancelFollowsStop
    <3>2. armed'.owner = count /\ armed'.cancelled = TRUE /\ armed'.committed = FALSE
      BY <3>1 DEF CancelFollowsStop
    <3> QED
      BY <2>1, <3>1, <3>2 DEF CancelFollowsStop
  <2>5. StartsYield' /\ PhaseInHand'
    BY <1>4, <2>1 DEF EscAbandonsProcessing, Cancellable, StartsYield,
        PhaseInHand, CancelFollowsStop, EscIsPaced, StartPC
  <2> QED
    BY <2>1, <2>2, <2>3, <2>4, <2>5
<1>5. CASE EscIgnored
  <2>1. At' = At /\ count' = count
    BY <1>5, AtStays DEF EscIgnored, Cancellable
  <2>2. LastWorks' /\ CancelFollowsStop' /\ EscIsPaced'
    BY <1>5, <2>1 DEF EscIgnored, Cancellable, LastWorks, CancelFollowsStop,
        Unarmed, EscIsPaced, StartsYield
  <2>3. StartsYield' /\ PhaseInHand'
    BY <1>5, <2>1 DEF EscIgnored, Cancellable, StartsYield, PhaseInHand,
        CancelFollowsStop, EscIsPaced, StartPC
  <2> QED
    BY <2>1, <2>2, <2>3
<1> QED
  BY <1>1, <1>2, <1>3, <1>4, <1>5

\* A press and a release, which nothing but waiting tasks is beside.
LEMMA PacedKeys ==
    ASSUME IInv, PacedInv, NEW n \in Session, Calm, StartBegins(n) \/ StopBegins(n)
    PROVE  PacedInv'
<1> USE PacedTypes DEF PacedInv
<1>1. CASE StartBegins(n)
  <2>1. /\ phase = "idle" /\ n = count + 1 /\ count' = n /\ phase' = "recording"
        /\ startPC' = [startPC EXCEPT ![n] = "begun"]
        /\ UNCHANGED <<stopPC, captureVars, liveVars, pipeVars, cancelVars, escVars>>
    BY <1>1 DEF StartBegins
  <2>2. count \in Nat /\ n > count /\ \A m \in Session : m \in Nat /\ (m > n => m > count)
    BY <2>1 DEF IInv, TypeOK, Session
  <2>3. startPC[n] = "new" /\ stopPC[n] = "new" /\ At' = "new"
    BY <2>1, <2>2 DEF LastWorks, At
  <2>4. At \in {"new", "done"} /\ armed = Unarmed /\ permits = {} /\ esc = FALSE
    BY <2>1, Calms DEF CancelFollowsStop
  <2>5. \A m \in Session : stopPC[m] \in {"new", "done"}
    BY <2>4 DEF LastWorks, At
  <2>6. LastWorks'
    BY <2>1, <2>2, <2>5 DEF LastWorks
  <2>7. CancelFollowsStop' /\ EscIsPaced'
    BY <2>1, <2>3, <2>4 DEF CancelFollowsStop, EscIsPaced
  <2>8. StartsYield'
    BY <2>1, <2>3 DEF StartsYield
  <2>9. PhaseInHand'
    BY <2>1, <2>3, Calms DEF PhaseInHand
  <2> QED
    BY <2>6, <2>7, <2>8, <2>9
<1>2. CASE StopBegins(n)
  <2>1. /\ phase = "recording" /\ n = count /\ phase' = "processing" /\ stopPC[n] = "new"
        /\ stopPC' = [stopPC EXCEPT ![n] = "begun"]
        /\ UNCHANGED <<count, startPC, captureVars, liveVars, pipeVars, cancelVars, escVars>>
    BY <1>2 DEF StopBegins
  <2>2. At = "new" /\ At' = "begun" /\ armed = Unarmed /\ permits = {} /\ esc = FALSE
    BY <2>1, Calms DEF CancelFollowsStop, At
  <2>3. LastWorks'
    <3>1. \A m \in Session : m # n => stopPC'[m] = stopPC[m]
      BY <2>1
    <3>2. ASSUME NEW m \in Session, stopPC'[m] \notin {"new", "done"} PROVE m = n
      BY <2>1, <2>2, <3>1, <3>2 DEF LastWorks, At
    <3>3. ASSUME NEW m \in Session, m > count PROVE startPC[m] = "new" /\ stopPC'[m] = "new"
      <4>1. m # n
        BY <2>1, <3>3 DEF IInv, TypeOK, Session
      <4> QED
        BY <3>1, <3>3, <4>1 DEF LastWorks
    <3> QED
      BY <2>1, <3>2, <3>3 DEF LastWorks
  <2>4. CancelFollowsStop' /\ PhaseInHand' /\ EscIsPaced'
    BY <2>1, <2>2 DEF CancelFollowsStop, PhaseInHand, EscIsPaced, escVars
  <2>5. StartsYield'
    BY <2>1, <2>2, Calms DEF StartsYield
  <2> QED
    BY <2>3, <2>4, <2>5
<1> QED
  BY <1>1, <1>2

\* select! drops a pipeline that was cancelled; the stop task disarms.
LEMMA PacedEnds ==
    ASSUME IInv, PacedInv, NEW n \in Session, Drops(n) \/ Disarms(n)
    PROVE  PacedInv'
<1> USE PacedTypes DEF PacedInv
<1>1. CASE Drops(n)
  <2>1. PICK from \in {"select", "broken", "asr", "correct", "insert"} : StopAt(n, from, "dropped")
    BY <1>1 DEF Drops
  <2>2. /\ n \in permits /\ permits' = permits \ {n}
        /\ UNCHANGED <<phase, count, startPC, captureVars, liveVars, pipeVars, armed,
                       historyVars, escVars>>
    BY <1>1 DEF Drops
  <2>3. n = count /\ At = from /\ At' = "dropped"
    BY <2>1, <2>2, AtMoves
  <2>4. /\ armed.owner = count /\ armed.cancelled = TRUE /\ phase = "idle"
        /\ from \in {"broken", "asr", "correct"} /\ permits' = {}
    BY <2>2, <2>3 DEF CancelFollowsStop
  <2>5. esc = FALSE
    BY <2>3, <2>4 DEF EscIsPaced
  <2> USE <2>1, <2>2, <2>3, <2>4, <2>5
  <2>6. LastWorks'
    BY DEF LastWorks
  <2>7. CancelFollowsStop' /\ EscIsPaced'
    BY DEF CancelFollowsStop, EscIsPaced
  <2>8. StartsYield' /\ PhaseInHand'
    BY DEF StartsYield, PhaseInHand
  <2> QED
    BY <2>6, <2>7, <2>8
<1>2. CASE Disarms(n)
  <2>1. PICK from \in {"dropped", "ended"}, to \in {"done", "finishing"} :
            /\ StopAt(n, from, to)
            /\ from = "dropped" => to = "done"
            /\ from = "ended" => (to = "done" <=> armed.cancelled = TRUE)
    BY <1>2 DEF Disarms
  <2>2. /\ armed' = Unarmed
        /\ UNCHANGED <<phase, count, startPC, captureVars, liveVars, pipeVars,
                       permits, historyVars, escVars>>
    BY <1>2 DEF Disarms
  <2>3. n = count /\ At = from /\ At' = to
    BY <2>1, <2>2, AtMoves
  <2>4. /\ permits = {}
        /\ \/ from = "dropped" /\ to = "done" /\ phase = "idle"
           \/ from = "ended" /\ to = "finishing" /\ phase = "processing"
    BY <2>1, <2>3 DEF CancelFollowsStop
  <2>5. esc = FALSE
    BY <2>3, <2>4 DEF EscIsPaced
  <2> USE <2>1, <2>2, <2>3, <2>4, <2>5
  <2>6. LastWorks'
    BY DEF LastWorks
  <2>7. CancelFollowsStop' /\ EscIsPaced'
    BY DEF CancelFollowsStop, EscIsPaced, Unarmed
  <2>8. StartsYield' /\ PhaseInHand'
    BY DEF StartsYield, PhaseInHand, StartPC
  <2> QED
    BY <2>6, <2>7, <2>8
<1> QED
  BY <1>1, <1>2

\* The initial state and every step.
LEMMA PacedInit == Init => PacedInv
<1> SUFFICES ASSUME Init PROVE PacedInv
  OBVIOUS
<1>1. At = "new"
  BY DEF Init, At
<1>2. Nobody \notin Session
  BY DEF Session, Nobody
<1> QED
  BY <1>1, <1>2 DEF Init, PacedInv, LastWorks, CancelFollowsStop, StartsYield, EscIsPaced,
     PhaseInHand

LEMMA PacedNext ==
    ASSUME Paced, IInv, PacedInv, [Next]_vars
    PROVE  PacedInv'
<1>1. ASSUME NEW n \in Session, StartStep(n) \/ (Calm /\ StartWaitEnds(n))
      PROVE  PacedInv'
  BY <1>1, PacedStart DEF StartStep, StartWaitEnds
<1>2. ASSUME NEW n \in Session, StopStep(n) \/ (Calm /\ StopWaitEnds(n))
      PROVE  PacedInv'
  BY <1>2, PacedStop, PacedEnds DEF StopStep, StopWaitEnds
<1>3. ASSUME NEW n \in Session, Calm, StartBegins(n) \/ StopBegins(n)
      PROVE  PacedInv'
  BY <1>3, PacedKeys
<1>4. CASE SyncEsc \/ EscStep \/ (Calm /\ EscPressed)
  BY <1>4, PacedEsc DEF EscStep
<1>5. CASE UNCHANGED vars
  BY <1>5 DEF vars, PacedInv, LastWorks, CancelFollowsStop, StartsYield, EscIsPaced,
     PhaseInHand, At
<1> QED
  BY <1>1, <1>2, <1>3, <1>4, <1>5 DEF Next, WhenCalm

\* The invariant of paced sessions, of any number of them.
THEOREM PacedInvariance ==
    ASSUME Paced
    PROVE  Spec => [](IInv /\ PacedInv)
<1>1. Init => PacedInv
  BY PacedInit
<1>2. IInv /\ PacedInv /\ [Next]_vars => PacedInv'
  BY PacedNext
<1> QED
  BY <1>1, <1>2, Invariance, PTL DEF Spec

\* When only the user can act, capsule, microphone and the grabbed Esc agree,
\* whichever starts, stops and Escs raced before.
THEOREM QuietCorrect ==
    ASSUME Paced
    PROVE  Spec => []QuietIsConsistent
<1>1. ASSUME IInv, PacedInv, Quiet
      PROVE  /\ phase = "idle" => mic = Nobody /\ grab = FALSE
             /\ phase = "recording" => mic # Nobody /\ grab = TRUE
             /\ phase # "processing"
  <2>1. /\ At \in {"new", "done"} /\ syncs = FALSE
        /\ \A n \in Session : startPC[n] \in {"new", "done"}
    BY <1>1, PacedTypes DEF Quiet, At
  <2>2. phase # "processing"
    BY <1>1, <2>1 DEF PacedInv, CancelFollowsStop
  <2> QED
    BY <1>1, <2>1, <2>2, PacedTypes DEF PacedInv, PhaseInHand
<1>2. IInv /\ PacedInv => QuietIsConsistent
  BY <1>1, PacedTypes DEF QuietIsConsistent, IdleMicIsClosed, RecordingIsLive,
     EscGrabFollowsPhase
<1> QED
  BY <1>2, PacedInvariance, PTL

-----------------------------------------------------------------------------
(* Every interleaving, as long as nothing ended a processing stage early *)

\* Until an Esc or a failing start has ended a processing stage, no permit is
\* left for a pipeline and nothing that is armed is cancelled; only the last
\* session has a stop task, PROCESSING is its phase, and what is armed while its
\* pipeline may be dropped is its own and not committed.
SoloInv ==
    abandoned = {} =>
        /\ permits = {}
        /\ ~armed.cancelled
        /\ \A n \in Session :
              stopPC[n] \notin {"new", "done"} => n = count /\ phase = "processing"
        /\ \A n \in Session :
              stopPC[n] \in {"select", "broken", "asr", "correct"}
                  => armed.owner = n /\ ~armed.committed

\* A step that leaves the stop tasks, the phase and what they cancel with alone.
LEMMA SoloUntouched ==
    ASSUME SoloInv, UNCHANGED <<phase, count, stopPC, armed, permits, abandoned>>
    PROVE  SoloInv'
BY DEF SoloInv

\* The start task of a session, and the press that begins it.
LEMMA SoloStart ==
    ASSUME IInv, SoloInv, NEW n \in Session,
           StartBegins(n) \/ StartStep(n) \/ StartWaitEnds(n)
    PROVE  SoloInv'
<1>1. CASE StartBegins(n)
  BY <1>1 DEF StartBegins, SoloInv
<1>2. CASE StartReportsError(n)
  <2>1. CASE phase = "processing"
    BY <1>2, <2>1 DEF StartReportsError, SoloInv
  <2>2. CASE phase # "processing"
    BY <1>2, <2>2 DEF StartReportsError, SoloInv
  <2> QED
    BY <2>1, <2>2
<1>3. CASE StartDiscards(n)
  BY <1>3, SoloUntouched DEF StartDiscards, CancelRecording
<1>4. CASE StartSkips(n) \/ StartWaits(n) \/ StartLocks(n) \/ StartPublishes(n)
           \/ StartYields(n)
  BY <1>4, SoloUntouched
  DEF StartSkips, StartWaits, StartLocks, StartPublishes, StartYields
<1>5. CASE StartWaitEnds(n)
  BY <1>5, SoloUntouched
  DEF StartWaitEnds, StartNotReady, StartPrepares, StartOpens, StartCannotOpen,
      StartReserves
<1> QED
  BY <1>1, <1>2, <1>3, <1>4, <1>5 DEF StartStep

\* The stop task of a session, and the release that begins it: it is the last
\* session's, so that it moves no other's, and leaves PROCESSING when it ends.
LEMMA SoloStop ==
    ASSUME IInv, SoloInv, NEW n \in Session,
           StopBegins(n) \/ StopStep(n) \/ StopWaitEnds(n)
    PROVE  SoloInv'
<1>0. stopPC \in [Session -> StopPC]
  BY DEF IInv, TypeOK
<1>1. CASE StopBegins(n)
  BY <1>0, <1>1 DEF StopBegins, SoloInv
<1>2. CASE StopSeesNoCapture(n) \/ StopSeesCapture(n)
  BY <1>0, <1>2 DEF StopSeesNoCapture, StopSeesCapture, SoloInv
<1>3. CASE StopArms(n)
  BY <1>0, <1>3 DEF StopArms, SoloInv
<1>4. CASE TakesCapture(n)
  BY <1>0, <1>4 DEF TakesCapture, SoloInv
<1>5. CASE CaptureFails(n)
  BY <1>0, <1>5 DEF CaptureFails, SoloInv
<1>6. CASE Drops(n)
  BY <1>0, <1>6 DEF Drops, SoloInv
<1>7. CASE Disarms(n)
  BY <1>0, <1>7 DEF Disarms, SoloInv, Unarmed
<1>8. CASE StopFinishes(n)
  BY <1>0, <1>8 DEF StopFinishes, SoloInv
<1>9. CASE CaptureGivenUp(n) \/ CaptureRejected(n) \/ AsrFails(n)
           \/ CorrectionFails(n) \/ CommitRefused(n)
  BY <1>0, <1>9
  DEF CaptureGivenUp, CaptureRejected, AsrFails, CorrectionFails, CommitRefused,
      Fails, SoloInv
<1>10. CASE Recognizes(n)
  BY <1>0, <1>10 DEF Recognizes, SoloInv
<1>11. CASE Commits(n)
  BY <1>0, <1>11 DEF Commits, SoloInv, IInv, TypeOK
<1>12. CASE Outputs(n)
  BY <1>0, <1>12 DEF Outputs, SoloInv
<1> QED
  BY <1>1, <1>2, <1>3, <1>4, <1>5, <1>6, <1>7, <1>8, <1>9, <1>10, <1>11, <1>12
  DEF StopStep, StopWaitEnds

LEMMA SoloNext ==
    ASSUME IInv, SoloInv, [Next]_vars
    PROVE  SoloInv'
<1>1. ASSUME NEW n \in Session,
             StartBegins(n) \/ StartStep(n) \/ StartWaitEnds(n)
      PROVE  SoloInv'
  BY <1>1, SoloStart
<1>2. ASSUME NEW n \in Session,
             StopBegins(n) \/ StopStep(n) \/ StopWaitEnds(n)
      PROVE  SoloInv'
  BY <1>2, SoloStop
<1>3. CASE SyncEsc \/ EscPressed \/ EscIgnored
  BY <1>3, SoloUntouched DEF SyncEsc, EscPressed, EscIgnored
<1>4. CASE EscDiscardsRecording
  BY <1>4 DEF EscDiscardsRecording, CancelRecording, SoloInv
<1>5. CASE EscAbandonsProcessing
  BY <1>5 DEF EscAbandonsProcessing, SoloInv
<1>6. CASE UNCHANGED vars
  BY <1>6, SoloUntouched DEF vars
<1> QED
  BY <1>1, <1>2, <1>3, <1>4, <1>5, <1>6 DEF Next, EscStep

\* The invariant, with any pacing.
THEOREM SoloInvariance == Spec => [](IInv /\ SoloInv)
<1>1. Init => SoloInv
  BY DEF Init, SoloInv, Unarmed
<1>2. IInv /\ SoloInv /\ [Next]_vars => SoloInv'
  BY SoloNext
<1> QED
  BY <1>1, <1>2, Invariance, PTL DEF Spec

\* In every interleaving: only after an Esc, or a start that failed late, has
\* ended a processing stage can two pipelines run at once, or a task reset a
\* phase that is not its session's.  However starts, stops, releases and other
\* Escs are interleaved before that, sessions follow one another.
THEOREM OverlapNeedsEsc == Spec => [](abandoned = {} => OneLivePipeline)
<1>1. IInv /\ SoloInv => (abandoned = {} => OneLivePipeline)
  <2> SUFFICES ASSUME IInv, SoloInv, abandoned = {}
               PROVE  FinisherOwnsPhase /\ OnePipeline
    BY DEF OneLivePipeline
  <2>1. FinisherOwnsPhase
    BY DEF SoloInv, FinisherOwnsPhase
  <2>2. OnePipeline
    BY DEF SoloInv, OnePipeline
  <2> QED
    BY <2>1, <2>2
<1> QED
  BY <1>1, SoloInvariance, PTL

\* In every interleaving, again until a processing stage was ended early: an Esc
\* that does nothing while PROCESSING found the stop task before
\* ProcessingCancel::arm, the instants the code leaves open, or after the
\* pipeline's last chance to be cancelled; never while it was armed and
\* uncommitted.
THEOREM FirstEscIsHeard ==
    Spec => [][abandoned = {} /\ esc /\ ~esc' /\ phase = "processing"
                  /\ phase' = "processing"
                  => stopPC[count] \in {"begun", "arming", "insert", "ended",
                                        "finishing"}]_vars
<1> DEFINE Ignored == abandoned = {} /\ esc /\ ~esc' /\ phase = "processing"
                         /\ phase' = "processing"
           Before  == stopPC[count] \in {"begun", "arming", "insert", "ended",
                                         "finishing"}
<1>1. ASSUME IInv, SoloInv, [Next]_vars, Ignored
      PROVE  Before
  <2>1. /\ count \in Session
        /\ stopPC[count] \in StopPC \ {"new", "done", "dropped"}
    BY <1>1 DEF IInv, TypeOK, ProcessingInHand
  <2>2. EscIgnored
    <3>1. ASSUME NEW n \in Session, StartStep(n) \/ StartWaitEnds(n) \/ StartBegins(n)
          PROVE  esc' = esc
      BY <3>1
      DEF StartStep, StartWaitEnds, StartBegins, StartSkips, StartWaits, StartLocks,
          StartPublishes, StartDiscards, StartYields, StartReportsError,
          StartNotReady, StartPrepares, StartOpens, StartCannotOpen, StartReserves
    <3>2. ASSUME NEW n \in Session, StopStep(n) \/ StopBegins(n)
          PROVE  esc' = esc
      BY <3>2
      DEF StopStep, StopBegins, StopSeesNoCapture, StopSeesCapture, StopArms,
          TakesCapture, CaptureFails, Drops, Disarms, StopFinishes
    <3>3. ASSUME NEW n \in Session, StopWaitEnds(n)
          PROVE  esc' = esc
      BY <3>3
      DEF StopWaitEnds, CaptureGivenUp, CaptureRejected, Recognizes, AsrFails,
          CorrectionFails, Commits, CommitRefused, Outputs, Fails
    <3>4. SyncEsc \/ EscPressed \/ UNCHANGED vars => esc' \in {esc, TRUE}
      BY DEF SyncEsc, EscPressed, vars
    <3>5. EscDiscardsRecording \/ EscAbandonsProcessing => phase' = "idle"
      BY DEF EscDiscardsRecording, EscAbandonsProcessing
    <3> QED
      BY <1>1, <3>1, <3>2, <3>3, <3>4, <3>5 DEF Next, EscStep
  <2>3. ~Cancellable
    BY <1>1, <2>2 DEF EscIgnored
  <2>4. stopPC[count] \notin {"select", "broken", "asr", "correct"}
    BY <1>1, <2>1, <2>3 DEF SoloInv, Cancellable, Unarmed, Session, Nobody
  <2> QED
    BY <2>1, <2>4 DEF StopPC
<1>2. IInv /\ SoloInv /\ [Next]_vars => (Ignored => Before)
  BY <1>1
<1> QED
  BY <1>2, SoloInvariance, PTL DEF Spec

-----------------------------------------------------------------------------
(* Dictations and meetings side by side *)

\* The values of CaptureExclusion's variables.
ExclusionTypes ==
    /\ meeting \in MeetingPC
    /\ hotkeys \in HotkeyState
    /\ capturing \in BOOLEAN

\* From begin_meeting to end_meeting or force_idle, and only then, the arbiter
\* is with the meeting.
ArbiterMirrorsMeeting ==
    mode = "MeetingRecording"
        <=> meeting \in {"claimed", "opened", "recording", "stopped"}

\* A meeting that may still fail to start has not suspended the hotkeys yet.
HotkeysWait ==
    meeting \in {"none", "claimed", "opened"} /\ ~capturing
        => hotkeys # "suspended"

ExclusionInv ==
    /\ IInv
    /\ ExclusionTypes
    /\ ArbiterMirrorsMeeting
    /\ HotkeysWait

\* Dictation's invariant depends on the arbiter only as far as it says
\* "Dictation": a step that leaves dictation alone and moves the arbiter between
\* Idle and MeetingRecording keeps it.
LEMMA MeetingMovesArbiter ==
    ASSUME IInv, DictationUntouched, mode' \in {mode, "Idle", "MeetingRecording"}
    PROVE  IInv'
<1>1. TypeOK'
  BY DEF IInv, TypeOK, CaptureMode, DictationUntouched, taskVars, liveVars,
     pipeVars, cancelVars, escVars
<1>2. ArbiterYields' /\ DuckingFollowsMic'
  BY DEF IInv, CaptureInHand, ArbiterYields, DuckingFollowsMic, DictationUntouched
<1>3. ArmingComesFirst' /\ ArmedHasOwner' /\ SamplesHaveOrigin' /\ ProcessingInHand'
  BY DEF IInv, ArmingComesFirst, ArmedHasOwner, SamplesHaveOrigin, ProcessingInHand,
     DictationUntouched, taskVars, liveVars, pipeVars, cancelVars
<1> QED
  BY <1>1, <1>2, <1>3 DEF IInv, CaptureInHand

\* One step per command; the dictation tasks keep the arbiter with a meeting
\* because neither begin_dictation nor end_dictation takes it from one.
LEMMA ExclusionStep ==
    ASSUME ExclusionInv, [ExclusionNext]_allVars
    PROVE  ExclusionInv'
<1> USE DEF ExclusionInv, ExclusionTypes, ArbiterMirrorsMeeting, HotkeysWait,
            MeetingPC, MeetingAt, HotkeyState, Suspend, Register
<1>1. mode \in CaptureMode /\ Nobody \notin Session
  BY DEF IInv, TypeOK, Session, Nobody
<1>2. CASE DictationByHotkey
  <2>1. IInv'
    BY <1>2, NextInv DEF DictationByHotkey
  <2>2. mode' = "MeetingRecording" <=> mode = "MeetingRecording"
    BY <1>1, <1>2, MicSteps
    DEF DictationByHotkey, BeginDictation, EndDictation, CaptureMode
  <2> QED
    BY <1>2, <2>1, <2>2 DEF DictationByHotkey, exclusionVars
<1>3. CASE MeetingClaims
  BY <1>3, MeetingMovesArbiter DEF MeetingClaims
<1>4. CASE MeetingStartFails
  BY <1>4, MeetingMovesArbiter DEF MeetingStartFails
<1>5. CASE MeetingOpens
  BY <1>5, MeetingMovesArbiter DEF MeetingOpens
<1>6. CASE MeetingSuspendsHotkeys
  BY <1>6, MeetingMovesArbiter DEF MeetingSuspendsHotkeys
<1>7. CASE MeetingStopsRecorder
  BY <1>7, MeetingMovesArbiter DEF MeetingStopsRecorder
<1>8. CASE MeetingReleases
  BY <1>8, MeetingMovesArbiter DEF MeetingReleases
<1>9. CASE MeetingResumesHotkeys
  BY <1>9, MeetingMovesArbiter DEF MeetingResumesHotkeys
<1>10. ASSUME UNCHANGED vars PROVE IInv'
  BY <1>10, NextInv
<1>11. CASE ShortcutRecorderOpens
  <2>1. UNCHANGED mode
    BY <1>11 DEF ShortcutRecorderOpens, vars, captureVars
  <2> QED
    BY <1>10, <1>11, <2>1 DEF ShortcutRecorderOpens, MainThreadFree
<1>12. CASE ShortcutRecorderCloses
  <2>1. UNCHANGED mode
    BY <1>12 DEF ShortcutRecorderCloses, vars, captureVars
  <2> QED
    BY <1>10, <1>12, <2>1 DEF ShortcutRecorderCloses, MainThreadFree
<1>14. CASE HotkeysAreSaved
  <2>1. UNCHANGED mode
    BY <1>14 DEF HotkeysAreSaved, vars, captureVars
  <2> QED
    BY <1>10, <1>14, <2>1 DEF HotkeysAreSaved, MainThreadFree
<1>13. CASE UNCHANGED allVars
  <2>1. UNCHANGED mode
    BY <1>13 DEF allVars, vars, captureVars
  <2> QED
    BY <1>10, <1>13, <2>1 DEF allVars, exclusionVars
<1> QED
  BY <1>2, <1>3, <1>4, <1>5, <1>6, <1>7, <1>8, <1>9, <1>11, <1>12, <1>13, <1>14
  DEF ExclusionNext

\* The invariant of dictation and meetings together.
THEOREM ExclusionInvariance == ExclusionSpec => []ExclusionInv
<1>1. ExclusionInit => ExclusionInv
  BY InitInv DEF ExclusionInit, Init, ExclusionInv, ExclusionTypes, MeetingPC,
     ArbiterMirrorsMeeting, HotkeysWait, HotkeyState
<1>2. ExclusionInv /\ [ExclusionNext]_allVars => ExclusionInv'
  BY ExclusionStep
<1> QED
  BY <1>1, <1>2, PTL DEF ExclusionSpec

\* The arbiter stays with a meeting until its stop command gives it back, and is
\* idle once neither a dictation nor a meeting records: no second meeting starts
\* beside the first, and none is refused for good.
THEOREM ArbiterCorrectBeside == ExclusionSpec => []ArbiterFollowsRecorder
<1>1. ExclusionInv => ArbiterFollowsRecorder
  BY DEF ExclusionInv, IInv, TypeOK, CaptureMode, CaptureInHand, ArbiterYields,
     ArbiterMirrorsMeeting, ArbiterFollowsRecorder, MeetingKeepsArbiter,
     ArbiterComesBack
<1> QED
  BY <1>1, ExclusionInvariance, PTL

\* However a meeting, its failed start and the settings' shortcut recorder nest
\* their suspensions, none outlives its reason: registering the hotkeys was
\* tried again, although it may have been refused.
THEOREM HotkeysCorrect == ExclusionSpec => []HotkeysComeBack
<1>1. ExclusionInv => HotkeysComeBack
  BY DEF ExclusionInv, HotkeysWait, HotkeysComeBack
<1> QED
  BY <1>1, ExclusionInvariance, PTL

\* Meetings beside it do not break what dictation promises in every
\* interleaving: no sound stays lowered without a capture, and PROCESSING always
\* has the stop task that leaves it.
THEOREM DictationCorrectBeside ==
    ExclusionSpec => [](DuckingFollowsMic /\ ProcessingIsOwned)
<1>1. ExclusionInv => DuckingFollowsMic /\ ProcessingIsOwned
  BY DEF ExclusionInv, IInv, CaptureInHand, ProcessingInHand, ProcessingIsOwned,
     Session
<1> QED
  BY <1>1, ExclusionInvariance, PTL
================================================================================
