---------------------------- MODULE EditLearning ----------------------------
(***************************************************************************)
(* Learning from edits: after a dictation was inserted, an observer polls  *)
(* the text surface it went to, records what the user makes of it as       *)
(* revisions, and offers dictionary candidates once the text is quiet      *)
(* (lumen-edit-learning, edit_learning_runtime.rs, the edit-learning       *)
(* tables of lumen-store).                                                 *)
(*                                                                         *)
(* One insertion at a time holds the engine's transition lock; observers   *)
(* are tasks; the user edits, submits and decides at any time.  A surface  *)
(* is what its text reads as to the locator of the session that inserted   *)
(* last.  Quiescence, retention and the 30 s a parent is waited for are    *)
(* choices.  The store may refuse any call (all calls of one step alike).  *)
(* The progress states of an open row are one.                             *)
(***************************************************************************)
EXTENDS Naturals, Sequences, FiniteSets

CONSTANTS MaxSessions,  \* insertions
          Edit,         \* texts the user turns a dictation into
          Learnable,    \* those that give dictionary candidates
          MaxEdits      \* edits by the user

ASSUME LearnableAssumption == Learnable \subseteq Edit
ASSUME EditAssumption ==   \* texts are none of the marks below
    Edit \cap {"original", "gone", "foreign", "none", "unavailable", "lost"} = {}
ASSUME BoundAssumption ==
    {MaxSessions, MaxEdits} \subseteq Nat

VARIABLES field,     \* the text surface: who inserted last, what became of it
          setup,     \* the insertion under the transition lock
          observer,  \* per session, the observing task and its memory
          attempts,  \* sessions whose dictation attempt is stored
          store,     \* per session, its rows in the database
          edits      \* edits made

vars == <<field, setup, observer, attempts, store, edits>>

Session == 1 .. MaxSessions

Original == "original"   \* the text as it was inserted
Gone     == "gone"       \* the locator finds nothing
Foreign  == "foreign"    \* a range that holds another insertion
None     == "none"
Errors   == {"unavailable", "lost"}   \* TemporarilyUnavailable, the others

Text == Edit \cup {Original, Foreign}

\* seen, blind and refused are history: the last text the observer went by, an
\* insertion it was not told of, and a write of that text (or of the end of the
\* row) the store refused.
Unused ==
    [at |-> "unused", signal |-> "run", persisted |-> FALSE,
     shot |-> None, pending |-> None, learning |-> 0, last |-> Original,
     end |-> None, seen |-> Original, blind |-> FALSE, refused |-> FALSE]

\* The task is gone, with its memory: what remains is its row and the history.
Ended(o) ==
    [Unused EXCEPT !.at = "done", !.persisted = o.persisted,
                   !.end = IF o.end = "removed" THEN o.end ELSE None,
                   !.blind = o.blind, !.refused = o.refused]

NoRows == [row |-> None, revisions |-> <<>>, proposals |-> <<>>, notices |-> {}]

Free == [step |-> "free", session |-> 0, waits |-> {}]

Init ==
    /\ field = [owner |-> 0, text |-> Gone]
    /\ setup = Free
    /\ observer = [s \in Session |-> Unused]
    /\ attempts = {}
    /\ store = [s \in Session |-> NoRows]
    /\ edits = 0

\* The session is in the engine's map of active sessions.
Active(s) ==
    observer[s].at \in
        {"watching", "looked", "flushing", "publishing", "learning", "closing"}

Running(s) == Active(s) /\ observer[s].signal = "run"

Watchers == {s \in Session : Active(s)}

\* What a snapshot of its surface gives session s.
Shots(s) ==
    Errors \cup (IF field.owner = s THEN {field.text} ELSE {Foreign, Gone})

-----------------------------------------------------------------------------
\* The store.  A revision retires the open candidates of the others, and the
\* notices that spoke of them.

Open(d) == {r \in DOMAIN d.proposals : d.proposals[r] = "proposed"}

Superseded(d) ==
    [r \in DOMAIN d.proposals |->
        IF r \in Open(d) THEN "superseded" ELSE d.proposals[r]]

\* Mutant: candidates of older revisions stay open.
AppendRevisionOnly(d, t) ==
    [d EXCEPT !.revisions = Append(@, t), !.proposals = Append(@, None)]

\* Mutant: what the user has decided is superseded too.
AppendOverDecisions(d, t) ==
    [d EXCEPT !.revisions = Append(@, t),
              !.proposals = Append([r \in DOMAIN @ |-> "superseded"], None),
              !.notices   = {}]

AppendRevision(d, t) ==
    [d EXCEPT !.revisions = Append(@, t),
              !.proposals = Append(Superseded(d), None),
              !.notices   = IF Open(d) = {} THEN @ ELSE {}]

\* The candidates of a revision, if it gives any, with the notice of them.
Propose(d, r) ==
    IF d.revisions[r] \in Learnable
      THEN [d EXCEPT !.proposals[r] = "proposed", !.notices = @ \cup {r}]
      ELSE d

\* A write of session s, if the store takes it.
Write(s, d, taken) == store' = [store EXCEPT ![s] = IF taken THEN d ELSE @]

-----------------------------------------------------------------------------
\* Inserting.

\* insert: the target is still there; observers of its surface are told to
\* stop, and those in the map are waited for.
Begin ==
    LET s == 1 + Cardinality({t \in Session : observer[t].at # "unused"}) IN
    /\ setup = Free
    /\ s \in Session
    /\ setup' = [step |-> "stopping", session |-> s, waits |-> Watchers]
    /\ observer' = [t \in Session |->
                      IF Running(t)
                        THEN [observer[t] EXCEPT !.signal = "insertion"]
                        ELSE observer[t]]
    /\ UNCHANGED <<field, attempts, store, edits>>

\* The observers did not stop within two seconds, the target went away, or the
\* insertion failed: nothing is observed.
Abandon ==
    /\ setup.step = "stopping"
    /\ setup' = Free
    /\ UNCHANGED <<field, observer, attempts, store, edits>>

\* Mutant: the insertion does not wait for the observers it told to stop.
InsertAtOnce ==
    /\ setup.step = "stopping"
    /\ field' = [owner |-> setup.session, text |-> Original]
    /\ setup' = [setup EXCEPT !.step = "inserted"]
    /\ UNCHANGED <<observer, attempts, store, edits>>

Insert ==
    /\ setup.step = "stopping"
    /\ \A t \in setup.waits : ~Active(t)
    /\ field' = [owner |-> setup.session, text |-> Original]
    /\ setup' = [setup EXCEPT !.step = "inserted"]
    /\ UNCHANGED <<observer, attempts, store, edits>>

\* The oldest running session of all surfaces makes room for a new one elsewhere.
\* (The limit of a surface is never met: Begin stops its observers.)
Evict(s) ==
    /\ Running(s)
    /\ \A t \in Session : Running(t) => s <= t
    /\ observer' = [observer EXCEPT ![s].signal = "limit"]
    /\ UNCHANGED <<field, setup, attempts, store, edits>>

\* observe_inserted_locked: the inserted text was found.  Its attempt is stored
\* only after the insertion returned, so the parent is not ready yet.
Observe ==
    LET s == setup.session IN
    /\ setup.step = "inserted"
    /\ field = [owner |-> s, text |-> Original]
    /\ observer' = [observer EXCEPT ![s].at = "watching"]
    /\ setup' = Free
    /\ UNCHANGED <<field, attempts, store, edits>>

\* The snapshot failed, the text was not found or the store refused the
\* session: the failure is reported by a task of its own.
ObserveFails ==
    /\ setup.step = "inserted"
    /\ observer' = [observer EXCEPT ![setup.session].at = "reporting"]
    /\ setup' = Free
    /\ UNCHANGED <<field, attempts, store, edits>>

\* No surface could be reserved, or observing is switched off: the text is
\* inserted all the same, in the first case with a report.
InsertUnobserved ==
    LET s == 1 + Cardinality({t \in Session : observer[t].at # "unused"}) IN
    /\ setup = Free
    /\ field' = [owner |-> 0, text |-> Original]
    /\ \E reported \in {{}, {s} \cap Session} :
         observer' = [t \in Session |->
             IF t \in reported THEN [Unused EXCEPT !.at = "reporting"]
             ELSE [observer[t] EXCEPT !.blind = @ \/ t \in Watchers]]
    /\ UNCHANGED <<setup, attempts, store, edits>>

\* The pipeline stores the attempt the session belongs to.
SaveAttempt(s) ==
    /\ observer[s].at \notin {"unused", "done"}
    /\ s \notin attempts
    /\ attempts' = attempts \cup {s}
    /\ UNCHANGED <<field, setup, observer, store, edits>>

\* persist_observation_failure
Report(s) ==
    /\ observer[s].at = "reporting"
    /\ s \in attempts
    /\ store' = [store EXCEPT ![s].row = "failed"]
    /\ observer' = [observer EXCEPT ![s] = Ended(@)]
    /\ UNCHANGED <<field, setup, attempts, edits>>

\* A session that has no row yet: its parent did not come in time, or the
\* store refuses it.
GiveUp(s) ==
    /\ \/ observer[s].at \in {"reporting", "attaching"}
       \/ Running(s) /\ observer[s].at = "watching" /\ ~observer[s].persisted
    /\ observer' = [observer EXCEPT ![s] = Ended(@)]
    /\ UNCHANGED <<field, setup, attempts, store, edits>>

-----------------------------------------------------------------------------
\* Observing: one turn of the loop of observe_session.

\* The row is created once the parent is there; then a snapshot is asked for.
Poll(s) ==
    /\ observer[s].at = "watching"
    /\ observer[s].signal = "run"
    /\ observer[s].persisted \/ s \in attempts
    /\ store' = IF observer[s].persisted THEN store
                ELSE [store EXCEPT ![s].row = "open"]
    /\ \E shot \in Shots(s) :
         observer' = [observer EXCEPT ![s].at = "looked", ![s].shot = shot,
                                      ![s].persisted = TRUE]
    /\ UNCHANGED <<field, setup, attempts, edits>>

\* The answer is looked at only if nobody told the session to stop meanwhile.
Looked(s) == observer[s].at = "looked" /\ observer[s].signal = "run"

\* The answer is a text.
Read(s) == Looked(s) /\ observer[s].shot \in Text

Interrupted(s) ==
    /\ observer[s].at = "looked"
    /\ observer[s].signal # "run"
    /\ observer' = [observer EXCEPT ![s].at = "watching", ![s].shot = None]
    /\ UNCHANGED <<field, setup, attempts, store, edits>>

\* Suspended: what was pending is forgotten, the candidates are not.
Suspend(s) ==
    /\ Looked(s)
    /\ observer[s].shot = "unavailable"
    /\ observer' = [observer EXCEPT ![s].at = "watching", ![s].shot = None,
                                    ![s].pending = None, ![s].seen = observer[s].last,
                                    ![s].refused = FALSE]
    /\ UNCHANGED <<field, setup, attempts, store, edits>>

\* Mutant: an observer whose surface is gone ends without its pending edit.
LeaveAtOnce(s) ==
    /\ Looked(s)
    /\ observer[s].shot \in {"lost", Gone}
    /\ observer' = [observer EXCEPT ![s].at = "learning", ![s].shot = None,
                        ![s].end = IF observer[s].shot = Gone THEN "removed" ELSE "over"]
    /\ UNCHANGED <<field, setup, attempts, store, edits>>

\* The surface failed for good, or the tracked text is not there any more.
Leave(s) ==
    /\ Looked(s)
    /\ observer[s].shot \in {"lost", Gone}
    /\ observer' = [observer EXCEPT ![s].at = "flushing", ![s].shot = None,
                        ![s].end = IF observer[s].shot = Gone THEN "removed" ELSE "over"]
    /\ UNCHANGED <<field, setup, attempts, store, edits>>

\* The text is back to what was inserted: a revision of its own if another was
\* recorded.  If it cannot be written the next poll tries again.
Revert(s, taken) ==
    LET o == observer[s] IN
    /\ Read(s)
    /\ o.shot = Original
    /\ IF o.last = Original THEN UNCHANGED store
       ELSE Write(s, AppendRevision(store[s], Original), taken)
    /\ observer' = [observer EXCEPT
          ![s] = [o EXCEPT !.at = "watching", !.shot = None, !.pending = None,
                           !.learning = 0, !.seen = Original,
                           !.last = IF taken THEN Original ELSE @,
                           !.refused = o.last # Original /\ ~taken]]
    /\ UNCHANGED <<field, setup, attempts, edits>>

\* The text is that of the last revision.
Settle(s) ==
    LET o == observer[s] IN
    /\ Read(s)
    /\ o.shot = o.last
    /\ o.shot # Original
    /\ observer' = [observer EXCEPT
          ![s] = [o EXCEPT !.at = "watching", !.shot = None, !.pending = None,
                           !.seen = o.shot, !.refused = FALSE]]
    /\ UNCHANGED <<field, setup, attempts, store, edits>>

\* So it was for learning_quiescence; refused candidates are tried again.
SettleAndLearn(s, taken) ==
    LET o == observer[s] IN
    /\ Read(s)
    /\ o.shot = o.last
    /\ o.shot # Original
    /\ o.learning # 0
    /\ Write(s, Propose(store[s], o.learning), taken)
    /\ observer' = [observer EXCEPT
          ![s] = [o EXCEPT !.at = "watching", !.shot = None, !.pending = None,
                           !.seen = o.shot, !.refused = FALSE,
                           !.learning = IF taken THEN 0 ELSE @]]
    /\ UNCHANGED <<field, setup, attempts, edits>>

\* A new text, or one that has not been the same for burst_quiescence.
NoteEdit(s) ==
    LET o == observer[s] IN
    /\ Read(s)
    /\ o.shot \notin {Original, o.last}
    /\ observer' = [observer EXCEPT
          ![s] = [o EXCEPT !.at = "watching", !.shot = None, !.pending = o.shot,
                           !.seen = o.shot, !.refused = FALSE]]
    /\ UNCHANGED <<field, setup, attempts, store, edits>>

RecordEdit(s, taken) ==
    LET o == observer[s] IN
    /\ Read(s)
    /\ o.shot \notin {Original, o.last}
    /\ o.pending = o.shot
    /\ Write(s, AppendRevision(store[s], o.shot), taken)
    /\ observer' = [observer EXCEPT
          ![s] = [o EXCEPT !.at = "watching", !.shot = None, !.pending = None,
                           !.seen = o.shot,
                           !.last = IF taken THEN o.shot ELSE @,
                           !.learning = IF taken THEN Len(store[s].revisions) + 1 ELSE @,
                           !.refused = ~taken]]
    /\ UNCHANGED <<field, setup, attempts, edits>>

\* The retention of 24 hours is over.
Retire(s) ==
    /\ observer[s].at = "watching"
    /\ observer[s].persisted
    /\ observer' = [observer EXCEPT ![s].at = "flushing", ![s].end = "over"]
    /\ UNCHANGED <<field, setup, attempts, store, edits>>

\* Told to stop: one more snapshot, whose text becomes the pending edit if it is
\* not the recorded one.  Without a row the session leaves the map at once.
LastLook(s) ==
    LET o == observer[s] IN
    /\ o.at = "watching"
    /\ o.signal # "run"
    /\ \E shot \in Shots(s) :
         observer' = [observer EXCEPT
            ![s] = [o EXCEPT !.at = IF o.persisted THEN "flushing" ELSE "closing",
                             !.end = "boundary",
                             !.pending = IF shot \in Text \ {o.last} THEN shot ELSE @,
                             !.seen = IF shot \in Text THEN shot ELSE @]]
    /\ UNCHANGED <<field, setup, attempts, store, edits>>

-----------------------------------------------------------------------------
\* Ending.  Content that was removed does not keep the candidates that wait
\* from being proposed after those of the pending edit.
AfterFlush(s) == IF observer[s].end = "removed" THEN "learning" ELSE "closing"

\* persist_terminal_revision: the revision
Flush(s, taken) ==
    LET o == observer[s] IN
    /\ o.at = "flushing"
    /\ IF o.pending = None
         THEN /\ observer' = [observer EXCEPT ![s].at = "learning"]
              /\ UNCHANGED store
         ELSE /\ Write(s, AppendRevision(store[s], o.pending), taken)
              /\ observer' = [observer EXCEPT
                    ![s] = [o EXCEPT !.at = IF taken THEN "publishing" ELSE AfterFlush(s),
                                     !.pending = None, !.refused = ~taken]]
    /\ UNCHANGED <<field, setup, attempts, edits>>

\* persist_terminal_revision: its candidates, tried once
Publish(s, taken) ==
    /\ observer[s].at = "publishing"
    /\ Write(s, Propose(store[s], Len(store[s].revisions)), taken)
    /\ observer' = [observer EXCEPT ![s].at = AfterFlush(s)]
    /\ UNCHANGED <<field, setup, attempts, edits>>

\* The candidates that waited for learning_quiescence.
Learn(s, taken) ==
    LET o == observer[s] IN
    /\ o.at = "learning"
    /\ IF o.learning = 0 THEN UNCHANGED store
       ELSE Write(s, Propose(store[s], o.learning), taken)
    /\ observer' = [observer EXCEPT ![s].at = "closing", ![s].learning = 0]
    /\ UNCHANGED <<field, setup, attempts, edits>>

\* The row is finalized and the session leaves the map: it has stopped.
Close(s, taken) ==
    LET o == observer[s] IN
    /\ o.at = "closing"
    /\ IF o.persisted THEN Write(s, [store[s] EXCEPT !.row = "finalized"], taken)
       ELSE UNCHANGED store
    /\ observer' = [observer EXCEPT
          ![s] = IF o.persisted THEN Ended([o EXCEPT !.refused = @ \/ ~taken])
                 ELSE [o EXCEPT !.at = "attaching"]]
    /\ UNCHANGED <<field, setup, attempts, edits>>

\* persist_finalized_session, for a session that stopped before its parent came:
\* the row, and with a pending edit ...
AttachFinalized(s) ==
    LET o == [observer[s] EXCEPT !.persisted = TRUE] IN
    /\ o.at = "attaching"
    /\ s \in attempts
    /\ store' = [store EXCEPT ![s].row = "finalized"]
    /\ observer' = [observer EXCEPT
          ![s] = IF o.pending = None THEN Ended(o) ELSE [o EXCEPT !.at = "amending"]]
    /\ UNCHANGED <<field, setup, attempts, edits>>

\* ... its revision ...
AttachRevision(s, taken) ==
    LET o == observer[s] IN
    /\ o.at = "amending"
    /\ Write(s, AppendRevision(store[s], o.pending), taken)
    /\ observer' = [observer EXCEPT
          ![s] = IF taken THEN [o EXCEPT !.at = "offering", !.pending = None]
                 ELSE Ended([o EXCEPT !.refused = TRUE])]
    /\ UNCHANGED <<field, setup, attempts, edits>>

\* ... and its candidates, each a write of its own.  (The update of the row that
\* follows leaves it finalized.)
AttachCandidates(s, taken) ==
    /\ observer[s].at = "offering"
    /\ Write(s, Propose(store[s], Len(store[s].revisions)), taken)
    /\ observer' = [observer EXCEPT ![s] = Ended(@)]
    /\ UNCHANGED <<field, setup, attempts, edits>>

-----------------------------------------------------------------------------
\* The user and the process.

EditText(t) ==
    /\ edits < MaxEdits
    /\ field.text \notin {Gone, t}
    /\ field' = [field EXCEPT !.text = t]
    /\ edits' = edits + 1
    /\ UNCHANGED <<setup, observer, attempts, store>>

Submit ==
    /\ field.text # Gone
    /\ field' = [field EXCEPT !.text = Gone]
    /\ UNCHANGED <<setup, observer, attempts, store, edits>>

\* A candidate is confirmed (with its dictionary entry) or rejected, if it is
\* still open.
Decide(s, r) ==
    /\ store[s].proposals[r] = "proposed"
    /\ store' = [store EXCEPT ![s].proposals[r] = "decided"]
    /\ UNCHANGED <<field, setup, observer, attempts, edits>>

Acknowledge(s) ==
    /\ \E n \in store[s].notices :
         store' = [store EXCEPT ![s].notices = @ \ {n}]
    /\ UNCHANGED <<field, setup, observer, attempts, edits>>

\* Mutant: a launch leaves the rows of the last process as they are.
RestartKeepsRows(taken) ==
    /\ setup' = Free
    /\ observer' = [s \in Session |->
          IF observer[s].at \in {"unused", "done"} THEN observer[s]
          ELSE Ended(observer[s])]
    /\ UNCHANGED <<field, attempts, store, edits>>

\* The process ends and is launched again: the rows left open are finalized.
Restart(taken) ==
    /\ setup' = Free
    /\ store' = IF taken THEN [s \in Session |->
                              IF store[s].row = "open" THEN [store[s] EXCEPT !.row = "finalized"]
                              ELSE store[s]]
                ELSE store
    /\ observer' = [s \in Session |->
          IF observer[s].at \in {"unused", "done"} THEN observer[s]
          ELSE Ended([observer[s] EXCEPT !.refused = ~taken])]
    /\ UNCHANGED <<field, attempts, edits>>

-----------------------------------------------------------------------------
InserterStep == Abandon \/ Insert \/ Observe \/ ObserveFails

ObserverStep(s) ==
    \/ Report(s) \/ GiveUp(s) \/ Poll(s) \/ Interrupted(s) \/ Suspend(s)
    \/ Leave(s) \/ Settle(s) \/ NoteEdit(s) \/ LastLook(s) \/ AttachFinalized(s)
    \/ \E taken \in BOOLEAN :
         \/ Revert(s, taken) \/ SettleAndLearn(s, taken) \/ RecordEdit(s, taken)
         \/ Flush(s, taken) \/ Publish(s, taken) \/ Learn(s, taken) \/ Close(s, taken)
         \/ AttachRevision(s, taken) \/ AttachCandidates(s, taken)

Next ==
    \/ Begin \/ InsertUnobserved \/ InserterStep
    \/ \E s \in Session : Evict(s) \/ Retire(s) \/ SaveAttempt(s) \/ ObserverStep(s)
    \/ Submit
    \/ \E t \in Edit \cup {Original} : EditText(t)
    \/ \E s \in Session : Acknowledge(s)
    \/ \E s \in Session : \E r \in DOMAIN store[s].proposals : Decide(s, r)
    \/ \E taken \in BOOLEAN : Restart(taken)

Spec == Init /\ [][Next]_vars

-----------------------------------------------------------------------------
\* Nothing dictated later is taken for an edit: an insertion waits until the
\* observers of its surface have read it for the last time.  Only an insertion
\* the engine is not told of may be.
NothingForeignIsLearned ==
    \A s \in Session :
        (\E r \in DOMAIN store[s].revisions : store[s].revisions[r] = Foreign)
            => observer[s].blind

\* Candidates on offer come from the last revision, but for those a removal
\* proposes after the terminal revision has retired the others; and no notice
\* speaks of candidates that are retired or were never offered, through failures,
\* removals and restarts.
CandidatesAreCurrent ==
    \A s \in Session : \A r \in DOMAIN store[s].proposals :
        /\ store[s].proposals[r] = "proposed" =>
              \/ r = Len(store[s].revisions)
              \/ r = Len(store[s].revisions) - 1 /\ observer[s].end = "removed"
        /\ r \in store[s].notices => store[s].proposals[r] \in {"proposed", "decided"}

\* A row is open while its observer is at work, and no longer: also for
\* sessions stopped before they had a row, and after a restart.
RowsFollowObservers ==
    \A s \in Session :
        /\ store[s].row = "open" => Active(s) \/ observer[s].refused
        /\ Active(s) /\ observer[s].persisted => store[s].row = "open"

\* The last text an observer went by is its last revision when the text is
\* submitted, the surface lost or the retention over, and is not lost when
\* another insertion ends it.
SeenEditsAreKept ==
    [][\A s \in Session :
         LET o == observer[s]
             r == store'[s].revisions
         IN  /\ o.at \in {"closing", "attaching", "offering"}
             /\ observer'[s].at = "done"
             /\ observer'[s].persisted
             /\ ~o.refused
             =>
             /\ o.end # "boundary" =>
                  o.seen = IF r = <<>> THEN Original ELSE r[Len(r)]
             /\ o.seen = Original \/ \E i \in DOMAIN r : r[i] = o.seen]_vars

\* What the user decided about a candidate stands.
DecisionsStand ==
    [][\A s \in Session : \A r \in DOMAIN store[s].proposals :
          store[s].proposals[r] = "decided" =>
              store'[s].proposals[r] = store[s].proposals[r]]_vars
=============================================================================
