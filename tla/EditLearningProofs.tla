-------------------------- MODULE EditLearningProofs --------------------------
(***************************************************************************)
(* Proofs about EditLearning, for any number of insertions, any texts and  *)
(* any edits: what the invariants and the action properties checked of the *)
(* small instance say holds of every one.                                  *)
(***************************************************************************)
EXTENDS EditLearning, FiniteSetTheorems, TLAPS

ActivePC == {"watching", "looked", "flushing", "publishing", "learning", "closing"}
ObserverPC ==
    ActivePC \cup {"unused", "reporting", "attaching", "amending", "offering", "done"}

Observer ==
    [at : ObserverPC, signal : {"run", "insertion", "limit"}, persisted : BOOLEAN,
     shot : Text \cup Errors \cup {Gone, None}, pending : Text \cup {None},
     learning : Nat, last : Text, end : {None, "over", "removed", "boundary"},
     seen : Text, blind : BOOLEAN, refused : BOOLEAN]

Status == {None, "proposed", "superseded", "decided"}

Rows ==
    [row : {None, "open", "finalized", "failed"}, revisions : Seq(Text),
     proposals : Seq(Status), notices : SUBSET Nat]

LastRevision(d) ==
    IF d.revisions = <<>> THEN Original ELSE d.revisions[Len(d.revisions)]

\* The text is that of the insertion or of one of the revisions.
Kept(t, d) == t = Original \/ \E i \in DOMAIN d.revisions : d.revisions[i] = t

\* What relates an observer o to the rows d of its session; nothing of it is
\* about other sessions.

\* One status per revision, notices of candidates only; nothing happened yet to
\* a session that is not in use.
Shaped(o, d) ==
    /\ o \in Observer
    /\ d \in Rows
    /\ Len(d.proposals) = Len(d.revisions)
    /\ d.notices \subseteq 1 .. Len(d.revisions)
    /\ \A r \in d.notices : d.proposals[r] \in {"proposed", "decided"}
    /\ o.at = "unused" => o = Unused /\ d = NoRows

\* Rows exist once the observer has seen them created.
RowsInHand(o, d) ==
    /\ o.at \in {"looked", "flushing", "publishing", "learning", "amending", "offering"}
          => o.persisted
    /\ o.at \in {"reporting", "attaching"} => ~o.persisted
    /\ ~o.persisted =>
          /\ d.revisions = <<>>
          /\ d.row # "open"
          /\ o.at # "done" => d.row = None
    /\ o.at \in ActivePC /\ o.persisted => d.row = "open"
    /\ d.row = "open" => o.at \in ActivePC \/ o.refused

\* The revision whose candidates wait for quiescence is the last one, or the
\* last but the terminal one, and was not proposed yet.
CandidatesInHand(o, d) ==
    /\ \A r \in 1 .. Len(d.revisions) :
          d.proposals[r] = "proposed" =>
             r = Len(d.revisions) \/ (r = Len(d.revisions) - 1 /\ o.end = "removed")
    /\ o.at \in ActivePC \ {"closing"} /\ o.learning # 0 =>
          /\ o.learning \in 1 .. Len(d.revisions)
          /\ d.proposals[o.learning] = None
          /\ \/ o.learning = Len(d.revisions) /\ o.at # "publishing"
             \/ o.learning = Len(d.revisions) - 1 /\ o.at = "publishing"
             \/ /\ o.learning = Len(d.revisions) - 1
                /\ o.at = "learning" /\ o.end = "removed"
    /\ o.at \in {"publishing", "offering"} =>
          /\ d.revisions # <<>>
          /\ d.proposals[Len(d.revisions)] = None
    /\ o.at \in {"watching", "looked"} => o.end = None

\* Unless a write was refused, the last text seen is pending or the last
\* revision; once pending is written it is among the revisions.
SeenInHand(o, d) ==
    /\ o.at \in {"watching", "looked", "flushing"} => o.last = LastRevision(d)
    /\ o.at \in {"watching", "looked"} =>
          /\ o.refused => o.pending = None
          /\ ~o.refused => o.seen = IF o.pending = None THEN o.last ELSE o.pending
          /\ ~o.persisted => o.pending = None /\ ~o.refused
    /\ o.at = "flushing" =>
          /\ o.pending = None /\ ~o.refused => o.seen = o.last
          /\ o.pending # None =>
                o.seen = o.pending \/ (o.end = "boundary" /\ Kept(o.seen, d))
    /\ o.at \in {"publishing", "learning", "closing"} /\ o.persisted /\ ~o.refused =>
          /\ o.end # "boundary" => o.seen = LastRevision(d)
          /\ Kept(o.seen, d)
    /\ o.at \in {"closing", "attaching"} /\ ~o.persisted =>
          o.seen = IF o.pending = None THEN Original ELSE o.pending
    /\ o.at = "amending" => o.pending # None /\ o.seen = o.pending
    /\ o.at = "offering" => o.seen = LastRevision(d) /\ Kept(o.seen, d)

\* Only an observer that was not told of an insertion has seen another's text.
NothingForeign(o, d) ==
    ~o.blind =>
        /\ o.shot # Foreign
        /\ o.pending # Foreign
        /\ \A r \in 1 .. Len(d.revisions) : d.revisions[r] # Foreign

InHand(o, d) ==
    /\ Shaped(o, d)
    /\ RowsInHand(o, d)
    /\ CandidatesInHand(o, d)
    /\ SeenInHand(o, d)
    /\ NothingForeign(o, d)

Used(s) == observer[s].at # "unused"

\* The surface, the insertion under way and the observers of the surface.
Surface ==
    /\ field \in [owner : 0 .. MaxSessions, text : Edit \cup {Original, Gone}]
    /\ setup \in [step : {"free", "stopping", "inserted"},
                  session : 0 .. MaxSessions, waits : SUBSET Session]
    /\ setup.step = "free" => setup = Free

\* Sessions are used in order; the insertion under way has the next one.
InOrder ==
    \E k \in 0 .. MaxSessions :
        /\ \A s \in Session : Used(s) <=> s <= k
        /\ setup.step # "free" => setup.session = k + 1 /\ k + 1 \in Session

\* Nobody watches while an insertion is in the text and not observed yet, and
\* a watcher who knows of all insertions watches its own text.
WatchersKnow ==
    /\ setup.step = "stopping" => \A s \in Session : Active(s) => s \in setup.waits
    /\ setup.step = "inserted" => \A s \in Session : ~Active(s)
    /\ \A s \in Session : Active(s) /\ ~observer[s].blind => field.owner = s

IndInv ==
    /\ observer = [s \in Session |-> observer[s]]
    /\ store = [s \in Session |-> store[s]]
    /\ \A s \in Session : InHand(observer[s], store[s])
    /\ Surface
    /\ InOrder
    /\ WatchersKnow

-----------------------------------------------------------------------------
\* A revision is appended to both sequences, retires the open candidates and
\* keeps every other status (append_edit_learning_revision_and_supersede).
LEMMA AppendedRows ==
    ASSUME NEW d \in Rows, Len(d.proposals) = Len(d.revisions), NEW t \in Text
    PROVE  LET e == AppendRevision(d, t)
               n == Len(d.revisions)
           IN  /\ e \in Rows
               /\ e.row = d.row
               /\ n \in Nat
               /\ Len(e.revisions) = n + 1 /\ Len(e.proposals) = n + 1
               /\ \A r \in 1 .. n : e.revisions[r] = d.revisions[r]
               /\ e.revisions[n + 1] = t
               /\ \A r \in 1 .. n : e.proposals[r] =
                     IF d.proposals[r] = "proposed" THEN "superseded" ELSE d.proposals[r]
               /\ e.proposals[n + 1] = None
               /\ e.notices = {} \/ (e.notices = d.notices
                     /\ \A r \in 1 .. n : d.proposals[r] # "proposed")
<1> DEFINE e == AppendRevision(d, t)
           n == Len(d.revisions)
           q == Superseded(d)
<1>1. /\ d.revisions \in Seq(Text) /\ d.proposals \in Seq(Status)
      /\ n \in Nat /\ DOMAIN d.proposals = 1 .. n
      /\ d.notices \in SUBSET Nat
  BY DEF Rows
<1>2. q = [r \in 1 .. n |-> IF d.proposals[r] = "proposed" THEN "superseded"
                            ELSE d.proposals[r]]
  BY <1>1 DEF Superseded, Open
<1>3. q \in Seq(Status) /\ Len(q) = n
  <2>1. \A r \in 1 .. n : d.proposals[r] \in Status
    BY <1>1
  <2>2. q \in [1 .. n -> Status]
    BY <1>2, <2>1 DEF Status
  <2> HIDE DEF q
  <2> QED BY <1>1, <2>2
<1>4. e = [d EXCEPT !.revisions = Append(d.revisions, t), !.proposals = Append(q, None),
                    !.notices = IF Open(d) = {} THEN d.notices ELSE {}]
  BY DEF AppendRevision
<1> HIDE DEF e, q
<1>5. /\ e.row = d.row
      /\ e.revisions = Append(d.revisions, t)
      /\ e.proposals = Append(q, None)
      /\ e.notices = IF Open(d) = {} THEN d.notices ELSE {}
  BY <1>4 DEF Rows
<1>6. Append(d.revisions, t) \in Seq(Text) /\ Append(q, None) \in Seq(Status)
  BY <1>1, <1>3 DEF Status
<1>7. e \in Rows
  BY <1>1, <1>4, <1>6 DEF Rows
<1>8. /\ Len(e.revisions) = n + 1
      /\ \A r \in 1 .. n : e.revisions[r] = d.revisions[r]
      /\ e.revisions[n + 1] = t
  BY <1>1, <1>5
<1>9. /\ Len(e.proposals) = n + 1
      /\ \A r \in 1 .. n : e.proposals[r] = q[r]
      /\ e.proposals[n + 1] = None
  BY <1>3, <1>5
<1>10. \A r \in 1 .. n : q[r] = IF d.proposals[r] = "proposed" THEN "superseded"
                                ELSE d.proposals[r]
  BY <1>2
<1>11. e.notices = {} \/ (e.notices = d.notices
                     /\ \A r \in 1 .. n : d.proposals[r] # "proposed")
  BY <1>1, <1>5 DEF Open
<1> QED
  BY <1>1, <1>5, <1>7, <1>8, <1>9, <1>10, <1>11 DEF e

\* Proposing candidates of revision r touches nothing but its status and notice.
LEMMA ProposedRows ==
    ASSUME NEW d \in Rows, Len(d.proposals) = Len(d.revisions),
           NEW r \in 1 .. Len(d.revisions)
    PROVE  LET e == Propose(d, r)
           IN  /\ e \in Rows
               /\ e.row = d.row
               /\ e.revisions = d.revisions
               /\ Len(e.proposals) = Len(d.proposals)
               /\ \A i \in 1 .. Len(d.revisions) : i # r => e.proposals[i] = d.proposals[i]
               /\ \/ e.proposals[r] = "proposed" /\ e.notices = d.notices \cup {r}
                  \/ e = d
<1> DEFINE e == Propose(d, r)
<1>1. /\ d.proposals \in Seq(Status) /\ Len(d.revisions) \in Nat
      /\ DOMAIN d.proposals = 1 .. Len(d.revisions)
      /\ d.notices \in SUBSET Nat
  BY DEF Rows
<1>2. CASE d.revisions[r] \in Learnable
  <2> DEFINE q == [d.proposals EXCEPT ![r] = "proposed"]
  <2>1. /\ q \in Seq(Status) /\ Len(q) = Len(d.proposals)
        /\ q[r] = "proposed"
        /\ \A i \in 1 .. Len(d.revisions) : i # r => q[i] = d.proposals[i]
    BY <1>1 DEF Status
  <2>2. e = [d EXCEPT !.proposals = q, !.notices = d.notices \cup {r}]
    BY <1>2 DEF Propose
  <2> HIDE DEF q, e
  <2>3. r \in Nat
    BY <1>1
  <2>4. d.notices \cup {r} \in SUBSET Nat
    BY <1>1, <2>3
  <2>5. e \in Rows /\ e.row = d.row /\ e.revisions = d.revisions
        /\ e.proposals = q /\ e.notices = d.notices \cup {r}
    BY <2>1, <2>2, <2>4 DEF Rows
  <2> QED BY <2>1, <2>5 DEF e
<1>3. CASE d.revisions[r] \notin Learnable
  BY <1>3 DEF Propose
<1> QED BY <1>2, <1>3

\* What is left of a task that ended.
LEMMA EndedObserver ==
    ASSUME NEW o \in Observer
    PROVE  LET p == Ended(o)
           IN  /\ p \in Observer
               /\ p.at = "done" /\ p.persisted = o.persisted
               /\ p.shot = None /\ p.pending = None
               /\ p.end \in {"removed", None} /\ (o.end = "removed" <=> p.end = "removed")
               /\ p.blind = o.blind /\ p.refused = o.refused
<1>1. /\ o.persisted \in BOOLEAN /\ o.blind \in BOOLEAN /\ o.refused \in BOOLEAN
      /\ o.end \in {None, "over", "removed", "boundary"}
  BY DEF Observer
<1> DEFINE end == IF o.end = "removed" THEN o.end ELSE None
<1>2. end \in {None, "removed"} /\ (o.end = "removed" <=> end = "removed")
  BY DEF None
<1>3. Unused \in Observer
  BY DEF Unused, Observer, ObserverPC, ActivePC, Text, None, Original
<1>4. "done" \in ObserverPC
  BY DEF ObserverPC
<1>5. Ended(o) = [Unused EXCEPT !.at = "done", !.persisted = o.persisted, !.end = end,
                                !.blind = o.blind, !.refused = o.refused]
  BY DEF Ended
<1>6. /\ Ended(o).at = "done" /\ Ended(o).persisted = o.persisted
      /\ Ended(o).shot = None /\ Ended(o).pending = None
      /\ Ended(o).end = end
      /\ Ended(o).blind = o.blind /\ Ended(o).refused = o.refused
  BY DEF Ended, Unused
<1> HIDE DEF end
<1>7. Ended(o) \in Observer
  BY <1>1, <1>2, <1>3, <1>4, <1>5 DEF Observer
<1> QED
  BY <1>2, <1>6, <1>7

\* e is d with revision t: no candidate is open, the revision is the last text
\* and the texts before it are kept.
Appended(d, e, t) ==
    /\ e.row = d.row
    /\ Len(e.revisions) = Len(d.revisions) + 1 /\ e.revisions # <<>>
    /\ \A r \in 1 .. Len(d.revisions) + 1 : e.proposals[r] # "proposed"
    /\ \A r \in 1 .. Len(d.revisions) : d.proposals[r] = None => e.proposals[r] = None
    /\ e.proposals[Len(d.revisions) + 1] = None
    /\ LastRevision(e) = t
    /\ \A u : u = t \/ Kept(u, d) => Kept(u, e)
    /\ t # Foreign /\ (\A r \in 1 .. Len(d.revisions) : d.revisions[r] # Foreign)
          => \A r \in 1 .. Len(d.revisions) + 1 : e.revisions[r] # Foreign

\* What an appended revision does to a session in hand.
LEMMA AfterAppend ==
    ASSUME NEW o, NEW d, NEW p \in Observer, NEW t \in Text,
           Shaped(o, d), p.at # "unused"
    PROVE  Shaped(p, AppendRevision(d, t)) /\ Appended(d, AppendRevision(d, t), t)
<1> DEFINE e == AppendRevision(d, t)
           n == Len(d.revisions)
<1>1. /\ d \in Rows /\ Len(d.proposals) = n
      /\ d.notices \subseteq 1 .. n
      /\ \A r \in d.notices : d.proposals[r] \in {"proposed", "decided"}
  BY DEF Shaped
<1>2. /\ e \in Rows
      /\ e.row = d.row
      /\ n \in Nat
      /\ Len(e.revisions) = n + 1 /\ Len(e.proposals) = n + 1
      /\ \A r \in 1 .. n : e.revisions[r] = d.revisions[r]
      /\ e.revisions[n + 1] = t
      /\ \A r \in 1 .. n : e.proposals[r] =
            IF d.proposals[r] = "proposed" THEN "superseded" ELSE d.proposals[r]
      /\ e.proposals[n + 1] = None
      /\ e.notices = {} \/ (e.notices = d.notices
            /\ \A r \in 1 .. n : d.proposals[r] # "proposed")
  BY <1>1, AppendedRows
<1>3. d.revisions \in Seq(Text) /\ e.revisions \in Seq(Text)
  BY <1>1, <1>2 DEF Rows
<1> HIDE DEF e, n
<1>4. Shaped(p, e)
  BY <1>1, <1>2 DEF Shaped
<1>5. \A r \in 1 .. n + 1 : e.proposals[r] # "proposed"
  BY <1>2 DEF None
<1>6. e.revisions # <<>>
  BY <1>2, <1>3
<1>7. LastRevision(e) = t
  BY <1>2, <1>3, <1>6 DEF LastRevision
<1>8. ASSUME NEW u, u = t \/ Kept(u, d) PROVE Kept(u, e)
  <2>1. DOMAIN d.revisions = 1 .. n /\ DOMAIN e.revisions = 1 .. n + 1
    BY <1>2, <1>3 DEF n
  <2> QED BY <1>2, <1>8, <2>1 DEF Kept
<1>9. t # Foreign /\ (\A r \in 1 .. n : d.revisions[r] # Foreign)
         => \A r \in 1 .. n + 1 : e.revisions[r] # Foreign
  BY <1>2
<1>10. \A r \in 1 .. n : d.proposals[r] = None => e.proposals[r] = None
  BY <1>2 DEF None
<1> QED
  BY <1>2, <1>4, <1>5, <1>6, <1>7, <1>8, <1>9, <1>10 DEF e, n, Appended

\* e is d, but for the status of revision r and the notices.
Proposed(d, e, r) ==
    /\ e.row = d.row
    /\ e.revisions = d.revisions
    /\ \A i \in 1 .. Len(d.revisions) : i # r => e.proposals[i] = d.proposals[i]
    /\ LastRevision(e) = LastRevision(d)
    /\ \A u : Kept(u, d) => Kept(u, e)

\* What proposing the candidates of revision r does to it.
LEMMA AfterPropose ==
    ASSUME NEW o, NEW d, NEW p \in Observer,
           Shaped(o, d), p.at # "unused",
           NEW r \in 1 .. Len(d.revisions)
    PROVE  Shaped(p, Propose(d, r)) /\ Proposed(d, Propose(d, r), r)
<1> DEFINE e == Propose(d, r)
           n == Len(d.revisions)
<1>1. /\ d \in Rows /\ Len(d.proposals) = n
      /\ d.notices \subseteq 1 .. n
      /\ \A i \in d.notices : d.proposals[i] \in {"proposed", "decided"}
  BY DEF Shaped
<1>2. /\ e \in Rows
      /\ e.row = d.row
      /\ e.revisions = d.revisions
      /\ Len(e.proposals) = Len(d.proposals)
      /\ \A i \in 1 .. n : i # r => e.proposals[i] = d.proposals[i]
      /\ \/ e.proposals[r] = "proposed" /\ e.notices = d.notices \cup {r}
         \/ e = d
  BY <1>1, ProposedRows
<1> HIDE DEF e
<1>3. Shaped(p, e)
  BY <1>1, <1>2 DEF Shaped
<1>4. LastRevision(e) = LastRevision(d) /\ \A u : Kept(u, d) => Kept(u, e)
  BY <1>2 DEF LastRevision, Kept
<1> QED
  BY <1>2, <1>3, <1>4 DEF e, Proposed

\* A snapshot is a text or a failure, and of nobody else's text unless the
\* session was not told of an insertion.
LEMMA ShotsSeen ==
    ASSUME IndInv, NEW s \in Session, NEW shot \in Shots(s)
    PROVE  /\ shot \in Text \cup Errors \cup {Gone}
           /\ Active(s) /\ ~observer[s].blind => shot # Foreign
<1>1. field.text \in Edit \cup {Original, Gone}
  BY DEF IndInv, Surface
<1>2. shot \in Text \cup Errors \cup {Gone}
  BY <1>1 DEF Shots, Text
<1>3. Foreign \notin Edit \cup {Original, Gone} \cup Errors
  BY EditAssumption DEF Foreign, Original, Gone, Errors
<1>4. Active(s) /\ ~observer[s].blind => shot # Foreign
  BY <1>1, <1>3 DEF IndInv, WatchersKnow, Shots
<1> QED
  BY <1>2, <1>4

-----------------------------------------------------------------------------
LEMMA InitInv == Init => IndInv
<1> SUFFICES ASSUME Init PROVE IndInv
  OBVIOUS
<1>1. InHand(Unused, NoRows)
  <2>1. Unused \in Observer
    BY DEF Unused, Observer, ObserverPC, ActivePC, Text, None, Original
  <2>2. NoRows \in Rows /\ Len(NoRows.revisions) = 0 /\ Len(NoRows.proposals) = 0
    BY DEF NoRows, Rows, None
  <2>3. Shaped(Unused, NoRows)
    BY <2>1, <2>2 DEF Shaped, NoRows
  <2>4. /\ RowsInHand(Unused, NoRows) /\ SeenInHand(Unused, NoRows)
        /\ CandidatesInHand(Unused, NoRows) /\ NothingForeign(Unused, NoRows)
    BY <2>2 DEF RowsInHand, SeenInHand, CandidatesInHand, NothingForeign, Unused,
       NoRows, ActivePC, None, Foreign
  <2> QED BY <2>3, <2>4 DEF InHand
<1>2. \A s \in Session : observer[s] = Unused /\ store[s] = NoRows
  BY DEF Init
<1>3. Surface
  BY BoundAssumption DEF Init, Surface, Free, Gone, Original
<1>4. InOrder
  <2>1. \A s \in Session : ~Used(s) /\ ~(s <= 0)
    BY <1>2 DEF Used, Unused, Session
  <2>2. 0 \in 0 .. MaxSessions
    BY BoundAssumption
  <2> QED BY <2>1, <2>2 DEF InOrder, Init, Free
<1>5. WatchersKnow
  BY <1>2 DEF WatchersKnow, Init, Free, Active, Unused
<1> QED
  BY <1>1, <1>2, <1>3, <1>4, <1>5 DEF IndInv, Init

\* A step of one session that is in use keeps the invariant if it keeps that of
\* the session and neither starts it again nor forgets what it was not told.
LEMMA OneSession ==
    ASSUME IndInv, NEW s \in Session, NEW p, NEW e,
           observer' = [observer EXCEPT ![s] = p],
           store' = [store EXCEPT ![s] = e],
           UNCHANGED <<field, setup>>,
           InHand(p, e), Used(s), p.at # "unused",
           p.at \in ActivePC => Active(s),
           p.blind = observer[s].blind
    PROVE  IndInv'
<1>1. /\ observer' = [t \in Session |-> IF t = s THEN p ELSE observer[t]]
      /\ store' = [t \in Session |-> IF t = s THEN e ELSE store[t]]
  BY DEF IndInv
<1>2. \A t \in Session : InHand(observer'[t], store'[t])
  BY <1>1 DEF IndInv
<1>3. \A t \in Session : (Used(t))' <=> Used(t)
  BY <1>1 DEF Used
<1>4. \A t \in Session : /\ (Active(t))' => Active(t)
                         /\ observer'[t].blind = observer[t].blind
  BY <1>1 DEF Active, ActivePC
<1>5. Surface' /\ InOrder'
  BY <1>3 DEF IndInv, Surface, InOrder
<1>6. WatchersKnow'
  BY <1>4 DEF IndInv, WatchersKnow
<1>7. /\ observer' = [t \in Session |-> observer'[t]]
      /\ store' = [t \in Session |-> store'[t]]
  BY <1>1
<1> QED
  BY <1>2, <1>5, <1>6, <1>7 DEF IndInv

\* What an observer does without its rows.
LEMMA QuietStep ==
    ASSUME IndInv, NEW s \in Session,
           Interrupted(s) \/ Suspend(s) \/ Leave(s) \/ Settle(s) \/ NoteEdit(s)
           \/ Retire(s) \/ LastLook(s) \/ GiveUp(s)
    PROVE  IndInv'
<1> DEFINE o == observer[s]
           d == store[s]
<1>1. InHand(o, d)
  BY DEF IndInv
<1>2. store = [store EXCEPT ![s] = d]
  BY DEF IndInv
<1>3. o \in Observer /\ d \in Rows
  BY <1>1 DEF InHand, Shaped
<1>4. \A p : /\ observer' = [observer EXCEPT ![s] = p]
             /\ UNCHANGED <<field, setup, store>>
             /\ InHand(p, d)
             /\ o.at # "unused" /\ p.at # "unused"
             /\ p.at \in ActivePC => o.at \in ActivePC
             /\ p.blind = o.blind
             => IndInv'
  BY <1>2, OneSession DEF Used, Active, ActivePC
<1> HIDE DEF o, d
<1>5. CASE Interrupted(s)
  <2> DEFINE p == [o EXCEPT !.at = "watching", !.shot = None]
  <2>1. o.at = "looked" /\ observer' = [observer EXCEPT ![s] = p]
        /\ UNCHANGED <<field, setup, store>>
    BY <1>5 DEF Interrupted, o
  <2>2. /\ p \in Observer /\ p.at = "watching" /\ p.shot = None
        /\ p.persisted = o.persisted /\ p.pending = o.pending
        /\ p.learning = o.learning /\ p.last = o.last /\ p.end = o.end
        /\ p.seen = o.seen /\ p.blind = o.blind /\ p.refused = o.refused
    BY <1>3 DEF Observer, ObserverPC, ActivePC
  <2> HIDE DEF p
  <2>3. InHand(p, d)
    BY <1>1, <2>1, <2>2 DEF InHand, Shaped, RowsInHand, CandidatesInHand, SeenInHand,
       NothingForeign, ActivePC, None, Foreign
  <2> QED
    BY <1>4, <2>1, <2>2, <2>3 DEF ActivePC
<1>6. CASE Suspend(s)
  <2> DEFINE p == [o EXCEPT !.at = "watching", !.shot = None, !.pending = None,
                            !.seen = o.last, !.refused = FALSE]
  <2>1. o.at = "looked" /\ observer' = [observer EXCEPT ![s] = p]
        /\ UNCHANGED <<field, setup, store>>
    BY <1>6 DEF Suspend, Looked, o
  <2>2. /\ p \in Observer /\ p.at = "watching" /\ p.shot = None
        /\ p.persisted = o.persisted /\ p.pending = None
        /\ p.learning = o.learning /\ p.last = o.last /\ p.end = o.end
        /\ p.seen = o.last /\ p.blind = o.blind /\ p.refused = FALSE
    BY <1>3 DEF Observer, ObserverPC, ActivePC
  <2> HIDE DEF p
  <2>3. InHand(p, d)
    BY <1>1, <2>1, <2>2 DEF InHand, Shaped, RowsInHand, CandidatesInHand, SeenInHand,
       NothingForeign, ActivePC, None, Foreign
  <2> QED
    BY <1>4, <2>1, <2>2, <2>3 DEF ActivePC
<1>7. CASE Leave(s)
  <2> DEFINE p == [o EXCEPT !.at = "flushing", !.shot = None,
                            !.end = IF o.shot = Gone THEN "removed" ELSE "over"]
  <2>1. o.at = "looked" /\ observer' = [observer EXCEPT ![s] = p]
        /\ UNCHANGED <<field, setup, store>>
    BY <1>7 DEF Leave, Looked, o
  <2>2. /\ p \in Observer /\ p.at = "flushing" /\ p.shot = None
        /\ p.persisted = o.persisted /\ p.pending = o.pending
        /\ p.learning = o.learning /\ p.last = o.last
        /\ p.end \in {"removed", "over"}
        /\ p.seen = o.seen /\ p.blind = o.blind /\ p.refused = o.refused
    BY <1>3 DEF Observer, ObserverPC, ActivePC
  <2> HIDE DEF p
  <2>3. Shaped(p, d) /\ RowsInHand(p, d) /\ NothingForeign(p, d)
    BY <1>1, <2>1, <2>2 DEF InHand, Shaped, RowsInHand, NothingForeign, ActivePC,
       None, Foreign
  <2>4. CandidatesInHand(p, d)
    BY <1>1, <2>1, <2>2 DEF InHand, CandidatesInHand, ActivePC, None
  <2>5. SeenInHand(p, d)
    BY <1>1, <2>1, <2>2 DEF InHand, SeenInHand, RowsInHand, ActivePC
  <2> QED
    BY <1>4, <2>1, <2>2, <2>3, <2>4, <2>5 DEF ActivePC, InHand
<1>8. CASE Settle(s)
  <2> DEFINE p == [o EXCEPT !.at = "watching", !.shot = None, !.pending = None,
                            !.seen = o.shot, !.refused = FALSE]
  <2>1. /\ o.at = "looked" /\ o.shot \in Text /\ o.shot = o.last
        /\ observer' = [observer EXCEPT ![s] = p]
        /\ UNCHANGED <<field, setup, store>>
    BY <1>8 DEF Settle, Read, Looked, o
  <2>2. /\ p \in Observer /\ p.at = "watching" /\ p.shot = None
        /\ p.persisted = o.persisted /\ p.pending = None
        /\ p.learning = o.learning /\ p.last = o.last /\ p.end = o.end
        /\ p.seen = o.shot /\ p.blind = o.blind /\ p.refused = FALSE
    BY <1>3, <2>1 DEF Observer, ObserverPC, ActivePC
  <2> HIDE DEF p
  <2>3. InHand(p, d)
    BY <1>1, <2>1, <2>2 DEF InHand, Shaped, RowsInHand, CandidatesInHand, SeenInHand,
       NothingForeign, ActivePC, None, Foreign
  <2> QED
    BY <1>4, <2>1, <2>2, <2>3 DEF ActivePC
<1>9. CASE NoteEdit(s)
  <2> DEFINE p == [o EXCEPT !.at = "watching", !.shot = None, !.pending = o.shot,
                            !.seen = o.shot, !.refused = FALSE]
  <2>1. /\ o.at = "looked" /\ o.shot \in Text
        /\ observer' = [observer EXCEPT ![s] = p]
        /\ UNCHANGED <<field, setup, store>>
    BY <1>9 DEF NoteEdit, Read, Looked, o
  <2>2. /\ p \in Observer /\ p.at = "watching" /\ p.shot = None
        /\ p.persisted = o.persisted /\ p.pending = o.shot /\ o.shot # None
        /\ p.learning = o.learning /\ p.last = o.last /\ p.end = o.end
        /\ p.seen = o.shot /\ p.blind = o.blind /\ p.refused = FALSE
    BY <1>3, <2>1, EditAssumption, ZenonT(40)
    DEF Observer, ObserverPC, ActivePC, Text, None, Original, Foreign
  <2> HIDE DEF p
  <2>3. InHand(p, d)
    BY <1>1, <2>1, <2>2 DEF InHand, Shaped, RowsInHand, CandidatesInHand, SeenInHand,
       NothingForeign, ActivePC, None, Foreign
  <2> QED
    BY <1>4, <2>1, <2>2, <2>3 DEF ActivePC
<1>10. CASE Retire(s)
  <2> DEFINE p == [o EXCEPT !.at = "flushing", !.end = "over"]
  <2>1. /\ o.at = "watching" /\ o.persisted
        /\ observer' = [observer EXCEPT ![s] = p]
        /\ UNCHANGED <<field, setup, store>>
    BY <1>10 DEF Retire, o
  <2>2. /\ p \in Observer /\ p.at = "flushing" /\ p.shot = o.shot
        /\ p.persisted = o.persisted /\ p.pending = o.pending
        /\ p.learning = o.learning /\ p.last = o.last /\ p.end = "over"
        /\ p.seen = o.seen /\ p.blind = o.blind /\ p.refused = o.refused
    BY <1>3 DEF Observer, ObserverPC, ActivePC
  <2> HIDE DEF p
  <2>3. Shaped(p, d) /\ RowsInHand(p, d) /\ NothingForeign(p, d)
    BY <1>1, <2>1, <2>2 DEF InHand, Shaped, RowsInHand, NothingForeign, ActivePC
  <2>4. CandidatesInHand(p, d)
    BY <1>1, <2>1, <2>2 DEF InHand, CandidatesInHand, ActivePC, None
  <2>5. SeenInHand(p, d)
    BY <1>1, <2>1, <2>2 DEF InHand, SeenInHand, ActivePC
  <2> QED
    BY <1>4, <2>1, <2>2, <2>3, <2>4, <2>5 DEF ActivePC, InHand
<1>11. CASE LastLook(s)
  <2>1. PICK shot \in Shots(s) :
          observer' = [observer EXCEPT
            ![s] = [o EXCEPT !.at = IF o.persisted THEN "flushing" ELSE "closing",
                             !.end = "boundary",
                             !.pending = IF shot \in Text \ {o.last} THEN shot ELSE @,
                             !.seen = IF shot \in Text THEN shot ELSE @]]
    BY <1>11 DEF LastLook, o
  <2> DEFINE p == [o EXCEPT !.at = IF o.persisted THEN "flushing" ELSE "closing",
                            !.end = "boundary",
                            !.pending = IF shot \in Text \ {o.last} THEN shot ELSE @,
                            !.seen = IF shot \in Text THEN shot ELSE @]
  <2>2. o.at = "watching" /\ UNCHANGED <<field, setup, store>>
    BY <1>11 DEF LastLook, o
  <2>3. ~o.blind => shot # Foreign
    <3> SUFFICES ASSUME ~o.blind PROVE shot # Foreign
      OBVIOUS
    <3>1. field.owner = s
      BY <2>2 DEF IndInv, WatchersKnow, Active, o
    <3>2. field.text # Foreign
      BY EditAssumption DEF IndInv, Surface, Gone, Original, Foreign
    <3> QED
      BY <3>1, <3>2 DEF Shots, Errors, Foreign
  <2>4. None \notin Text
    BY EditAssumption DEF Text, None, Original, Foreign
  <2>5. /\ p \in Observer /\ p.shot = o.shot
        /\ p.at = IF o.persisted THEN "flushing" ELSE "closing"
        /\ p.persisted = o.persisted
        /\ p.pending = IF shot \in Text \ {o.last} THEN shot ELSE o.pending
        /\ p.learning = o.learning /\ p.last = o.last /\ p.end = "boundary"
        /\ p.seen = IF shot \in Text THEN shot ELSE o.seen
        /\ p.blind = o.blind /\ p.refused = o.refused
    BY <1>3, ZenonT(40) DEF Observer, ObserverPC, ActivePC
  <2>6. observer' = [observer EXCEPT ![s] = p]
    BY <2>1
  <2> HIDE DEF p
  <2>7. Shaped(p, d) /\ RowsInHand(p, d)
    BY <1>1, <2>2, <2>5 DEF InHand, Shaped, RowsInHand, ActivePC
  <2>8. CandidatesInHand(p, d)
    BY <1>1, <2>2, <2>5 DEF InHand, CandidatesInHand, ActivePC, None
  <2>9. NothingForeign(p, d)
    BY <1>1, <2>3, <2>5 DEF InHand, NothingForeign
  <2>10. Kept(o.last, d) /\ o.last = LastRevision(d)
    <3>1. o.last = LastRevision(d)
      BY <1>1, <2>2 DEF InHand, SeenInHand
    <3>2. d.revisions \in Seq(Text)
      BY <1>3 DEF Rows
    <3> QED BY <3>1, <3>2 DEF Kept, LastRevision
  <2>11. SeenInHand(p, d)
    <3>1. CASE o.persisted
      BY <1>1, <2>2, <2>4, <2>5, <2>10, <3>1 DEF InHand, SeenInHand
    <3>2. CASE ~o.persisted
      <4>1. o.pending = None /\ ~o.refused /\ o.seen = o.last /\ o.last = Original
        BY <1>1, <2>2, <2>10, <3>2 DEF InHand, SeenInHand, RowsInHand, LastRevision
      <4> QED
        BY <2>4, <2>5, <3>2, <4>1 DEF SeenInHand
    <3> QED BY <1>3, <3>1, <3>2 DEF Observer
  <2> QED
    BY <1>4, <2>2, <2>5, <2>6, <2>7, <2>8, <2>9, <2>11 DEF ActivePC, InHand
<1>12. CASE GiveUp(s)
  <2> DEFINE p == Ended(o)
  <2>1. /\ o.at \in {"reporting", "attaching", "watching"} /\ ~o.persisted
        /\ observer' = [observer EXCEPT ![s] = p]
        /\ UNCHANGED <<field, setup, store>>
    BY <1>1, <1>12 DEF GiveUp, InHand, RowsInHand, o
  <2>2. /\ p.at = "done" /\ p.persisted = o.persisted /\ p.shot = None
        /\ p.pending = None /\ p.blind = o.blind
    BY <1>3, EndedObserver
  <2>3. p \in Observer
    BY <1>3, EndedObserver
  <2> HIDE DEF p
  <2>4. InHand(p, d)
    BY <1>1, <2>1, <2>2, <2>3 DEF InHand, Shaped, RowsInHand, CandidatesInHand,
       SeenInHand, NothingForeign, ActivePC, None, Foreign
  <2> QED
    BY <1>4, <2>1, <2>2, <2>4 DEF ActivePC
<1> QED
  BY <1>5, <1>6, <1>7, <1>8, <1>9, <1>10, <1>11, <1>12

\* The turns of the loop that may write a row.
LEMMA TurnStep ==
    ASSUME IndInv, NEW s \in Session, NEW taken \in BOOLEAN,
           Poll(s) \/ Revert(s, taken) \/ SettleAndLearn(s, taken)
           \/ RecordEdit(s, taken)
    PROVE  IndInv'
<1> DEFINE o == observer[s]
           d == store[s]
           n == Len(d.revisions)
<1>1. InHand(o, d)
  BY DEF IndInv
<1>2. /\ store = [store EXCEPT ![s] = d]
      /\ \A e, yes : Write(s, e, yes) =>
            store' = [store EXCEPT ![s] = IF yes THEN e ELSE d]
  BY DEF IndInv, Write
<1>3. /\ o \in Observer /\ d \in Rows /\ Shaped(o, d)
      /\ n \in Nat /\ (d.revisions = <<>> <=> n = 0)
  BY <1>1 DEF InHand, Shaped, Rows
<1>4. \A p, e : /\ observer' = [observer EXCEPT ![s] = p]
                /\ store' = [store EXCEPT ![s] = e]
                /\ UNCHANGED <<field, setup>>
                /\ InHand(p, e)
                /\ o.at # "unused" /\ p.at # "unused"
                /\ p.at \in ActivePC => o.at \in ActivePC
                /\ p.blind = o.blind
                => IndInv'
  BY OneSession DEF Used, Active, ActivePC
<1> HIDE DEF o, d
<1>5. CASE Poll(s)
  <2>1. PICK shot \in Shots(s) :
          observer' = [observer EXCEPT ![s].at = "looked", ![s].shot = shot,
                                       ![s].persisted = TRUE]
    BY <1>5 DEF Poll
  <2> DEFINE p == [o EXCEPT !.at = "looked", !.shot = shot, !.persisted = TRUE]
             e == IF o.persisted THEN d ELSE [d EXCEPT !.row = "open"]
  <2>2. /\ o.at = "watching" /\ UNCHANGED <<field, setup>>
        /\ observer' = [observer EXCEPT ![s] = p]
        /\ store' = [store EXCEPT ![s] = e]
    BY <1>2, <1>5, <2>1, ZenonT(40) DEF Poll, o, d
  <2>3. shot \in Text \cup Errors \cup {Gone} /\ (~o.blind => shot # Foreign)
    BY <2>2, ShotsSeen DEF Active, o
  <2>4. /\ p \in Observer /\ p.at = "looked" /\ p.shot = shot
        /\ p.persisted = TRUE /\ p.pending = o.pending
        /\ p.learning = o.learning /\ p.last = o.last /\ p.end = o.end
        /\ p.seen = o.seen /\ p.blind = o.blind /\ p.refused = o.refused
    BY <1>3, <2>3 DEF Observer, ObserverPC, ActivePC
  <2>5. /\ e \in Rows /\ e.row = "open" /\ e.revisions = d.revisions
        /\ e.proposals = d.proposals /\ e.notices = d.notices
    BY <1>1, <1>3, <2>2 DEF InHand, RowsInHand, ActivePC, Rows
  <2> HIDE DEF p, e
  <2>6. Shaped(p, e) /\ RowsInHand(p, e)
    BY <1>1, <2>2, <2>4, <2>5 DEF InHand, Shaped, RowsInHand, ActivePC
  <2>7. CandidatesInHand(p, e)
    BY <1>1, <2>2, <2>4, <2>5 DEF InHand, CandidatesInHand, ActivePC
  <2>8. SeenInHand(p, e)
    <3>1. LastRevision(e) = LastRevision(d)
      BY <2>5 DEF LastRevision
    <3> QED BY <1>1, <2>2, <2>4, <3>1 DEF InHand, SeenInHand
  <2>9. NothingForeign(p, e)
    BY <1>1, <2>3, <2>4, <2>5 DEF InHand, NothingForeign
  <2> QED
    BY <1>4, <2>2, <2>4, <2>6, <2>7, <2>8, <2>9 DEF ActivePC, InHand
<1>6. CASE Revert(s, taken)
  <2> DEFINE p == [o EXCEPT !.at = "watching", !.shot = None, !.pending = None,
                            !.learning = 0, !.seen = Original,
                            !.last = IF taken THEN Original ELSE @,
                            !.refused = o.last # Original /\ ~taken]
             e == IF o.last # Original /\ taken THEN AppendRevision(d, Original) ELSE d
  <2>1. /\ o.at = "looked" /\ UNCHANGED <<field, setup>>
        /\ observer' = [observer EXCEPT ![s] = p]
    BY <1>6 DEF Revert, Read, Looked, o
  <2>2. store' = [store EXCEPT ![s] = e]
    BY <1>2, <1>6 DEF Revert, o, d
  <2>3. Original \in Text /\ Original # Foreign
    BY DEF Text, Original, Foreign
  <2>4. /\ p \in Observer /\ p.at = "watching" /\ p.shot = None
        /\ p.persisted = o.persisted /\ p.pending = None
        /\ p.learning = 0 /\ p.last = (IF taken THEN Original ELSE o.last)
        /\ p.end = o.end /\ p.seen = Original /\ p.blind = o.blind
        /\ p.refused = (o.last # Original /\ ~taken)
    <3>1. /\ (o.last # Original /\ ~taken) \in BOOLEAN
          /\ "watching" \in ObserverPC
          /\ (IF taken THEN Original ELSE o.last) \in Text
      BY <1>3, <2>3 DEF Observer, ObserverPC, ActivePC
    <3> QED BY <1>3, <2>3, <3>1 DEF Observer
  <2> HIDE DEF p
  <2>5. o.persisted /\ d.row = "open" /\ o.end = None /\ o.last = LastRevision(d)
    BY <1>1, <2>1 DEF InHand, RowsInHand, CandidatesInHand, SeenInHand, ActivePC
  <2>6. CASE o.last # Original /\ taken
    <3>1. e = AppendRevision(d, Original)
      BY <2>6
    <3> HIDE DEF e
    <3>2. /\ Shaped(p, e) /\ e.row = "open" /\ LastRevision(e) = Original
          /\ Len(e.revisions) = n + 1
          /\ \A r \in 1 .. n + 1 : e.proposals[r] # "proposed"
          /\ (\A r \in 1 .. n : d.revisions[r] # Foreign)
                => \A r \in 1 .. n + 1 : e.revisions[r] # Foreign
      <4>1. Shaped(o, d) /\ p \in Observer /\ p.at # "unused"
        BY <1>3, <2>4
      <4>2. Shaped(p, e) /\ Appended(d, e, Original)
        BY <2>3, <3>1, <4>1, AfterAppend
      <4> QED BY <2>3, <2>5, <4>2 DEF Appended
    <3>3. RowsInHand(p, e) /\ CandidatesInHand(p, e)
      BY <2>4, <2>5, <3>2 DEF RowsInHand, CandidatesInHand, ActivePC
    <3>4. SeenInHand(p, e)
      BY <2>4, <2>5, <2>6, <3>2 DEF SeenInHand
    <3>5. NothingForeign(p, e)
      BY <1>1, <2>4, <3>2 DEF InHand, NothingForeign, None, Foreign
    <3> QED
      BY <1>4, <2>1, <2>2, <2>4, <3>2, <3>3, <3>4, <3>5 DEF InHand, ActivePC
  <2>7. CASE ~(o.last # Original /\ taken)
    <3>1. e = d
      BY <2>7
    <3> HIDE DEF e
    <3>2. Shaped(p, d) /\ RowsInHand(p, d) /\ CandidatesInHand(p, d)
      BY <1>1, <2>1, <2>4 DEF InHand, Shaped, RowsInHand, CandidatesInHand, ActivePC
    <3>3. SeenInHand(p, d)
      BY <2>4, <2>5, <2>7 DEF SeenInHand
    <3>4. NothingForeign(p, d)
      BY <1>1, <2>4 DEF InHand, NothingForeign, None, Foreign
    <3> QED
      BY <1>4, <2>1, <2>2, <2>4, <3>1, <3>2, <3>3, <3>4 DEF InHand, ActivePC
  <2> QED BY <2>6, <2>7
<1>7. CASE SettleAndLearn(s, taken)
  <2> DEFINE p == [o EXCEPT !.at = "watching", !.shot = None, !.pending = None,
                            !.seen = o.shot, !.refused = FALSE,
                            !.learning = IF taken THEN 0 ELSE @]
             e == IF taken THEN Propose(d, o.learning) ELSE d
  <2>1. /\ o.at = "looked" /\ o.shot \in Text /\ o.shot = o.last /\ o.learning # 0
        /\ observer' = [observer EXCEPT ![s] = p] /\ UNCHANGED <<field, setup>>
        /\ store' = [store EXCEPT ![s] = e]
    BY <1>2, <1>7 DEF SettleAndLearn, Read, Looked, o, d
  <2>2. /\ p \in Observer /\ p.at = "watching" /\ p.shot = None
        /\ p.persisted = o.persisted /\ p.pending = None
        /\ p.learning = (IF taken THEN 0 ELSE o.learning)
        /\ p.last = o.last /\ p.end = o.end
        /\ p.seen = o.shot /\ p.blind = o.blind /\ p.refused = FALSE
    BY <1>3, <2>1 DEF Observer, ObserverPC, ActivePC
  <2> HIDE DEF p
  <2>3. /\ o.persisted /\ d.row = "open" /\ o.end = None /\ o.last = LastRevision(d)
        /\ o.learning = n /\ o.learning \in 1 .. n
    BY <1>1, <2>1 DEF InHand, RowsInHand, CandidatesInHand, SeenInHand, ActivePC
  <2>4. CASE taken
    <3>1. e = Propose(d, n)
      BY <2>3, <2>4
    <3> HIDE DEF e
    <3>2. /\ Shaped(p, e) /\ e.row = "open" /\ e.revisions = d.revisions
          /\ \A i \in 1 .. n : i # n => e.proposals[i] = d.proposals[i]
          /\ LastRevision(e) = LastRevision(d)
      <4>1. Shaped(o, d) /\ p \in Observer /\ p.at # "unused"
        BY <1>3, <2>2
      <4>2. Shaped(p, e) /\ Proposed(d, e, n)
        BY <2>3, <3>1, <4>1, AfterPropose
      <4> QED BY <2>3, <4>2 DEF Proposed
    <3>3. RowsInHand(p, e) /\ SeenInHand(p, e)
      BY <2>1, <2>2, <2>3, <3>2 DEF RowsInHand, SeenInHand, ActivePC
    <3>4. CandidatesInHand(p, e)
      BY <1>1, <1>3, <2>2, <2>3, <2>4, <3>2 DEF InHand, CandidatesInHand, ActivePC
    <3>5. NothingForeign(p, e)
      BY <1>1, <2>2, <3>2 DEF InHand, NothingForeign, None, Foreign
    <3> QED
      BY <1>4, <2>1, <2>2, <3>2, <3>3, <3>4, <3>5 DEF InHand, ActivePC
  <2>5. CASE ~taken
    <3>1. e = d
      BY <2>5
    <3> HIDE DEF e
    <3>2. Shaped(p, d) /\ RowsInHand(p, d) /\ SeenInHand(p, d)
      BY <1>1, <2>1, <2>2, <2>3 DEF InHand, Shaped, RowsInHand, SeenInHand, ActivePC
    <3>3. CandidatesInHand(p, d) /\ NothingForeign(p, d)
      BY <1>1, <2>1, <2>2, <2>3, <2>5 DEF InHand, CandidatesInHand, NothingForeign,
         ActivePC, None, Foreign
    <3> QED
      BY <1>4, <2>1, <2>2, <3>1, <3>2, <3>3 DEF InHand, ActivePC
  <2> QED BY <2>4, <2>5
<1>8. CASE RecordEdit(s, taken)
  <2> DEFINE p == [o EXCEPT !.at = "watching", !.shot = None, !.pending = None,
                            !.seen = o.shot,
                            !.last = IF taken THEN o.shot ELSE @,
                            !.learning = IF taken THEN n + 1 ELSE @,
                            !.refused = ~taken]
             e == IF taken THEN AppendRevision(d, o.shot) ELSE d
  <2>1. /\ o.at = "looked" /\ o.shot \in Text /\ UNCHANGED <<field, setup>>
        /\ observer' = [observer EXCEPT ![s] = p]
        /\ store' = [store EXCEPT ![s] = e]
    BY <1>2, <1>8 DEF RecordEdit, Read, Looked, o, d
  <2>2. /\ p \in Observer /\ p.at = "watching" /\ p.shot = None
        /\ p.persisted = o.persisted /\ p.pending = None
        /\ p.learning = (IF taken THEN n + 1 ELSE o.learning)
        /\ p.last = (IF taken THEN o.shot ELSE o.last) /\ p.end = o.end
        /\ p.seen = o.shot /\ p.blind = o.blind /\ p.refused = ~taken
    <3>1. (~taken) \in BOOLEAN /\ n + 1 \in Nat
      BY <1>3
    <3> QED BY <1>3, <2>1, <3>1, ZenonT(40) DEF Observer, ObserverPC, ActivePC
  <2> HIDE DEF p
  <2>3. o.persisted /\ d.row = "open" /\ o.end = None /\ o.last = LastRevision(d)
    BY <1>1, <2>1 DEF InHand, RowsInHand, CandidatesInHand, SeenInHand, ActivePC
  <2>4. CASE taken
    <3>1. e = AppendRevision(d, o.shot)
      BY <2>4
    <3> HIDE DEF e
    <3>2. /\ Shaped(p, e) /\ e.row = "open" /\ LastRevision(e) = o.shot
          /\ Len(e.revisions) = n + 1
          /\ \A r \in 1 .. n + 1 : e.proposals[r] # "proposed"
          /\ e.proposals[n + 1] = None
          /\ o.shot # Foreign /\ (\A r \in 1 .. n : d.revisions[r] # Foreign)
                => \A r \in 1 .. n + 1 : e.revisions[r] # Foreign
      <4>1. Shaped(o, d) /\ p \in Observer /\ p.at # "unused"
        BY <1>3, <2>2
      <4>2. Shaped(p, e) /\ Appended(d, e, o.shot)
        BY <2>1, <3>1, <4>1, AfterAppend
      <4> QED BY <2>3, <4>2 DEF Appended
    <3>3. RowsInHand(p, e) /\ SeenInHand(p, e)
      BY <2>2, <2>3, <2>4, <3>2 DEF RowsInHand, SeenInHand, ActivePC
    <3>4. CandidatesInHand(p, e)
      BY <1>3, <2>2, <2>3, <2>4, <3>2 DEF CandidatesInHand, ActivePC
    <3>5. NothingForeign(p, e)
      BY <1>1, <2>2, <3>2 DEF InHand, NothingForeign, None, Foreign
    <3> QED
      BY <1>4, <2>1, <2>2, <3>2, <3>3, <3>4, <3>5 DEF InHand, ActivePC
  <2>5. CASE ~taken
    <3>1. e = d
      BY <2>5
    <3> HIDE DEF e
    <3>2. Shaped(p, d) /\ RowsInHand(p, d) /\ SeenInHand(p, d)
      BY <1>1, <2>1, <2>2, <2>3, <2>5 DEF InHand, Shaped, RowsInHand, SeenInHand,
         ActivePC
    <3>3. CandidatesInHand(p, d) /\ NothingForeign(p, d)
      BY <1>1, <2>1, <2>2, <2>3, <2>5 DEF InHand, CandidatesInHand, NothingForeign,
         ActivePC, None, Foreign
    <3> QED
      BY <1>4, <2>1, <2>2, <3>1, <3>2, <3>3 DEF InHand, ActivePC
  <2> QED BY <2>4, <2>5
<1> QED
  BY <1>5, <1>6, <1>7, <1>8

\* Ending, and what is reported or attached after it.
LEMMA EndStep ==
    ASSUME IndInv, NEW s \in Session, NEW taken \in BOOLEAN,
           Flush(s, taken) \/ Publish(s, taken) \/ Learn(s, taken)
           \/ Close(s, taken) \/ Report(s) \/ AttachFinalized(s)
           \/ AttachRevision(s, taken) \/ AttachCandidates(s, taken)
    PROVE  IndInv'
<1> DEFINE o == observer[s]
           d == store[s]
           n == Len(d.revisions)
<1>1. InHand(o, d)
  BY DEF IndInv
<1>2. /\ store = [store EXCEPT ![s] = d]
      /\ \A e, yes : Write(s, e, yes) =>
            store' = [store EXCEPT ![s] = IF yes THEN e ELSE d]
  BY DEF IndInv, Write
<1>3. /\ o \in Observer /\ d \in Rows /\ Shaped(o, d)
      /\ n \in Nat /\ (d.revisions = <<>> <=> n = 0)
  BY <1>1 DEF InHand, Shaped, Rows
<1>4. \A p, e : /\ observer' = [observer EXCEPT ![s] = p]
                /\ store' = [store EXCEPT ![s] = e]
                /\ UNCHANGED <<field, setup>>
                /\ InHand(p, e)
                /\ o.at # "unused" /\ p.at # "unused"
                /\ p.at \in ActivePC => o.at \in ActivePC
                /\ p.blind = o.blind
                => IndInv'
  BY OneSession DEF Used, Active, ActivePC
<1> HIDE DEF o, d
<1>5. CASE Flush(s, taken)
  <2>0. /\ o.at = "flushing" /\ UNCHANGED <<field, setup>>
        /\ o.persisted /\ d.row = "open" /\ o.last = LastRevision(d)
        /\ AfterFlush(s) = IF o.end = "removed" THEN "learning" ELSE "closing"
    BY <1>1, <1>5 DEF Flush, InHand, RowsInHand, SeenInHand, ActivePC, AfterFlush, o
  <2>1. CASE o.pending = None
    <3> DEFINE p == [o EXCEPT !.at = "learning"]
    <3>1. /\ observer' = [observer EXCEPT ![s] = p]
          /\ store' = [store EXCEPT ![s] = d]
      BY <1>2, <1>5, <2>1 DEF Flush, o
    <3>2. /\ p \in Observer /\ p.at = "learning" /\ p.shot = o.shot
          /\ p.persisted = o.persisted /\ p.pending = o.pending
          /\ p.learning = o.learning /\ p.last = o.last /\ p.end = o.end
          /\ p.seen = o.seen /\ p.blind = o.blind /\ p.refused = o.refused
      BY <1>3 DEF Observer, ObserverPC, ActivePC
    <3> HIDE DEF p
    <3>3. Shaped(p, d) /\ RowsInHand(p, d) /\ NothingForeign(p, d)
      BY <1>1, <2>0, <3>2 DEF InHand, Shaped, RowsInHand, NothingForeign, ActivePC
    <3>4. CandidatesInHand(p, d)
      BY <1>1, <2>0, <3>2 DEF InHand, CandidatesInHand, ActivePC
    <3>5. SeenInHand(p, d)
      <4>1. Kept(o.last, d)
        BY <1>3, <2>0 DEF Kept, LastRevision, Rows
      <4>2. ~o.refused => o.seen = o.last
        BY <1>1, <2>0, <2>1 DEF InHand, SeenInHand
      <4> QED BY <2>0, <3>2, <4>1, <4>2 DEF SeenInHand
    <3> QED
      BY <1>4, <2>0, <3>1, <3>2, <3>3, <3>4, <3>5 DEF InHand, ActivePC
  <2>2. CASE o.pending # None /\ taken
    <3> DEFINE p == [o EXCEPT !.at = "publishing", !.pending = None, !.refused = FALSE]
               e == AppendRevision(d, o.pending)
    <3>1. /\ observer' = [observer EXCEPT ![s] = p]
          /\ store' = [store EXCEPT ![s] = e]
      <4>1. Write(s, e, taken)
        BY <1>5, <2>2 DEF Flush, o, d
      <4>2. observer' = [observer EXCEPT ![s] =
               [o EXCEPT !.at = IF taken THEN "publishing" ELSE AfterFlush(s),
                         !.pending = None, !.refused = ~taken]]
        BY <1>5, <2>2 DEF Flush, o
      <4> HIDE DEF e
      <4> QED BY <1>2, <2>2, <4>1, <4>2
    <3>2. /\ p \in Observer /\ p.at = "publishing" /\ p.shot = o.shot
          /\ p.persisted = o.persisted /\ p.pending = None
          /\ p.learning = o.learning /\ p.last = o.last /\ p.end = o.end
          /\ p.seen = o.seen /\ p.blind = o.blind /\ p.refused = FALSE
      BY <1>3 DEF Observer, ObserverPC, ActivePC
    <3>3. o.pending \in Text
      BY <1>3, <2>2 DEF Observer
    <3> HIDE DEF p
    <3>4. /\ Shaped(p, e) /\ e.row = "open" /\ LastRevision(e) = o.pending
          /\ Len(e.revisions) = n + 1 /\ e.revisions # <<>>
          /\ \A r \in 1 .. n + 1 : e.proposals[r] # "proposed"
          /\ \A r \in 1 .. n : d.proposals[r] = None => e.proposals[r] = None
          /\ e.proposals[n + 1] = None
          /\ \A u : u = o.pending \/ Kept(u, d) => Kept(u, e)
          /\ o.pending # Foreign /\ (\A r \in 1 .. n : d.revisions[r] # Foreign)
                => \A r \in 1 .. n + 1 : e.revisions[r] # Foreign
      <4>1. Shaped(o, d) /\ p \in Observer /\ p.at # "unused"
        BY <1>3, <3>2
      <4>2. Shaped(p, e) /\ Appended(d, e, o.pending)
        BY <3>3, <4>1, AfterAppend
      <4> HIDE DEF e
      <4> QED BY <2>0, <4>2 DEF Appended
    <3> HIDE DEF e
    <3>5. RowsInHand(p, e)
      BY <2>0, <3>2, <3>4 DEF RowsInHand, ActivePC
    <3>6. CandidatesInHand(p, e)
      <4>1. o.learning # 0 => o.learning = n /\ n \in 1 .. n /\ d.proposals[n] = None
        BY <1>1, <2>0 DEF InHand, CandidatesInHand, ActivePC
      <4> QED BY <1>3, <3>2, <3>4, <4>1 DEF CandidatesInHand, ActivePC
    <3>7. SeenInHand(p, e)
      <4>1. o.seen = o.pending \/ (o.end = "boundary" /\ Kept(o.seen, d))
        BY <1>1, <2>0, <2>2 DEF InHand, SeenInHand
      <4> QED BY <2>0, <3>2, <3>4, <4>1 DEF SeenInHand
    <3>8. NothingForeign(p, e)
      BY <1>1, <3>2, <3>4 DEF InHand, NothingForeign, None, Foreign
    <3> QED
      BY <1>4, <2>0, <3>1, <3>2, <3>4, <3>5, <3>6, <3>7, <3>8 DEF InHand, ActivePC
  <2>3. CASE o.pending # None /\ ~taken
    <3> DEFINE p == [o EXCEPT !.at = AfterFlush(s), !.pending = None, !.refused = TRUE]
    <3>1. /\ observer' = [observer EXCEPT ![s] = p]
          /\ store' = [store EXCEPT ![s] = d]
      <4>1. Write(s, AppendRevision(d, o.pending), taken)
        BY <1>5, <2>3 DEF Flush, o, d
      <4>2. observer' = [observer EXCEPT ![s] =
               [o EXCEPT !.at = IF taken THEN "publishing" ELSE AfterFlush(s),
                         !.pending = None, !.refused = ~taken]]
        BY <1>5, <2>3 DEF Flush, o
      <4> QED BY <1>2, <2>3, <4>1, <4>2
    <3>2. /\ p \in Observer /\ p.at = (IF o.end = "removed" THEN "learning" ELSE "closing")
          /\ p.shot = o.shot /\ p.persisted = o.persisted /\ p.pending = None
          /\ p.learning = o.learning /\ p.last = o.last /\ p.end = o.end
          /\ p.seen = o.seen /\ p.blind = o.blind /\ p.refused = TRUE
      BY <1>3, <2>0 DEF Observer, ObserverPC, ActivePC
    <3> HIDE DEF p
    <3>3. Shaped(p, d) /\ RowsInHand(p, d) /\ NothingForeign(p, d)
      BY <1>1, <2>0, <3>2 DEF InHand, Shaped, RowsInHand, NothingForeign, ActivePC,
         None, Foreign
    <3>4. CandidatesInHand(p, d)
      BY <1>1, <2>0, <3>2 DEF InHand, CandidatesInHand, ActivePC
    <3>5. SeenInHand(p, d)
      BY <2>0, <3>2 DEF SeenInHand
    <3> QED
      BY <1>4, <2>0, <3>1, <3>2, <3>3, <3>4, <3>5 DEF InHand, ActivePC
  <2> QED BY <2>1, <2>2, <2>3
<1>6. CASE Publish(s, taken)
  <2> DEFINE p == [o EXCEPT !.at = AfterFlush(s)]
             e == IF taken THEN Propose(d, n) ELSE d
  <2>1. /\ o.at = "publishing" /\ UNCHANGED <<field, setup>>
        /\ observer' = [observer EXCEPT ![s] = p]
        /\ AfterFlush(s) = IF o.end = "removed" THEN "learning" ELSE "closing"
    BY <1>6 DEF Publish, AfterFlush, o
  <2>2. store' = [store EXCEPT ![s] = e]
    BY <1>2, <1>6 DEF Publish, d
  <2>3. /\ o.persisted /\ d.row = "open" /\ n \in 1 .. n /\ d.proposals[n] = None
        /\ o.learning # 0 => o.learning \in 1 .. n /\ o.learning = n - 1
                             /\ d.proposals[o.learning] = None
    BY <1>1, <1>3, <2>1 DEF InHand, RowsInHand, CandidatesInHand, ActivePC
  <2>4. /\ p \in Observer /\ p.at = (IF o.end = "removed" THEN "learning" ELSE "closing")
        /\ p.shot = o.shot /\ p.persisted = o.persisted /\ p.pending = o.pending
        /\ p.learning = o.learning /\ p.last = o.last /\ p.end = o.end
        /\ p.seen = o.seen /\ p.blind = o.blind /\ p.refused = o.refused
    BY <1>3, <2>1 DEF Observer, ObserverPC, ActivePC
  <2> HIDE DEF p
  <2>5. /\ Shaped(p, e) /\ e.row = "open" /\ e.revisions = d.revisions
        /\ \A i \in 1 .. n : i # n => e.proposals[i] = d.proposals[i]
        /\ LastRevision(e) = LastRevision(d)
        /\ \A u : Kept(u, d) => Kept(u, e)
    <3>1. CASE taken
      <4>1. e = Propose(d, n)
        BY <3>1
      <4> HIDE DEF e
      <4>2. Shaped(o, d) /\ p \in Observer /\ p.at # "unused"
        BY <1>3, <2>4
      <4>3. Shaped(p, e) /\ Proposed(d, e, n)
        BY <2>3, <4>1, <4>2, AfterPropose
      <4> QED BY <2>3, <4>3 DEF Proposed
    <3>2. CASE ~taken
      <4>1. e = d
        BY <3>2
      <4> HIDE DEF e
      <4> QED BY <1>3, <2>3, <2>4, <4>1 DEF Shaped
    <3> QED BY <3>1, <3>2
  <2> HIDE DEF e
  <2>6. RowsInHand(p, e)
    BY <2>3, <2>4, <2>5 DEF RowsInHand, ActivePC
  <2>7. CandidatesInHand(p, e)
    <3>1. \A r \in 1 .. n : e.proposals[r] = "proposed" =>
             r = n \/ (r = n - 1 /\ o.end = "removed")
      BY <1>1, <2>5 DEF InHand, CandidatesInHand
    <3>2. o.learning # 0 => e.proposals[o.learning] = None
      BY <1>3, <2>3, <2>5
    <3> QED BY <2>3, <2>4, <2>5, <3>1, <3>2 DEF CandidatesInHand, ActivePC
  <2>8. SeenInHand(p, e)
    BY <1>1, <2>1, <2>3, <2>4, <2>5 DEF InHand, SeenInHand
  <2>9. NothingForeign(p, e)
    BY <1>1, <2>4, <2>5 DEF InHand, NothingForeign
  <2> QED
    BY <1>4, <2>1, <2>2, <2>4, <2>5, <2>6, <2>7, <2>8, <2>9 DEF InHand, ActivePC
<1>7. CASE Learn(s, taken)
  <2> DEFINE p == [o EXCEPT !.at = "closing", !.learning = 0]
             e == IF o.learning # 0 /\ taken THEN Propose(d, o.learning) ELSE d
  <2>1. /\ o.at = "learning" /\ UNCHANGED <<field, setup>>
        /\ observer' = [observer EXCEPT ![s] = p]
    BY <1>7 DEF Learn, o
  <2>2. store' = [store EXCEPT ![s] = e]
    BY <1>2, <1>7 DEF Learn, o, d
  <2>3. /\ o.persisted /\ d.row = "open"
        /\ o.learning # 0 => /\ o.learning \in 1 .. n
                             /\ \/ o.learning = n
                                \/ o.learning = n - 1 /\ o.end = "removed"
    BY <1>1, <1>3, <2>1 DEF InHand, RowsInHand, CandidatesInHand, ActivePC
  <2>4. /\ p \in Observer /\ p.at = "closing" /\ p.learning = 0
        /\ p.shot = o.shot /\ p.persisted = o.persisted /\ p.pending = o.pending
        /\ p.last = o.last /\ p.end = o.end
        /\ p.seen = o.seen /\ p.blind = o.blind /\ p.refused = o.refused
    BY <1>3, <2>1 DEF Observer, ObserverPC, ActivePC
  <2> HIDE DEF p
  <2>5. /\ Shaped(p, e) /\ e.row = "open" /\ e.revisions = d.revisions
        /\ \A i \in 1 .. n : i # o.learning => e.proposals[i] = d.proposals[i]
        /\ LastRevision(e) = LastRevision(d)
        /\ \A u : Kept(u, d) => Kept(u, e)
    <3>1. CASE o.learning # 0 /\ taken
      <4>1. e = Propose(d, o.learning)
        BY <3>1
      <4> HIDE DEF e
      <4>2. Shaped(o, d) /\ p \in Observer /\ p.at # "unused"
        BY <1>3, <2>4
      <4>3. Shaped(p, e) /\ Proposed(d, e, o.learning)
        BY <2>3, <3>1, <4>1, <4>2, AfterPropose
      <4> QED BY <2>3, <4>3 DEF Proposed
    <3>2. CASE ~(o.learning # 0 /\ taken)
      <4>1. e = d
        BY <3>2
      <4> HIDE DEF e
      <4> QED BY <1>3, <2>3, <2>4, <4>1 DEF Shaped
    <3> QED BY <3>1, <3>2
  <2> HIDE DEF e
  <2>6. RowsInHand(p, e)
    BY <2>3, <2>4, <2>5 DEF RowsInHand, ActivePC
  <2>7. CandidatesInHand(p, e)
    <3>1. \A r \in 1 .. n : e.proposals[r] = "proposed" =>
             r = n \/ (r = n - 1 /\ o.end = "removed")
      BY <1>1, <1>3, <2>3, <2>5 DEF InHand, CandidatesInHand
    <3> QED BY <2>4, <2>5, <3>1 DEF CandidatesInHand
  <2>8. SeenInHand(p, e)
    BY <1>1, <2>1, <2>3, <2>4, <2>5 DEF InHand, SeenInHand
  <2>9. NothingForeign(p, e)
    BY <1>1, <2>4, <2>5 DEF InHand, NothingForeign
  <2> QED
    BY <1>4, <2>1, <2>2, <2>4, <2>5, <2>6, <2>7, <2>8, <2>9 DEF InHand, ActivePC
<1>8. CASE Close(s, taken) /\ o.persisted
  <2> DEFINE q == [o EXCEPT !.refused = @ \/ ~taken]
             p == Ended(q)
             e == IF taken THEN [d EXCEPT !.row = "finalized"] ELSE d
  <2>1. /\ o.at = "closing" /\ UNCHANGED <<field, setup>>
        /\ observer' = [observer EXCEPT ![s] = p]
    BY <1>8 DEF Close, o
  <2>2. store' = [store EXCEPT ![s] = e]
    BY <1>2, <1>8 DEF Close, o, d
  <2>3. /\ q \in Observer /\ q.persisted = o.persisted /\ q.end = o.end
        /\ q.blind = o.blind /\ q.refused = (o.refused \/ ~taken)
    BY <1>3 DEF Observer
  <2> HIDE DEF q
  <2>4. /\ p \in Observer /\ p.at = "done" /\ p.persisted
        /\ p.shot = None /\ p.pending = None
        /\ p.end = "removed" <=> o.end = "removed"
        /\ p.blind = o.blind /\ p.refused = (o.refused \/ ~taken)
    <3>1. /\ p \in Observer
          /\ p.at = "done" /\ p.persisted = q.persisted
          /\ p.shot = None /\ p.pending = None
          /\ (q.end = "removed" <=> p.end = "removed")
          /\ p.blind = q.blind /\ p.refused = q.refused
      BY <2>3, EndedObserver
    <3> HIDE DEF p
    <3> QED BY <1>8, <2>3, <3>1
  <2>5. /\ e \in Rows /\ e.revisions = d.revisions /\ e.proposals = d.proposals
        /\ e.notices = d.notices
        /\ taken => e.row = "finalized"
    BY <1>3 DEF Rows
  <2> HIDE DEF p, e
  <2>6. Shaped(p, e)
    BY <1>1, <2>4, <2>5 DEF InHand, Shaped
  <2>7. RowsInHand(p, e)
    <3>1. ~taken => p.refused
      BY <2>4
    <3>2. e.row = "open" => p.refused
      BY <2>5, <3>1
    <3> QED BY <2>4, <3>2 DEF RowsInHand, ActivePC
  <2>8. CandidatesInHand(p, e) /\ SeenInHand(p, e) /\ NothingForeign(p, e)
    BY <1>1, <2>4, <2>5 DEF InHand, CandidatesInHand, SeenInHand, NothingForeign,
       ActivePC, None, Foreign
  <2> QED
    BY <1>4, <2>1, <2>2, <2>4, <2>6, <2>7, <2>8 DEF InHand, ActivePC
<1>9. CASE Close(s, taken) /\ ~o.persisted
  <2> DEFINE p == [o EXCEPT !.at = "attaching"]
  <2>1. /\ o.at = "closing" /\ UNCHANGED <<field, setup>>
        /\ observer' = [observer EXCEPT ![s] = p]
        /\ store' = [store EXCEPT ![s] = d]
    BY <1>2, <1>9 DEF Close, o
  <2>2. /\ p \in Observer /\ p.at = "attaching"
        /\ p.shot = o.shot /\ p.persisted = o.persisted /\ p.pending = o.pending
        /\ p.learning = o.learning /\ p.last = o.last /\ p.end = o.end
        /\ p.seen = o.seen /\ p.blind = o.blind /\ p.refused = o.refused
    BY <1>3 DEF Observer, ObserverPC, ActivePC
  <2> HIDE DEF p
  <2>3. InHand(p, d)
    BY <1>1, <1>9, <2>1, <2>2 DEF InHand, Shaped, RowsInHand, CandidatesInHand,
       SeenInHand, NothingForeign, ActivePC
  <2> QED
    BY <1>4, <2>1, <2>2, <2>3 DEF ActivePC
<1>10. CASE Report(s)
  <2> DEFINE p == Ended(o)
             e == [d EXCEPT !.row = "failed"]
  <2>1. /\ o.at = "reporting" /\ UNCHANGED <<field, setup>>
        /\ observer' = [observer EXCEPT ![s] = p]
        /\ store' = [store EXCEPT ![s] = e]
    BY <1>10 DEF Report, o, d
  <2>2. ~o.persisted /\ d.revisions = <<>>
    BY <1>1, <2>1 DEF InHand, RowsInHand
  <2>3. /\ p \in Observer /\ p.at = "done" /\ ~p.persisted
        /\ p.shot = None /\ p.pending = None /\ p.blind = o.blind
    BY <1>3, <2>2, EndedObserver
  <2>4. /\ e \in Rows /\ e.revisions = <<>> /\ e.proposals = d.proposals
        /\ e.notices = d.notices /\ e.row = "failed"
    BY <1>3, <2>2 DEF Rows
  <2> HIDE DEF p, e
  <2>5. Shaped(p, e)
    BY <1>1, <2>2, <2>3, <2>4 DEF InHand, Shaped
  <2>6. RowsInHand(p, e) /\ CandidatesInHand(p, e) /\ SeenInHand(p, e)
        /\ NothingForeign(p, e)
    BY <2>3, <2>4 DEF RowsInHand, CandidatesInHand, SeenInHand, NothingForeign,
       ActivePC, None, Foreign
  <2> QED
    BY <1>4, <2>1, <2>3, <2>5, <2>6 DEF InHand, ActivePC
<1>11. CASE AttachFinalized(s)
  <2> DEFINE q == [o EXCEPT !.persisted = TRUE]
             w == [q EXCEPT !.at = "amending"]
             p == IF o.pending = None THEN Ended(q) ELSE w
             e == [d EXCEPT !.row = "finalized"]
  <2>1. /\ o.at = "attaching" /\ UNCHANGED <<field, setup>>
        /\ observer' = [observer EXCEPT ![s] = p]
        /\ store' = [store EXCEPT ![s] = e]
    <3>1. q.at = o.at /\ q.pending = o.pending
      BY <1>3 DEF Observer
    <3>2. /\ q.at = "attaching" /\ UNCHANGED <<field, setup>>
          /\ observer' = [observer EXCEPT ![s] = IF q.pending = None THEN Ended(q) ELSE w]
          /\ store' = [store EXCEPT ![s] = e]
      BY <1>11 DEF AttachFinalized, o, d
    <3> HIDE DEF q, w, e
    <3> QED BY <3>1, <3>2
  <2>2. /\ q \in Observer /\ q.persisted = TRUE /\ q.blind = o.blind
        /\ w \in Observer /\ w.at = "amending" /\ w.persisted = TRUE
        /\ w.shot = o.shot /\ w.pending = o.pending /\ w.seen = o.seen
        /\ w.end = o.end /\ w.blind = o.blind
    BY <1>3 DEF Observer, ObserverPC
  <2>3. /\ e \in Rows /\ e.revisions = d.revisions /\ e.proposals = d.proposals
        /\ e.notices = d.notices /\ e.row = "finalized"
    BY <1>3 DEF Rows
  <2>4. d.revisions = <<>> /\ n = 0
    BY <1>1, <1>3, <2>1 DEF InHand, RowsInHand
  <2> HIDE DEF q, w, e
  <2>5. CASE o.pending = None
    <3>1. /\ p \in Observer /\ p.at = "done" /\ p.persisted /\ p.shot = None
          /\ p.pending = None /\ p.blind = o.blind
      BY <2>2, <2>5, EndedObserver
    <3> HIDE DEF p
    <3>2. Shaped(p, e) /\ RowsInHand(p, e)
      BY <1>3, <2>3, <3>1 DEF Shaped, RowsInHand, ActivePC
    <3>3. CandidatesInHand(p, e) /\ SeenInHand(p, e) /\ NothingForeign(p, e)
      BY <2>3, <2>4, <3>1 DEF CandidatesInHand, SeenInHand, NothingForeign, ActivePC,
         None, Foreign
    <3> QED
      BY <1>4, <2>1, <3>1, <3>2, <3>3 DEF InHand, ActivePC
  <2>6. CASE o.pending # None
    <3>1. p = w
      BY <2>6
    <3> HIDE DEF p
    <3>2. Shaped(p, e) /\ RowsInHand(p, e)
      BY <1>3, <2>2, <2>3, <3>1 DEF Shaped, RowsInHand, ActivePC
    <3>3. CandidatesInHand(p, e) /\ NothingForeign(p, e)
      BY <1>1, <2>2, <2>3, <2>4, <3>1 DEF InHand, CandidatesInHand, NothingForeign, ActivePC
    <3>4. SeenInHand(p, e)
      <4>1. o.seen = o.pending
        BY <1>1, <2>1, <2>6 DEF InHand, SeenInHand, RowsInHand
      <4> QED BY <2>2, <2>6, <3>1, <4>1 DEF SeenInHand
    <3> QED
      BY <1>4, <2>1, <2>2, <3>1, <3>2, <3>3, <3>4 DEF InHand, ActivePC
  <2> QED BY <2>5, <2>6
<1>12. CASE AttachRevision(s, taken)
  <2>1. /\ o.at = "amending" /\ UNCHANGED <<field, setup>>
        /\ Write(s, AppendRevision(d, o.pending), taken)
        /\ observer' = [observer EXCEPT
              ![s] = IF taken THEN [o EXCEPT !.at = "offering", !.pending = None]
                     ELSE Ended([o EXCEPT !.refused = TRUE])]
    BY <1>12 DEF AttachRevision, o, d
  <2>2. o.persisted /\ o.pending \in Text /\ o.seen = o.pending
    BY <1>1, <1>3, <2>1 DEF InHand, RowsInHand, SeenInHand, Observer
  <2>3. CASE taken
    <3> DEFINE p == [o EXCEPT !.at = "offering", !.pending = None]
               e == AppendRevision(d, o.pending)
    <3>1. /\ observer' = [observer EXCEPT ![s] = p]
          /\ store' = [store EXCEPT ![s] = e]
      <4> HIDE DEF e
      <4> QED BY <1>2, <2>1, <2>3 DEF e
    <3>2. /\ p \in Observer /\ p.at = "offering" /\ p.persisted = o.persisted
          /\ p.shot = o.shot /\ p.pending = None /\ p.seen = o.seen
          /\ p.end = o.end /\ p.blind = o.blind /\ p.refused = o.refused
      BY <1>3 DEF Observer, ObserverPC
    <3> HIDE DEF p
    <3>3. Shaped(o, d) /\ p \in Observer /\ p.at # "unused"
      BY <1>3, <3>2
    <3>4. Shaped(p, e) /\ Appended(d, e, o.pending)
      BY <2>2, <3>3, AfterAppend
    <3> HIDE DEF e
    <3>5. RowsInHand(p, e)
      BY <1>1, <2>1, <2>2, <3>2, <3>4 DEF InHand, RowsInHand, Appended, ActivePC
    <3>6. CandidatesInHand(p, e)
      BY <1>3, <3>2, <3>4 DEF CandidatesInHand, Appended, ActivePC
    <3>7. SeenInHand(p, e)
      BY <2>2, <3>2, <3>4 DEF SeenInHand, Appended
    <3>8. NothingForeign(p, e)
      BY <1>1, <3>2, <3>4 DEF InHand, NothingForeign, Appended, None, Foreign
    <3> QED
      BY <1>4, <2>1, <3>1, <3>2, <3>4, <3>5, <3>6, <3>7, <3>8 DEF InHand, ActivePC
  <2>4. CASE ~taken
    <3> DEFINE q == [o EXCEPT !.refused = TRUE]
               p == Ended(q)
    <3>1. /\ observer' = [observer EXCEPT ![s] = p]
          /\ store' = [store EXCEPT ![s] = d]
      BY <1>2, <2>1, <2>4
    <3>2. /\ q \in Observer /\ q.persisted = o.persisted /\ q.end = o.end
          /\ q.blind = o.blind /\ q.refused = TRUE
      BY <1>3 DEF Observer
    <3> HIDE DEF q
    <3>3. /\ p \in Observer /\ p.at = "done" /\ p.persisted /\ p.shot = None
          /\ p.pending = None /\ p.blind = o.blind /\ p.refused = TRUE
          /\ (o.end = "removed" <=> p.end = "removed")
      <4>1. q \in Observer
        BY <3>2
      <4>2. /\ p \in Observer /\ p.at = "done" /\ p.persisted = q.persisted
            /\ p.shot = None /\ p.pending = None /\ p.blind = q.blind
            /\ p.refused = q.refused /\ (q.end = "removed" <=> p.end = "removed")
        BY <4>1, EndedObserver
      <4> HIDE DEF p
      <4> QED BY <2>2, <3>2, <4>2
    <3> HIDE DEF p
    <3>4. Shaped(p, d) /\ RowsInHand(p, d) /\ SeenInHand(p, d)
      BY <1>3, <3>3 DEF Shaped, RowsInHand, SeenInHand, ActivePC
    <3>5. CandidatesInHand(p, d) /\ NothingForeign(p, d)
      BY <1>1, <3>3 DEF InHand, CandidatesInHand, NothingForeign, ActivePC, None, Foreign
    <3> QED
      BY <1>4, <2>1, <3>1, <3>3, <3>4, <3>5 DEF InHand, ActivePC
  <2> QED BY <2>3, <2>4
<1>13. CASE AttachCandidates(s, taken)
  <2> DEFINE p == Ended(o)
             e == IF taken THEN Propose(d, n) ELSE d
  <2>1. /\ o.at = "offering" /\ UNCHANGED <<field, setup>>
        /\ observer' = [observer EXCEPT ![s] = p]
    BY <1>13 DEF AttachCandidates, o
  <2>2. store' = [store EXCEPT ![s] = e]
    BY <1>2, <1>13 DEF AttachCandidates, d
  <2>3. o.persisted /\ n \in 1 .. n /\ d.proposals[n] = None
    BY <1>1, <1>3, <2>1 DEF InHand, RowsInHand, CandidatesInHand
  <2>4. /\ p \in Observer /\ p.at = "done" /\ p.persisted = o.persisted
        /\ p.shot = None /\ p.pending = None
        /\ (o.end = "removed" <=> p.end = "removed")
        /\ p.blind = o.blind /\ p.refused = o.refused
    BY <1>3, EndedObserver
  <2> HIDE DEF p
  <2>5. /\ Shaped(p, e) /\ e.row = d.row /\ e.revisions = d.revisions
        /\ \A i \in 1 .. n : i # n => e.proposals[i] = d.proposals[i]
    <3>1. CASE taken
      <4>1. e = Propose(d, n)
        BY <3>1
      <4> HIDE DEF e
      <4>2. Shaped(o, d) /\ p \in Observer /\ p.at # "unused"
        BY <1>3, <2>4
      <4>3. Shaped(p, e) /\ Proposed(d, e, n)
        BY <2>3, <4>1, <4>2, AfterPropose
      <4> QED BY <4>3 DEF Proposed
    <3>2. CASE ~taken
      <4>1. e = d
        BY <3>2
      <4> HIDE DEF e
      <4> QED BY <1>3, <2>4, <4>1 DEF Shaped
    <3> QED BY <3>1, <3>2
  <2> HIDE DEF e
  <2>6. RowsInHand(p, e) /\ SeenInHand(p, e)
    BY <1>1, <2>1, <2>3, <2>4, <2>5 DEF InHand, RowsInHand, SeenInHand, ActivePC
  <2>7. CandidatesInHand(p, e)
    BY <1>1, <2>4, <2>5 DEF InHand, CandidatesInHand, ActivePC
  <2>8. NothingForeign(p, e)
    BY <1>1, <2>4, <2>5 DEF InHand, NothingForeign, None, Foreign
  <2> QED
    BY <1>4, <2>1, <2>2, <2>4, <2>5, <2>6, <2>7, <2>8 DEF InHand, ActivePC
<1> QED
  BY <1>5, <1>6, <1>7, <1>8, <1>9, <1>10, <1>11, <1>12, <1>13

\* Sessions are numbered in the order they are used.
LEMMA UsedCount ==
    ASSUME NEW k \in 0 .. MaxSessions, \A s \in Session : Used(s) <=> s <= k
    PROVE  Cardinality({t \in Session : observer[t].at # "unused"}) = k
<1>1. {t \in Session : observer[t].at # "unused"} = 1 .. k
  BY BoundAssumption DEF Used, Session
<1>2. k \in Nat
  BY BoundAssumption
<1>3. Cardinality(1 .. k) = IF 1 > k THEN 0 ELSE k - 1 + 1
  BY <1>2, FS_Interval
<1>4. Cardinality(1 .. k) = k
  BY <1>2, <1>3
<1> QED BY <1>1, <1>4

\* Being evicted, decided about or acknowledged, and having one's attempt stored.
LEMMA OutsideStep ==
    ASSUME IndInv, NEW s \in Session,
           \/ Evict(s) \/ SaveAttempt(s) \/ Acknowledge(s)
           \/ \E r \in DOMAIN store[s].proposals : Decide(s, r)
    PROVE  IndInv'
<1> DEFINE o == observer[s]
           d == store[s]
           n == Len(d.revisions)
<1>1. InHand(o, d)
  BY DEF IndInv
<1>2. /\ store = [store EXCEPT ![s] = d]
      /\ \A e, yes : Write(s, e, yes) =>
            store' = [store EXCEPT ![s] = IF yes THEN e ELSE d]
  BY DEF IndInv, Write
<1>3. /\ o \in Observer /\ d \in Rows /\ Shaped(o, d)
      /\ n \in Nat /\ (d.revisions = <<>> <=> n = 0)
  BY <1>1 DEF InHand, Shaped, Rows
<1>4. \A p, e : /\ observer' = [observer EXCEPT ![s] = p]
                /\ store' = [store EXCEPT ![s] = e]
                /\ UNCHANGED <<field, setup>>
                /\ InHand(p, e)
                /\ o.at # "unused" /\ p.at # "unused"
                /\ p.at \in ActivePC => o.at \in ActivePC
                /\ p.blind = o.blind
                => IndInv'
  BY OneSession DEF Used, Active, ActivePC
<1>5. observer = [observer EXCEPT ![s] = o]
  BY DEF IndInv
<1> HIDE DEF o, d
<1>6. CASE Evict(s)
  <2> DEFINE p == [o EXCEPT !.signal = "limit"]
  <2>1. /\ o.at \in ActivePC /\ UNCHANGED <<field, setup>>
        /\ observer' = [observer EXCEPT ![s] = p]
        /\ store' = [store EXCEPT ![s] = d]
    BY <1>2, <1>6 DEF Evict, Running, Active, ActivePC, o
  <2>2. /\ p \in Observer /\ p.at = o.at
        /\ p.shot = o.shot /\ p.persisted = o.persisted /\ p.pending = o.pending
        /\ p.learning = o.learning /\ p.last = o.last /\ p.end = o.end
        /\ p.seen = o.seen /\ p.blind = o.blind /\ p.refused = o.refused
    BY <1>3 DEF Observer
  <2> HIDE DEF p
  <2>3. Shaped(p, d) /\ RowsInHand(p, d) /\ NothingForeign(p, d)
    BY <1>1, <2>1, <2>2 DEF InHand, Shaped, RowsInHand, NothingForeign, ActivePC
  <2>4. CandidatesInHand(p, d)
    BY <1>1, <2>2 DEF InHand, CandidatesInHand
  <2>5. SeenInHand(p, d)
    BY <1>1, <2>2 DEF InHand, SeenInHand
  <2> QED
    BY <1>4, <2>1, <2>2, <2>3, <2>4, <2>5 DEF InHand, ActivePC
<1>7. CASE SaveAttempt(s)
  <2>1. UNCHANGED <<field, setup, observer, store>>
    BY <1>7 DEF SaveAttempt
  <2>2. IndInv /\ UNCHANGED <<field, setup, observer, store>> => IndInv'
    BY DEF IndInv, Surface, InOrder, WatchersKnow, Used, Active
  <2> QED BY <2>1, <2>2
<1>8. CASE Acknowledge(s)
  <2>1. PICK m \in d.notices : store' = [store EXCEPT ![s].notices = @ \ {m}]
    BY <1>8 DEF Acknowledge, d
  <2> DEFINE e == [d EXCEPT !.notices = @ \ {m}]
  <2>2. /\ UNCHANGED <<field, setup>> /\ observer' = [observer EXCEPT ![s] = o]
        /\ store' = [store EXCEPT ![s] = e]
    BY <1>5, <1>8, <2>1 DEF Acknowledge, d
  <2>3. /\ e \in Rows /\ e.row = d.row /\ e.revisions = d.revisions
        /\ e.proposals = d.proposals /\ e.notices = d.notices \ {m}
    BY <1>3 DEF Rows
  <2> HIDE DEF e
  <2>4. o.at # "unused"
    BY <1>3, <2>1 DEF Shaped, NoRows
  <2>5. Shaped(o, e) /\ RowsInHand(o, e) /\ CandidatesInHand(o, e)
    BY <1>1, <2>3, <2>4 DEF InHand, Shaped, RowsInHand, CandidatesInHand
  <2>6. SeenInHand(o, e) /\ NothingForeign(o, e)
    BY <1>1, <2>3 DEF InHand, SeenInHand, NothingForeign, LastRevision, Kept
  <2> QED
    BY <1>4, <2>2, <2>4, <2>5, <2>6 DEF InHand
<1>9. CASE \E r \in DOMAIN store[s].proposals : Decide(s, r)
  <2>1. PICK r \in DOMAIN d.proposals : Decide(s, r)
    BY <1>9 DEF d
  <2> DEFINE q == [d.proposals EXCEPT ![r] = "decided"]
             e == [d EXCEPT !.proposals = q]
  <2>2. /\ UNCHANGED <<field, setup>> /\ observer' = [observer EXCEPT ![s] = o]
        /\ store' = [store EXCEPT ![s] = e]
        /\ d.proposals[r] = "proposed"
    BY <1>5, <2>1 DEF Decide, d
  <2>3. /\ d.proposals \in Seq(Status) /\ Len(d.proposals) = n /\ r \in 1 .. n
        /\ d.notices \subseteq 1 .. n
        /\ \A i \in d.notices : d.proposals[i] \in {"proposed", "decided"}
    BY <1>3 DEF Shaped, Rows
  <2>4. /\ q \in Seq(Status) /\ Len(q) = n /\ q[r] = "decided"
        /\ \A i \in 1 .. n : i # r => q[i] = d.proposals[i]
    BY <2>3 DEF Status
  <2> HIDE DEF q
  <2>5. /\ e \in Rows /\ e.row = d.row /\ e.revisions = d.revisions
        /\ e.proposals = q /\ e.notices = d.notices
    BY <1>3, <2>4 DEF Rows
  <2> HIDE DEF e
  <2>6. o.at # "unused"
    BY <1>3, <2>3 DEF Shaped, NoRows
  <2>7. Shaped(o, e)
    BY <1>3, <2>3, <2>4, <2>5, <2>6 DEF Shaped
  <2>8. RowsInHand(o, e) /\ SeenInHand(o, e) /\ NothingForeign(o, e)
    BY <1>1, <2>5 DEF InHand, RowsInHand, SeenInHand, NothingForeign, LastRevision, Kept
  <2>9. CandidatesInHand(o, e)
    <3>1. \A i \in 1 .. n : q[i] = "proposed" => d.proposals[i] = "proposed"
      BY <2>4
    <3>2. \A i \in 1 .. n : d.proposals[i] = None => q[i] = None
      BY <2>2, <2>4 DEF None
    <3>3. d.revisions # <<>> => n \in 1 .. n
      BY <1>3
    <3> QED BY <1>1, <2>5, <3>1, <3>2, <3>3 DEF InHand, CandidatesInHand
  <2> QED
    BY <1>4, <2>2, <2>6, <2>7, <2>8, <2>9 DEF InHand
<1> QED
  BY <1>6, <1>7, <1>8, <1>9

\* An insertion that is begun, abandoned, done or observed.
LEMMA InsertStep ==
    ASSUME IndInv, Begin \/ InserterStep
    PROVE  IndInv'
<1>1. PICK k \in 0 .. MaxSessions :
        /\ \A s \in Session : Used(s) <=> s <= k
        /\ setup.step # "free" => setup.session = k + 1 /\ k + 1 \in Session
  BY DEF IndInv, InOrder
<1>2. CASE Begin
  <2>1. /\ setup = Free /\ k + 1 \in Session
        /\ setup' = [step |-> "stopping", session |-> k + 1, waits |-> Watchers]
        /\ observer' = [t \in Session |->
              IF Running(t) THEN [observer[t] EXCEPT !.signal = "insertion"]
              ELSE observer[t]]
        /\ UNCHANGED <<field, store>>
    <3>1. Cardinality({t \in Session : observer[t].at # "unused"}) = k
      BY <1>1, UsedCount
    <3>2. 1 + k = k + 1
      BY BoundAssumption
    <3> QED BY <1>2, <3>1, <3>2 DEF Begin
  <2>2. ASSUME NEW t \in Session
        PROVE  /\ InHand(observer'[t], store'[t])
               /\ observer'[t].at = observer[t].at
               /\ observer'[t].blind = observer[t].blind
    <3>1. InHand(observer[t], store[t])
      BY DEF IndInv
    <3>2. CASE ~Running(t)
      BY <2>1, <3>1, <3>2
    <3>3. CASE Running(t)
      <4> DEFINE o == observer[t]
                 d == store[t]
                 p == [o EXCEPT !.signal = "insertion"]
      <4>1. observer'[t] = p /\ store'[t] = d
        BY <2>1, <3>3
      <4>2. o \in Observer /\ o.at # "unused"
        BY <3>1, <3>3 DEF InHand, Shaped, Running, Active
      <4> HIDE DEF o, d
      <4>3. /\ p \in Observer /\ p.at = o.at
            /\ p.shot = o.shot /\ p.persisted = o.persisted /\ p.pending = o.pending
            /\ p.learning = o.learning /\ p.last = o.last /\ p.end = o.end
            /\ p.seen = o.seen /\ p.blind = o.blind /\ p.refused = o.refused
        BY <4>2 DEF Observer
      <4>4. InHand(o, d)
        BY <3>1 DEF o, d
      <4> HIDE DEF p
      <4>5. Shaped(p, d) /\ RowsInHand(p, d) /\ NothingForeign(p, d)
        BY <4>2, <4>3, <4>4 DEF InHand, Shaped, RowsInHand, NothingForeign
      <4>6. CandidatesInHand(p, d)
        BY <4>3, <4>4 DEF InHand, CandidatesInHand
      <4>7. SeenInHand(p, d)
        BY <4>3, <4>4 DEF InHand, SeenInHand
      <4> QED BY <4>1, <4>3, <4>5, <4>6, <4>7 DEF InHand, o
    <3> QED BY <3>2, <3>3
  <2>3. Surface'
    BY <2>1 DEF IndInv, Surface, Session, Watchers
  <2>4. InOrder'
    BY <1>1, <2>1, <2>2 DEF InOrder, Used
  <2>5. WatchersKnow'
    BY <2>1, <2>2 DEF IndInv, WatchersKnow, Active, Watchers
  <2>6. observer' = [t \in Session |-> observer'[t]] /\ store' = [t \in Session |-> store'[t]]
    BY <2>1 DEF IndInv
  <2> QED
    BY <2>2, <2>3, <2>4, <2>5, <2>6 DEF IndInv
<1>3. CASE Abandon
  <2>1. setup' = Free /\ UNCHANGED <<field, observer, store>>
    BY <1>3 DEF Abandon
  <2>2. Surface'
    BY <2>1, BoundAssumption DEF IndInv, Surface, Free
  <2>3. InOrder'
    BY <1>1, <2>1 DEF InOrder, Used, Free
  <2>4. WatchersKnow'
    BY <2>1 DEF IndInv, WatchersKnow, Active, Free
  <2> QED BY <2>1, <2>2, <2>3, <2>4 DEF IndInv
<1>4. CASE Insert
  <2>1. /\ setup.step = "stopping" /\ \A t \in setup.waits : ~Active(t)
        /\ field' = [owner |-> setup.session, text |-> Original]
        /\ setup' = [setup EXCEPT !.step = "inserted"]
        /\ UNCHANGED <<observer, store>>
    BY <1>4 DEF Insert
  <2>2. Surface' /\ setup'.step = "inserted" /\ setup'.session = setup.session
    BY <1>1, <2>1, BoundAssumption DEF IndInv, Surface, Session
  <2>3. InOrder'
    BY <1>1, <2>1, <2>2 DEF InOrder, Used
  <2>4. WatchersKnow'
    <3>1. \A t \in Session : ~Active(t)
      BY <2>1 DEF IndInv, WatchersKnow
    <3> QED BY <2>1, <2>2, <3>1 DEF WatchersKnow, Active
  <2> QED BY <2>1, <2>2, <2>3, <2>4 DEF IndInv
<1>5. CASE Observe \/ ObserveFails
  <2> DEFINE s == k + 1
             pc == IF Observe THEN "watching" ELSE "reporting"
             p == [Unused EXCEPT !.at = pc]
  <2>1. /\ setup.step = "inserted" /\ setup.session = s /\ s \in Session
        /\ setup' = Free /\ UNCHANGED <<field, store>>
    BY <1>1, <1>5 DEF Observe, ObserveFails
  <2>2. observer[s] = Unused /\ store[s] = NoRows /\ ~Used(s)
    <3>1. ~(s <= k)
      BY BoundAssumption
    <3>2. ~Used(s)
      BY <1>1, <2>1, <3>1
    <3>3. Shaped(observer[s], store[s])
      BY <2>1 DEF IndInv, InHand
    <3> QED BY <3>2, <3>3 DEF Used, Shaped
  <2>3. observer' = [observer EXCEPT ![s] = p]
    <3>1. CASE Observe
      BY <2>1, <2>2, <3>1 DEF Observe
    <3>2. CASE ~Observe
      BY <1>5, <2>1, <2>2, <3>2 DEF ObserveFails
    <3> QED BY <3>1, <3>2
  <2>4. observer' = [t \in Session |-> IF t = s THEN p ELSE observer[t]]
    BY <2>3 DEF IndInv
  <2>5. Observe => field.owner = s
    BY <1>1, <2>1 DEF Observe
  <2>6. pc \in {"watching", "reporting"} /\ (pc = "watching" => Observe)
    OBVIOUS
  <2> HIDE DEF pc
  <2>7. /\ p.at = pc /\ p.persisted = FALSE /\ p.shot = None /\ p.pending = None
        /\ p.learning = 0 /\ p.last = Original /\ p.end = None /\ p.seen = Original
        /\ p.blind = FALSE /\ p.refused = FALSE
    BY DEF Unused
  <2>8. p \in Observer
    <3>1. Unused \in Observer
      BY DEF Unused, Observer, ObserverPC, ActivePC, Text, None, Original
    <3> QED BY <2>6, <3>1 DEF Observer, ObserverPC, ActivePC
  <2> HIDE DEF p
  <2>9. InHand(p, NoRows)
    <3>1. NoRows \in Rows
      BY DEF NoRows, Rows, None
    <3> DEFINE d == NoRows
    <3>2. /\ d.revisions = <<>> /\ d.proposals = <<>> /\ d.notices = {} /\ d.row = None
          /\ Len(d.revisions) = 0 /\ Len(d.proposals) = 0
      BY DEF NoRows
    <3> HIDE DEF d
    <3>3. Shaped(p, d)
      BY <2>6, <2>7, <2>8, <3>1, <3>2 DEF Shaped, d
    <3>4. RowsInHand(p, d) /\ CandidatesInHand(p, d) /\ NothingForeign(p, d)
      BY <2>6, <2>7, <3>2 DEF RowsInHand, CandidatesInHand, NothingForeign, ActivePC,
         None, Foreign
    <3>5. SeenInHand(p, d)
      BY <2>6, <2>7, <3>2 DEF SeenInHand, LastRevision
    <3> QED BY <3>3, <3>4, <3>5 DEF InHand, d
  <2>10. \A t \in Session : InHand(observer'[t], store'[t])
    BY <2>1, <2>2, <2>4, <2>9 DEF IndInv
  <2>11. Surface'
    BY <2>1, BoundAssumption DEF IndInv, Surface, Free
  <2>12. InOrder'
    <3>1. s \in 0 .. MaxSessions /\ \A t \in Session : t <= s <=> t <= k \/ t = s
      BY <2>1, BoundAssumption DEF Session
    <3>2. \A t \in Session : (Used(t))' <=> t <= s
      BY <1>1, <2>4, <2>6, <2>7, <3>1 DEF Used
    <3> HIDE DEF s
    <3> QED BY <2>1, <3>1, <3>2 DEF InOrder, Free
  <2>13. WatchersKnow'
    <3>1. \A t \in Session : ~Active(t)
      BY <2>1 DEF IndInv, WatchersKnow
    <3>2. \A t \in Session : (Active(t))' => t = s /\ Observe
      BY <2>4, <2>6, <2>7, <3>1 DEF Active
    <3> QED BY <2>1, <2>5, <3>2 DEF WatchersKnow, Free
  <2> QED
    BY <2>1, <2>4, <2>10, <2>11, <2>12, <2>13 DEF IndInv
<1> QED
  BY <1>2, <1>3, <1>4, <1>5 DEF InserterStep

\* An insertion without an observer: those who watch are not told of it.
LEMMA UnobservedStep ==
    ASSUME IndInv, InsertUnobserved
    PROVE  IndInv'
<1>1. PICK k \in 0 .. MaxSessions : \A s \in Session : Used(s) <=> s <= k
  BY DEF IndInv, InOrder
<1>2. PICK reported \in {{}, {k + 1} \cap Session} :
        /\ setup = Free /\ UNCHANGED <<setup, store>>
        /\ field' = [owner |-> 0, text |-> Original]
        /\ observer' = [t \in Session |->
             IF t \in reported THEN [Unused EXCEPT !.at = "reporting"]
             ELSE [observer[t] EXCEPT !.blind = @ \/ t \in Watchers]]
  <2>1. Cardinality({t \in Session : observer[t].at # "unused"}) = k
    BY <1>1, UsedCount
  <2>2. 1 + k = k + 1
    BY BoundAssumption
  <2> QED BY <2>1, <2>2 DEF InsertUnobserved
<1>3. ASSUME NEW t \in Session
      PROVE  /\ InHand(observer'[t], store'[t])
             /\ (Used(t))' <=> Used(t) \/ t \in reported
             /\ (Active(t))' => Active(t) /\ observer'[t].blind
  <2> DEFINE o == observer[t]
             d == store[t]
  <2>1. InHand(o, d) /\ store'[t] = d
    BY <1>2 DEF IndInv
  <2>2. CASE t \in reported
    <3> DEFINE p == [Unused EXCEPT !.at = "reporting"]
    <3>1. observer'[t] = p
      BY <1>2, <2>2
    <3>2. o = Unused /\ d = NoRows
      <4>1. ~(t <= k)
        BY <1>2, <2>2, BoundAssumption
      <4>2. ~Used(t)
        BY <1>1, <4>1
      <4> QED BY <2>1, <4>2 DEF Used, InHand, Shaped
    <3>3. Unused \in Observer
      BY <2>1, <3>2 DEF InHand, Shaped
    <3>4. p \in Observer
      BY <3>3 DEF Observer, ObserverPC
    <3>5. /\ p.at = "reporting" /\ p.persisted = FALSE /\ p.shot = None
          /\ p.pending = None /\ p.learning = 0 /\ p.last = Original /\ p.end = None
          /\ p.seen = Original /\ p.blind = FALSE /\ p.refused = FALSE
      BY DEF Unused
    <3> HIDE DEF p
    <3>6. Shaped(p, d)
      BY <2>1, <3>4, <3>5 DEF InHand, Shaped
    <3>7. /\ d.revisions = <<>> /\ d.row = None /\ Len(d.revisions) = 0
      BY <3>2 DEF NoRows
    <3>8. RowsInHand(p, d) /\ CandidatesInHand(p, d) /\ NothingForeign(p, d)
          /\ SeenInHand(p, d)
      BY <3>5, <3>7 DEF RowsInHand, CandidatesInHand, NothingForeign, SeenInHand,
         ActivePC, None, Foreign
    <3> QED BY <2>1, <2>2, <3>1, <3>5, <3>6, <3>8 DEF InHand, Used, Active
  <2>3. CASE t \notin reported
    <3> DEFINE p == [o EXCEPT !.blind = @ \/ t \in Watchers]
    <3>1. observer'[t] = p
      BY <1>2, <2>3
    <3>2. o \in Observer
      BY <2>1 DEF InHand, Shaped
    <3>3. /\ p \in Observer /\ p.at = o.at
          /\ p.shot = o.shot /\ p.persisted = o.persisted /\ p.pending = o.pending
          /\ p.learning = o.learning /\ p.last = o.last /\ p.end = o.end
          /\ p.seen = o.seen /\ p.refused = o.refused
          /\ p.blind = (o.blind \/ t \in Watchers)
      BY <3>2 DEF Observer
    <3>4. t \in Watchers <=> Active(t)
      BY DEF Watchers
    <3>5. o.at = "unused" => p = o
      <4>1. o.at = "unused" => ~Active(t)
        BY DEF Active
      <4> SUFFICES ASSUME o.at = "unused" PROVE p = o
        OBVIOUS
      <4>2. (o.blind \/ t \in Watchers) = o.blind
        <5>1. o.blind = FALSE
          BY <2>1 DEF InHand, Shaped, Unused
        <5> QED BY <3>4, <4>1, <5>1
      <4>3. p = [o EXCEPT !.blind = o.blind]
        BY <4>2
      <4>4. [o EXCEPT !.blind = o.blind] = o
        BY <3>2 DEF Observer
      <4> QED BY <4>3, <4>4
    <3> HIDE DEF p
    <3>6. InHand(p, d)
      <4> HIDE DEF o, d
      <4>1. Shaped(p, d) /\ RowsInHand(p, d)
        BY <2>1, <3>3, <3>5 DEF InHand, Shaped, RowsInHand
      <4>2. CandidatesInHand(p, d)
        BY <2>1, <3>3 DEF InHand, CandidatesInHand
      <4>3. SeenInHand(p, d)
        BY <2>1, <3>3 DEF InHand, SeenInHand
      <4>4. NothingForeign(p, d)
        BY <2>1, <3>3 DEF InHand, NothingForeign
      <4> QED BY <4>1, <4>2, <4>3, <4>4 DEF InHand
    <3> QED BY <2>1, <2>3, <3>1, <3>3, <3>4, <3>6 DEF Used, Active
  <2> QED BY <2>2, <2>3
<1>4. Surface'
  BY <1>2, BoundAssumption DEF IndInv, Surface, Free
<1>5. InOrder'
  <2>1. CASE reported = {}
    BY <1>1, <1>2, <1>3, <2>1 DEF InOrder, Free
  <2>2. CASE k + 1 \in Session /\ reported = {k + 1}
    <3> DEFINE m == k + 1
    <3>1. m \in 0 .. MaxSessions /\ \A t \in Session : t <= m <=> t <= k \/ t = m
      BY <2>2, BoundAssumption DEF Session
    <3>2. \A t \in Session : (Used(t))' <=> t <= m
      BY <1>1, <1>3, <2>2, <3>1
    <3> HIDE DEF m
    <3> QED BY <1>2, <3>1, <3>2 DEF InOrder, Free
  <2> QED BY <1>2, <2>1, <2>2
<1>6. WatchersKnow'
  BY <1>2, <1>3 DEF WatchersKnow, Free
<1>7. observer' = [t \in Session |-> observer'[t]] /\ store' = [t \in Session |-> store'[t]]
  BY <1>2 DEF IndInv
<1> QED
  BY <1>3, <1>4, <1>5, <1>6, <1>7 DEF IndInv

\* The user edits or submits; the process ends and is launched again.
LEMMA WorldStep ==
    ASSUME IndInv,
           \/ Submit
           \/ \E t \in Edit \cup {Original} : EditText(t)
           \/ \E taken \in BOOLEAN : Restart(taken)
    PROVE  IndInv'
<1>1. CASE Submit \/ \E t \in Edit \cup {Original} : EditText(t)
  <2>1. \E t \in Edit \cup {Original, Gone} : field' = [field EXCEPT !.text = t]
    BY <1>1 DEF Submit, EditText
  <2>2. UNCHANGED <<setup, observer, store>>
    BY <1>1 DEF Submit, EditText
  <2>3. Surface' /\ field'.owner = field.owner
    BY <2>1, <2>2 DEF IndInv, Surface
  <2>4. InOrder' /\ WatchersKnow'
    BY <2>2, <2>3 DEF IndInv, InOrder, WatchersKnow, Used, Active
  <2> QED BY <2>2, <2>3, <2>4 DEF IndInv
<1>2. ASSUME NEW taken \in BOOLEAN, Restart(taken) PROVE IndInv'
  <2>1. setup' = Free /\ UNCHANGED field
    BY <1>2 DEF Restart
  <2>2. ASSUME NEW t \in Session
        PROVE  /\ InHand(observer'[t], store'[t])
               /\ (Used(t))' <=> Used(t)
               /\ ~(Active(t))'
    <3> DEFINE o == observer[t]
               d == store[t]
               q == [o EXCEPT !.refused = ~taken]
               p == IF o.at \in {"unused", "done"} THEN o ELSE Ended(q)
               e == IF taken /\ d.row = "open" THEN [d EXCEPT !.row = "finalized"] ELSE d
    <3>1. observer'[t] = p
      BY <1>2 DEF Restart
    <3>2. store'[t] = e
      BY <1>2 DEF Restart, IndInv
    <3>3. InHand(o, d) /\ o \in Observer /\ d \in Rows
      BY DEF IndInv, InHand, Shaped
    <3>4. /\ e \in Rows /\ e.revisions = d.revisions /\ e.proposals = d.proposals
          /\ e.notices = d.notices
          /\ e.row = IF taken /\ d.row = "open" THEN "finalized" ELSE d.row
      BY <3>3 DEF Rows
    <3>5. d.row # "open" => e = d
      OBVIOUS
    <3>6. LastRevision(e) = LastRevision(d) /\ \A u : Kept(u, e) <=> Kept(u, d)
      BY <3>4 DEF LastRevision, Kept
    <3>7. CASE o.at \in {"unused", "done"}
      <4>1. p = o
        BY <3>7
      <4>2. o.at = "unused" => d.row # "open"
        BY <3>3 DEF InHand, Shaped, NoRows, None
      <4> HIDE DEF o, d, p, e
      <4>3. Shaped(p, e) /\ RowsInHand(p, e)
        BY <3>3, <3>4, <3>5, <3>7, <4>1, <4>2 DEF InHand, Shaped, RowsInHand, ActivePC
      <4>4. CandidatesInHand(p, e) /\ NothingForeign(p, e)
        BY <3>3, <3>4, <3>7, <4>1 DEF InHand, CandidatesInHand, NothingForeign, ActivePC
      <4>5. SeenInHand(p, e)
        BY <3>7, <4>1 DEF SeenInHand
      <4> QED
        BY <3>1, <3>2, <3>7, <4>1, <4>3, <4>4, <4>5 DEF InHand, Used, Active, o
    <3>8. CASE o.at \notin {"unused", "done"}
      <4>1. /\ q \in Observer /\ q.persisted = o.persisted /\ q.end = o.end
            /\ q.blind = o.blind /\ q.refused = ~taken
        <5>1. (~taken) \in BOOLEAN
          OBVIOUS
        <5> QED BY <3>3, <5>1 DEF Observer
      <4>2. p = Ended(q)
        BY <3>8
      <4> HIDE DEF q, p
      <4>3. /\ p \in Observer
            /\ p.at = "done" /\ p.persisted = o.persisted
            /\ p.shot = None /\ p.pending = None
            /\ (o.end = "removed" <=> p.end = "removed")
            /\ p.blind = o.blind /\ p.refused = ~taken
        BY <4>1, <4>2, EndedObserver
      <4> HIDE DEF o, d, e
      <4>4. Shaped(p, e)
        BY <3>3, <3>4, <4>3 DEF InHand, Shaped
      <4>5. RowsInHand(p, e)
        BY <3>3, <3>4, <3>8, <4>3 DEF InHand, RowsInHand, ActivePC
      <4>6. CandidatesInHand(p, e) /\ NothingForeign(p, e) /\ SeenInHand(p, e)
        BY <3>3, <3>4, <4>3 DEF InHand, CandidatesInHand, NothingForeign, SeenInHand,
           ActivePC, None, Foreign
      <4> QED
        BY <3>1, <3>2, <3>8, <4>3, <4>4, <4>5, <4>6 DEF InHand, Used, Active, o
    <3> QED BY <3>7, <3>8
  <2>3. Surface'
    BY <2>1, BoundAssumption DEF IndInv, Surface, Free
  <2>4. InOrder'
    BY <2>1, <2>2 DEF IndInv, InOrder, Free
  <2>5. WatchersKnow'
    BY <2>1, <2>2 DEF WatchersKnow, Free
  <2>6. observer' = [t \in Session |-> observer'[t]] /\ store' = [t \in Session |-> store'[t]]
    BY <1>2 DEF IndInv, Restart
  <2> QED
    BY <2>2, <2>3, <2>4, <2>5, <2>6 DEF IndInv
<1> QED BY <1>1, <1>2

LEMMA NextInv ==
    ASSUME IndInv, [Next]_vars
    PROVE  IndInv'
<1>1. CASE UNCHANGED vars
  BY <1>1 DEF vars, IndInv, Surface, InOrder, WatchersKnow, Used, Active
<1>2. CASE Next
  <2>1. CASE Begin \/ InserterStep
    BY <2>1, InsertStep
  <2>2. CASE InsertUnobserved
    BY <2>2, UnobservedStep
  <2>3. CASE \E s \in Session : Evict(s) \/ Retire(s) \/ SaveAttempt(s) \/ ObserverStep(s)
    <3>1. PICK s \in Session : Evict(s) \/ Retire(s) \/ SaveAttempt(s) \/ ObserverStep(s)
      BY <2>3
    <3>2. CASE Evict(s) \/ SaveAttempt(s)
      BY <3>2, OutsideStep
    <3>3. CASE Retire(s)
      BY <3>3, QuietStep
    <3>4. CASE ObserverStep(s)
      <4> USE <3>4 DEF ObserverStep
      <4>1. CASE GiveUp(s) \/ Interrupted(s) \/ Suspend(s) \/ Leave(s) \/ Settle(s)
                 \/ NoteEdit(s) \/ LastLook(s)
        BY <4>1, QuietStep
      <4>2. CASE Poll(s)
        BY <4>2, TurnStep
      <4>3. CASE Report(s) \/ AttachFinalized(s)
        BY <4>3, EndStep
      <4>4. CASE \E taken \in BOOLEAN :
                   Revert(s, taken) \/ SettleAndLearn(s, taken) \/ RecordEdit(s, taken)
        BY <4>4, TurnStep
      <4>5. CASE \E taken \in BOOLEAN :
                   \/ Flush(s, taken) \/ Publish(s, taken)
                   \/ Learn(s, taken) \/ Close(s, taken)
                   \/ AttachRevision(s, taken) \/ AttachCandidates(s, taken)
        BY <4>5, EndStep
      <4> QED BY <4>1, <4>2, <4>3, <4>4, <4>5
    <3> QED BY <3>1, <3>2, <3>3, <3>4
  <2>4. CASE \E s \in Session : Acknowledge(s)
    BY <2>4, OutsideStep
  <2>5. CASE \E s \in Session : \E r \in DOMAIN store[s].proposals : Decide(s, r)
    BY <2>5, OutsideStep
  <2>6. CASE \/ Submit
             \/ \E t \in Edit \cup {Original} : EditText(t)
             \/ \E taken \in BOOLEAN : Restart(taken)
    BY <2>6, WorldStep
  <2> QED BY <1>2, <2>1, <2>2, <2>3, <2>4, <2>5, <2>6 DEF Next
<1> QED BY <1>1, <1>2

\* Observers, rows, surface and insertions are in hand in every reachable state.
THEOREM Invariance == Spec => []IndInv
<1>1. Init => IndInv
  BY InitInv
<1>2. IndInv /\ [Next]_vars => IndInv'
  BY NextInv
<1> QED
  BY <1>1, <1>2, PTL DEF Spec

\* An inserted text is never learned from by the observer of another insertion,
\* but where that observer was not told of it (observe_inserted_locked stops and
\* awaits the observers of its surface).
THEOREM LearningIsOfOwnText == Spec => []NothingForeignIsLearned
<1>1. IndInv => NothingForeignIsLearned
  <2> SUFFICES ASSUME IndInv, NEW s \in Session,
                      NEW r \in DOMAIN store[s].revisions,
                      store[s].revisions[r] = Foreign, ~observer[s].blind
               PROVE  FALSE
    BY DEF NothingForeignIsLearned
  <2>1. InHand(observer[s], store[s]) /\ store[s].revisions \in Seq(Text)
    BY DEF IndInv, InHand, Shaped, Rows
  <2>2. r \in 1 .. Len(store[s].revisions)
    BY <2>1
  <2> QED BY <2>1, <2>2 DEF InHand, NothingForeign
<1> QED BY <1>1, Invariance, PTL

\* Candidates on offer are those of the last text, and their notices speak of
\* nothing retired (append_edit_learning_revision_and_supersede, propose).
THEOREM OffersAreCurrent == Spec => []CandidatesAreCurrent
<1>1. IndInv => CandidatesAreCurrent
  <2> SUFFICES ASSUME IndInv, NEW s \in Session,
                      NEW r \in DOMAIN store[s].proposals
               PROVE  /\ store[s].proposals[r] = "proposed" =>
                           \/ r = Len(store[s].revisions)
                           \/ r = Len(store[s].revisions) - 1
                              /\ observer[s].end = "removed"
                      /\ r \in store[s].notices =>
                           store[s].proposals[r] \in {"proposed", "decided"}
    BY DEF CandidatesAreCurrent
  <2>1. InHand(observer[s], store[s]) /\ store[s].proposals \in Seq(Status)
        /\ Len(store[s].proposals) = Len(store[s].revisions)
    BY DEF IndInv, InHand, Shaped, Rows
  <2>2. r \in 1 .. Len(store[s].revisions)
    BY <2>1
  <2> QED BY <2>1, <2>2 DEF InHand, CandidatesInHand, Shaped
<1> QED BY <1>1, Invariance, PTL

\* No row stays open after its observer, and no observer works on a closed row
\* (persist_terminal_revision, finalize_open_edit_learning_observations).
THEOREM RowsAreClosed == Spec => []RowsFollowObservers
<1>1. IndInv => RowsFollowObservers
  BY DEF IndInv, InHand, RowsInHand, ActivePC, RowsFollowObservers, Active
<1> QED BY <1>1, Invariance, PTL

-----------------------------------------------------------------------------
\* What was decided about the candidates of d is so in e.
Stand(d, e) ==
    \A r \in DOMAIN d.proposals :
        d.proposals[r] = "decided" => e.proposals[r] = d.proposals[r]

\* A revision keeps decisions, and so do candidates that were not decided about.
LEMMA WritesStand ==
    ASSUME NEW o, NEW d, Shaped(o, d)
    PROVE  /\ Stand(d, d)
           /\ \A x : Stand(d, [d EXCEPT !.row = x])
           /\ \A x : Stand(d, [d EXCEPT !.notices = x])
           /\ \A t \in Text : Stand(d, AppendRevision(d, t))
           /\ \A r \in 1 .. Len(d.revisions) :
                 d.proposals[r] = None => Stand(d, Propose(d, r))
           /\ \A r \in DOMAIN d.proposals :
                 d.proposals[r] = "proposed" => Stand(d, [d EXCEPT !.proposals[r] = "decided"])
<1> DEFINE n == Len(d.revisions)
<1>1. /\ d \in Rows /\ Len(d.proposals) = n
      /\ d.proposals \in Seq(Status) /\ n \in Nat
      /\ DOMAIN d.proposals = 1 .. n
  BY DEF Shaped, Rows
<1>2. /\ Stand(d, d)
      /\ \A x : Stand(d, [d EXCEPT !.row = x])
      /\ \A x : Stand(d, [d EXCEPT !.notices = x])
  BY <1>1 DEF Stand, Rows
<1>3. ASSUME NEW t \in Text PROVE Stand(d, AppendRevision(d, t))
  <2> DEFINE e == AppendRevision(d, t)
  <2>1. \A r \in 1 .. n : e.proposals[r] =
             IF d.proposals[r] = "proposed" THEN "superseded" ELSE d.proposals[r]
    BY <1>1, AppendedRows
  <2> HIDE DEF e
  <2>2. Stand(d, e)
    BY <1>1, <2>1 DEF Stand
  <2> QED BY <2>2 DEF e
<1>4. ASSUME NEW r \in 1 .. n, d.proposals[r] = None PROVE Stand(d, Propose(d, r))
  <2> DEFINE e == Propose(d, r)
  <2>1. \A i \in 1 .. n : i # r => e.proposals[i] = d.proposals[i]
    BY <1>1, ProposedRows
  <2> HIDE DEF e
  <2>2. Stand(d, e)
    BY <1>1, <1>4, <2>1 DEF Stand, None
  <2> QED BY <2>2 DEF e
<1>5. ASSUME NEW r \in DOMAIN d.proposals, d.proposals[r] = "proposed"
      PROVE  Stand(d, [d EXCEPT !.proposals[r] = "decided"])
  <2> DEFINE e == [d EXCEPT !.proposals[r] = "decided"]
  <2>1. e.proposals = [d.proposals EXCEPT ![r] = "decided"]
    BY <1>1 DEF Rows
  <2> HIDE DEF e
  <2>2. Stand(d, e)
    BY <1>1, <1>5, <2>1 DEF Stand
  <2> QED BY <2>2 DEF e
<1> QED BY <1>2, <1>3, <1>4, <1>5

\* Whoever writes a row proposes only what nobody was asked about.
LEMMA StepsStand ==
    ASSUME IndInv, Next, NEW s \in Session
    PROVE  Stand(store[s], store'[s])
<1> DEFINE Good(t, e) == Stand(store[t], e)
<1>0. \A t \in Session : InHand(observer[t], store[t]) /\ Shaped(observer[t], store[t])
  BY DEF IndInv, InHand
<1>1. \A t \in Session : Good(t, store[t])
  BY <1>0, WritesStand
<1>2. ASSUME NEW t \in Session, NEW e,
             store' = [store EXCEPT ![t] = e], Stand(store[t], e)
      PROVE  Stand(store[s], store'[s])
  <2>1. store'[s] = IF s = t THEN e ELSE store[s]
    BY <1>2 DEF IndInv
  <2> QED BY <1>1, <1>2, <2>1
<1>3. ASSUME NEW t \in Session, NEW e, NEW taken, Write(t, e, taken), Stand(store[t], e)
      PROVE  Stand(store[s], store'[s])
  <2>1. store' = [store EXCEPT ![t] = IF taken THEN e ELSE store[t]]
    BY <1>3 DEF Write, IndInv
  <2>2. Stand(store[t], IF taken THEN e ELSE store[t])
    BY <1>1, <1>3
  <2> HIDE DEF Good
  <2> QED BY <1>2, <2>1, <2>2
<1>4. CASE UNCHANGED store
  BY <1>1, <1>4
<1>5. ASSUME NEW t \in Session, ObserverStep(t) PROVE Stand(store[s], store'[s])
  <2> DEFINE o == observer[t]
             d == store[t]
             n == Len(d.revisions)
  <2>0. InHand(o, d) /\ Shaped(o, d) /\ o \in Observer /\ n \in Nat
    BY <1>0 DEF Shaped, Rows
  <2>1. CASE \/ GiveUp(t) \/ Interrupted(t) \/ Suspend(t) \/ Leave(t) \/ Settle(t)
             \/ NoteEdit(t) \/ LastLook(t)
    BY <1>4, <2>1 DEF GiveUp, Interrupted, Suspend, Leave, Settle, NoteEdit, LastLook
  <2>2. CASE Report(t) \/ Poll(t) \/ AttachFinalized(t)
    <3>1. UNCHANGED store \/ \E x : store' = [store EXCEPT ![t] = [d EXCEPT !.row = x]]
      BY <2>2 DEF Report, Poll, AttachFinalized
    <3> QED BY <1>0, <1>2, <1>4, <3>1, WritesStand
  <2>4. ASSUME NEW taken \in BOOLEAN, Revert(t, taken) \/ RecordEdit(t, taken)
        PROVE  Stand(store[s], store'[s])
    <3>1. \/ UNCHANGED store
          \/ \E u \in Text : Write(t, AppendRevision(d, u), taken)
      BY <2>4 DEF Revert, RecordEdit, Read, Text
    <3> QED BY <1>0, <1>3, <1>4, <3>1, WritesStand
  <2>5. ASSUME NEW taken \in BOOLEAN, Flush(t, taken) \/ AttachRevision(t, taken)
        PROVE  Stand(store[s], store'[s])
    <3>1. \/ UNCHANGED store
          \/ \E u \in Text : Write(t, AppendRevision(d, u), taken)
      <4>1. o.pending = None \/ o.pending \in Text
        BY <2>0 DEF Observer
      <4>2. o.at = "amending" => o.pending # None
        BY <2>0 DEF InHand, SeenInHand
      <4> QED BY <2>5, <4>1, <4>2 DEF Flush, AttachRevision
    <3> QED BY <1>0, <1>3, <1>4, <3>1, WritesStand
  <2>6. ASSUME NEW taken \in BOOLEAN,
               \/ SettleAndLearn(t, taken) \/ Publish(t, taken) \/ Learn(t, taken)
               \/ AttachCandidates(t, taken)
        PROVE  Stand(store[s], store'[s])
    <3>1. \/ UNCHANGED store
          \/ \E r \in 1 .. n : d.proposals[r] = None /\ Write(t, Propose(d, r), taken)
      <4>1. CASE SettleAndLearn(t, taken) \/ (Learn(t, taken) /\ o.learning # 0)
        <5>1. o.at \in {"looked", "learning"} /\ o.learning # 0
              /\ Write(t, Propose(d, o.learning), taken)
          BY <4>1 DEF SettleAndLearn, Learn, Read, Looked
        <5>2. o.learning \in 1 .. n /\ d.proposals[o.learning] = None
          <6> HIDE DEF o, d
          <6> QED BY <2>0, <5>1 DEF InHand, CandidatesInHand, ActivePC
        <5> QED BY <5>1, <5>2
      <4>2. CASE Learn(t, taken) /\ o.learning = 0
        BY <4>2 DEF Learn
      <4>3. CASE Publish(t, taken) \/ AttachCandidates(t, taken)
        <5>1. o.at \in {"publishing", "offering"} /\ Write(t, Propose(d, n), taken)
          BY <4>3 DEF Publish, AttachCandidates
        <5>2. n \in 1 .. n /\ d.proposals[n] = None
          <6>1. d.revisions \in Seq(Text)
            BY <2>0 DEF Shaped, Rows
          <6> HIDE DEF o, d
          <6> QED BY <2>0, <5>1, <6>1 DEF InHand, CandidatesInHand
        <5> QED BY <5>1, <5>2
      <4> QED BY <2>6, <4>1, <4>2, <4>3
    <3> QED BY <1>0, <1>3, <1>4, <3>1, WritesStand
  <2>7. ASSUME NEW taken \in BOOLEAN, Close(t, taken)
        PROVE  Stand(store[s], store'[s])
    <3>1. UNCHANGED store \/ Write(t, [d EXCEPT !.row = "finalized"], taken)
      BY <2>7 DEF Close
    <3> QED BY <1>0, <1>3, <1>4, <3>1, WritesStand
  <2> QED
    BY <1>5, <2>1, <2>2, <2>4, <2>5, <2>6, <2>7 DEF ObserverStep
<1>6. CASE Begin \/ InsertUnobserved \/ InserterStep \/ Submit
           \/ (\E t \in Session : Evict(t) \/ Retire(t) \/ SaveAttempt(t))
           \/ (\E t \in Edit \cup {Original} : EditText(t))
  BY <1>4, <1>6 DEF Begin, InsertUnobserved, InserterStep, Abandon, Insert, Observe,
     ObserveFails, Submit, Evict, Retire, SaveAttempt, EditText
<1>7. CASE \E t \in Session : Acknowledge(t)
  <2>1. PICK t \in Session :
          \E x : store' = [store EXCEPT ![t] = [store[t] EXCEPT !.notices = x]]
    <3>1. PICK t \in Session : Acknowledge(t)
      BY <1>7
    <3>2. PICK m \in store[t].notices : store' = [store EXCEPT ![t].notices = @ \ {m}]
      BY <3>1 DEF Acknowledge
    <3>3. store' = [store EXCEPT ![t] = [store[t] EXCEPT !.notices = store[t].notices \ {m}]]
      BY <3>2
    <3> QED BY <3>3
  <2> QED BY <1>0, <1>2, <2>1, WritesStand
<1>8. CASE \E t \in Session : \E r \in DOMAIN store[t].proposals : Decide(t, r)
  <2>0. PICK t \in Session : \E r \in DOMAIN store[t].proposals : Decide(t, r)
    BY <1>8
  <2>1. PICK r \in DOMAIN store[t].proposals : Decide(t, r)
    BY <2>0
  <2>2. /\ store' = [store EXCEPT ![t] = [store[t] EXCEPT !.proposals[r] = "decided"]]
        /\ store[t].proposals[r] = "proposed"
    BY <2>1 DEF Decide
  <2> QED BY <1>0, <1>2, <2>1, <2>2, WritesStand
<1>9. CASE \E taken \in BOOLEAN : Restart(taken)
  <2>1. store'[s] = store[s] \/ store'[s] = [store[s] EXCEPT !.row = "finalized"]
    BY <1>9 DEF Restart
  <2> QED BY <1>0, <2>1, WritesStand
<1> QED BY <1>5, <1>6, <1>7, <1>8, <1>9 DEF Next

\* What the user confirmed or rejected is never taken back, by no revision,
\* removal, retry or restart.
THEOREM DecisionsAreFinal == Spec => DecisionsStand
<1>1. IndInv /\ [Next]_vars =>
         \A s \in Session : \A r \in DOMAIN store[s].proposals :
            store[s].proposals[r] = "decided" =>
               store'[s].proposals[r] = store[s].proposals[r]
  <2>1. CASE UNCHANGED vars
    BY <2>1 DEF vars
  <2>2. IndInv /\ Next => \A s \in Session : Stand(store[s], store'[s])
    BY StepsStand
  <2> QED BY <2>1, <2>2 DEF Stand
<1> QED BY <1>1, Invariance, PTL DEF Spec, DecisionsStand

-----------------------------------------------------------------------------
\* A session whose last write is closing its row or offering its candidates, or
\* that has no row, ends in five ways.
LEMMA WaysToEnd ==
    ASSUME IndInv, Next, NEW s \in Session,
           observer[s].at \in {"closing", "attaching", "offering"}, observer'[s].at = "done"
    PROVE  \/ \E taken \in BOOLEAN : Close(s, taken) \/ Restart(taken)
           \/ AttachFinalized(s) \/ GiveUp(s)
           \/ \E taken \in BOOLEAN : AttachCandidates(s, taken)
<1>1. ASSUME NEW t \in Session, NEW p, observer' = [observer EXCEPT ![t] = p],
             t # s \/ p.at # "done"
      PROVE  FALSE
  BY <1>1 DEF IndInv
<1>2. observer' # observer
  OBVIOUS
<1>3. ASSUME NEW t \in Session, ObserverStep(t)
      PROVE  \/ \E taken \in BOOLEAN : Close(s, taken) \/ Restart(taken)
             \/ AttachFinalized(s) \/ GiveUp(s)
             \/ \E taken \in BOOLEAN : AttachCandidates(s, taken)
  <2>0. observer[t] \in Observer
    BY DEF IndInv, InHand, Shaped
  <2>1. t # s => observer'[s] = observer[s]
    <3>1. CASE Report(t) \/ GiveUp(t) \/ Interrupted(t) \/ Suspend(t) \/ Leave(t)
               \/ Settle(t) \/ NoteEdit(t) \/ AttachFinalized(t)
      BY <3>1 DEF Report, GiveUp, Interrupted, Suspend, Leave, Settle, NoteEdit,
         AttachFinalized, IndInv
    <3>2. CASE Poll(t) \/ LastLook(t)
      BY <3>2 DEF Poll, LastLook, IndInv
    <3>3. ASSUME NEW taken \in BOOLEAN,
                 \/ Revert(t, taken) \/ SettleAndLearn(t, taken) \/ RecordEdit(t, taken)
                 \/ Learn(t, taken) \/ Publish(t, taken)
          PROVE  t # s => observer'[s] = observer[s]
      BY <3>3 DEF Revert, SettleAndLearn, RecordEdit, Learn, Publish, IndInv
    <3>4. ASSUME NEW taken \in BOOLEAN,
                 \/ Flush(t, taken) \/ Close(t, taken)
                 \/ AttachRevision(t, taken) \/ AttachCandidates(t, taken)
          PROVE  t # s => observer'[s] = observer[s]
      BY <3>4 DEF Flush, Close, AttachRevision, AttachCandidates, IndInv
    <3> QED BY <1>3, <3>1, <3>2, <3>3, <3>4 DEF ObserverStep
  <2>2. t = s
    BY <2>1
  <2>3. observer[t].at \in {"closing", "attaching", "offering"}
    BY <2>2
  <2>4. ~ (Report(t) \/ Interrupted(t) \/ Suspend(t) \/ Leave(t)
           \/ Settle(t) \/ NoteEdit(t) \/ Poll(t) \/ LastLook(t))
    BY <2>3 DEF Report, Interrupted, Suspend, Leave, Settle, NoteEdit, Poll, LastLook,
       Looked, Read
  <2>5. \A taken : ~ (\/ Revert(t, taken) \/ SettleAndLearn(t, taken)
                      \/ RecordEdit(t, taken) \/ Flush(t, taken)
                      \/ Publish(t, taken) \/ Learn(t, taken)
                      \/ AttachRevision(t, taken))
    BY <2>3 DEF Revert, SettleAndLearn, RecordEdit, Flush, Publish, Learn,
       AttachRevision, Looked, Read
  <2> QED BY <1>3, <2>2, <2>4, <2>5 DEF ObserverStep
<1>4. ~ (\E t \in Session : Evict(t) \/ Retire(t))
  <2> SUFFICES ASSUME NEW t \in Session, Evict(t) \/ Retire(t) PROVE FALSE
    OBVIOUS
  <2>1. observer[t] \in Observer
    BY DEF IndInv, InHand, Shaped
  <2>2. CASE Evict(t)
    <3> DEFINE p == [observer[t] EXCEPT !.signal = "limit"]
    <3>1. observer' = [observer EXCEPT ![t] = p] /\ p.at = observer[t].at
      BY <2>1, <2>2 DEF Evict, Observer
    <3>2. observer[s].at # "done"
      OBVIOUS
    <3> HIDE DEF p
    <3> QED BY <1>1, <3>1, <3>2
  <2>3. CASE Retire(t)
    <3> DEFINE p == [observer[t] EXCEPT !.at = "flushing", !.end = "over"]
    <3>1. observer' = [observer EXCEPT ![t] = p] /\ p.at = "flushing"
      BY <2>1, <2>3 DEF Retire, Observer
    <3> HIDE DEF p
    <3> QED BY <1>1, <3>1
  <2> QED BY <2>2, <2>3
<1>5. ~ Begin /\ ~ InsertUnobserved
  <2>1. observer[s] \in Observer
    BY DEF IndInv, InHand, Shaped
  <2>2. CASE Begin
    BY <2>1, <2>2 DEF Begin, Observer
  <2>3. CASE InsertUnobserved
    BY <2>1, <2>3 DEF InsertUnobserved, Observer, Unused
  <2> QED BY <2>2, <2>3
<1>6. ~ InserterStep
  <2> SUFFICES ASSUME InserterStep PROVE FALSE
    OBVIOUS
  <2>1. CASE Abandon \/ Insert
    BY <1>2, <2>1 DEF Abandon, Insert
  <2>2. CASE Observe \/ ObserveFails
    <3> DEFINE t == setup.session
    <3>1. setup.step = "inserted"
      BY <2>2 DEF Observe, ObserveFails
    <3>2. t \in Session
      BY <3>1 DEF IndInv, InOrder
    <3>3. observer[t] \in Observer
      BY <3>2 DEF IndInv, InHand, Shaped
    <3>4. PICK x \in {"watching", "reporting"} :
             observer' = [observer EXCEPT ![t] = [observer[t] EXCEPT !.at = x]]
      BY <2>2 DEF Observe, ObserveFails
    <3> DEFINE p == [observer[t] EXCEPT !.at = x]
    <3>5. observer' = [observer EXCEPT ![t] = p] /\ p.at = x
      BY <3>3, <3>4 DEF Observer
    <3> HIDE DEF p, t
    <3> QED BY <1>1, <3>2, <3>5
  <2> QED BY <2>1, <2>2 DEF InserterStep
<1>7. ~ \/ Submit
        \/ \E t \in Session : SaveAttempt(t) \/ Acknowledge(t)
        \/ \E t \in Edit \cup {Original} : EditText(t)
        \/ \E t \in Session : \E r \in DOMAIN store[t].proposals : Decide(t, r)
  BY <1>2 DEF Submit, SaveAttempt, Acknowledge, EditText, Decide
<1> QED BY <1>3, <1>4, <1>5, <1>6, <1>7 DEF Next

\* The last text an observer saw is its last revision when it ends by itself, and
\* one of its revisions when an insertion ends it, unless the store refused it
\* (persist_terminal_revision, persist_finalized_session).
THEOREM EditsSeenAreRecorded == Spec => SeenEditsAreKept
<1> DEFINE Lost(s) ==
              LET o == observer[s]
                  r == store'[s].revisions
              IN  /\ o.at \in {"closing", "attaching", "offering"}
                  /\ observer'[s].at = "done"
                  /\ observer'[s].persisted
                  /\ ~o.refused
                  /\ ~ /\ o.end # "boundary" =>
                            o.seen = IF r = <<>> THEN Original ELSE r[Len(r)]
                       /\ o.seen = Original \/ \E i \in DOMAIN r : r[i] = o.seen
<1>1. ASSUME IndInv, [Next]_vars, NEW s \in Session PROVE ~Lost(s)
  <2> SUFFICES ASSUME Lost(s) PROVE FALSE
    OBVIOUS
  <2> DEFINE o == observer[s]
             d == store[s]
             e == store'[s]
  <2>0. /\ o.at \in {"closing", "attaching", "offering"} /\ observer'[s].at = "done"
        /\ observer'[s].persisted /\ ~o.refused
        /\ ~ /\ o.end # "boundary" => o.seen = LastRevision(e)
             /\ Kept(o.seen, e)
    BY DEF LastRevision, Kept
  <2> HIDE DEF Lost
  <2>1. InHand(o, d) /\ o \in Observer /\ d \in Rows /\ Shaped(o, d)
    BY <1>1 DEF IndInv, InHand, Shaped
  <2>2. Next
    BY <1>1, <2>0 DEF vars
  <2>3. o.at = "attaching" => ~o.persisted
    BY <2>1 DEF InHand, RowsInHand
  <2>4. CASE e.revisions = d.revisions /\ o.persisted
    <3>1. LastRevision(e) = LastRevision(d) /\ (Kept(o.seen, d) => Kept(o.seen, e))
      BY <2>4 DEF LastRevision, Kept
    <3>2. o.at \in {"closing", "offering"}
      BY <2>0, <2>3, <2>4
    <3> HIDE DEF o, d, e
    <3> QED BY <2>0, <2>1, <2>4, <3>1, <3>2 DEF InHand, SeenInHand
  <2>5. CASE AttachFinalized(s)
    <3> DEFINE q == [o EXCEPT !.persisted = TRUE]
    <3>1. /\ e = [d EXCEPT !.row = "finalized"]
          /\ o.at = "attaching"
          /\ observer'[s] = IF q.pending = None THEN Ended(q) ELSE [q EXCEPT !.at = "amending"]
      BY <1>1, <2>1, <2>5 DEF AttachFinalized, IndInv, Observer
    <3>2. q.pending = o.pending /\ [q EXCEPT !.at = "amending"].at # "done"
      BY <2>1 DEF Observer
    <3>3. o.pending = None
      BY <2>0, <3>1, <3>2
    <3>4. e.revisions = d.revisions
      BY <2>1, <3>1 DEF Rows
    <3>5. d.revisions = <<>> /\ o.seen = Original
      <4> HIDE DEF o, d
      <4> QED BY <2>1, <2>3, <3>1, <3>3 DEF InHand, RowsInHand, SeenInHand
    <3> QED BY <2>0, <3>4, <3>5 DEF LastRevision, Kept
  <2>9. ASSUME NEW taken \in BOOLEAN, AttachCandidates(s, taken) PROVE FALSE
    <3> DEFINE n == Len(d.revisions)
               f == Propose(d, n)
    <3>1. o.at = "offering" /\ Write(s, f, taken)
      BY <2>9 DEF AttachCandidates
    <3>2. o.persisted /\ n \in 1 .. n
      <4>1. n \in Nat /\ (d.revisions = <<>> <=> n = 0)
        BY <2>1 DEF Rows
      <4> HIDE DEF o, d
      <4> QED BY <2>1, <3>1, <4>1 DEF InHand, RowsInHand, CandidatesInHand
    <3>3. f.revisions = d.revisions
      BY <2>1, <3>2, ProposedRows DEF Shaped
    <3>4. e = f \/ e = d
      <4> HIDE DEF f
      <4> QED BY <1>1, <3>1 DEF Write, IndInv
    <3> HIDE DEF f
    <3> QED BY <2>4, <3>2, <3>3, <3>4
  <2>6. ASSUME NEW taken \in BOOLEAN, Close(s, taken) PROVE FALSE
    <3>1. o.persisted
      BY <1>1, <2>0, <2>6 DEF Close, IndInv
    <3>2. e.revisions = d.revisions
      <4>1. store' = [store EXCEPT ![s] = IF taken THEN [d EXCEPT !.row = "finalized"]
                                          ELSE d]
        BY <2>6, <3>1 DEF Close, Write
      <4>2. e = IF taken THEN [d EXCEPT !.row = "finalized"] ELSE d
        BY <1>1, <4>1 DEF IndInv
      <4> HIDE DEF d, e
      <4> QED BY <2>1, <4>2 DEF Rows
    <3> QED BY <2>4, <3>1, <3>2
  <2>7. ASSUME NEW taken \in BOOLEAN, Restart(taken) PROVE FALSE
    <3> DEFINE q == [o EXCEPT !.refused = ~taken]
    <3>1. observer'[s] = Ended(q)
      BY <1>1, <2>0, <2>7 DEF Restart
    <3>2. q.persisted = o.persisted
      BY <2>1 DEF Observer
    <3>3. Ended(q).persisted = q.persisted
      BY DEF Ended, Unused
    <3>4. o.persisted
      BY <2>0, <3>1, <3>2, <3>3
    <3>5. e.revisions = d.revisions
      BY <1>1, <2>1, <2>7 DEF Restart, Rows
    <3> QED BY <2>4, <3>4, <3>5
  <2>8. CASE GiveUp(s)
    <3>1. observer'[s] = Ended(o) /\ o.at = "attaching"
      BY <1>1, <2>0, <2>8 DEF GiveUp, IndInv
    <3>2. Ended(o).persisted = o.persisted
      BY DEF Ended, Unused
    <3> QED BY <2>0, <2>3, <3>1, <3>2
  <2> QED
    BY <1>1, <2>0, <2>2, <2>5, <2>6, <2>7, <2>8, <2>9, WaysToEnd
<1>2. IndInv /\ [Next]_vars =>
         \A s \in Session :
         LET o == observer[s]
             r == store'[s].revisions
         IN  /\ o.at \in {"closing", "attaching", "offering"}
             /\ observer'[s].at = "done"
             /\ observer'[s].persisted
             /\ ~o.refused
             =>
             /\ o.end # "boundary" =>
                  o.seen = IF r = <<>> THEN Original ELSE r[Len(r)]
             /\ o.seen = Original \/ \E i \in DOMAIN r : r[i] = o.seen
  BY <1>1
<1> QED BY <1>2, Invariance, PTL DEF Spec, SeenEditsAreKept
=============================================================================
