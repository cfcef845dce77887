--------------------------- MODULE RealtimeAsrProofs ---------------------------
(***************************************************************************)
(* Proofs about a realtime run, for any number of chunks and any sequence  *)
(* of the provider's frames: what a run makes of its events is what was    *)
(* said, in order, from the beginning on, and a failure its reader saw     *)
(* never passes for a text.                                                *)
(***************************************************************************)
EXTENDS RealtimeAsr, TLAPS

USE DEF ownerVars, pumpVars, readerVars, providerVars

-----------------------------------------------------------------------------
(* Streams: the frames to the reader, the events to the pump *)

Plain == {"named", "delta", "too_small", "close", "failed", "text", "last", "partial", "done"}
Parts == {e \in [type : Plain \cup {"completed", "utterance"}, item : Nat \cup {None}] :
            e.type \in {"completed", "utterance"} => e.item # None}
Says(e, types) == e.type \in types /\ e.item # None

\* It says the items from + 1 .. to, each once and in order; what it guesses of an
\* item comes before it says that item, and after it has said those before.
Stream(q, said, guessed, from, to) ==
    /\ \A i \in DOMAIN q : Says(q[i], said) => q[i].item \in from + 1 .. to
    /\ \A k \in from + 1 .. to : \E i \in DOMAIN q : Says(q[i], said) /\ q[i].item = k
    /\ \A i, j \in DOMAIN q :
          i < j /\ Says(q[i], said) /\ Says(q[j], said) => q[i].item < q[j].item
    /\ \A i \in DOMAIN q :
          q[i].type \in guessed => /\ q[i].item \in 1 .. to + 1
                                   /\ \A j \in DOMAIN q :
                                        i < j /\ Says(q[j], said) => q[i].item <= q[j].item

-----------------------------------------------------------------------------
(* The invariant *)

Ends == {"over", "done"}
FrameSays == {"completed", "last"}
FrameGuesses == {"delta", "text"}
EventSays == {"utterance"}
EventGuesses == {"partial"}

Types ==
    /\ kind \in {"dictation", "meeting"}
    /\ engine \in {"openai_audio", "volcengine"}
    /\ collected \in Seq(Nat) /\ drained \in Seq(Nat)
    /\ trailing \in Nat \cup {None}
    /\ frames \in Seq(Parts)
    /\ events \in Seq(Parts)
    /\ heard \in Nat /\ answered \in Nat /\ cuts \in Seq(Nat)
    /\ outcome.text \in Seq(Nat) /\ result.text \in Seq(Nat)

\* What the provider has said. Volcengine says nothing of silence.
Said == IF cuts = <<>> THEN 0 ELSE answered
ProviderOK ==
    /\ engine = "openai_audio" => answered <= Len(cuts)
    /\ engine = "volcengine" => ~begun /\ answered <= 1 /\ (answered = 0 => cuts = <<>>)

\* What the pump has collected and drained is in order, and a partial it keeps is
\* of the item after it.
PumpOK ==
    /\ pump \notin Ends => outcome = NoOutcome
    /\ pump \notin Ends \cup {"draining"} => drained = <<>> /\ trailing = None
    /\ \A i \in DOMAIN collected : collected[i] = i
    /\ \A i \in DOMAIN drained : drained[i] = Len(collected) + i
    /\ trailing # None => trailing \in 1 .. Len(collected) + Len(drained) + 1

\* The reader has read the provider's items up to n, the pump has taken what it
\* has, the rest is on its way; the reader awaits what it heard of beyond n.
ReaderOK(n) ==
    /\ Len(collected) + Len(drained) <= n
    /\ n <= Said
    /\ Stream(frames, FrameSays, FrameGuesses, n, Said)
    /\ Stream(events, EventSays, EventGuesses, Len(collected) + Len(drained), n)
    /\ reader = "reading" => named \ (1 .. n) \subseteq awaiting
    /\ reader = "finished" => named \subseteq 1 .. n

\* "done" is the last event, and of a failure the pump learns before.
DoneOK ==
    /\ \A i \in DOMAIN events : events[i].type = "done" => i = Len(events) /\ reader # "reading"
    /\ reader = "failed" =>
          IF pump \in Ends THEN outcome.state # "ok"
          ELSE \E i \in DOMAIN events : events[i].type = "failed"

OutcomeOK ==
    /\ TextIsWhatWasHeard
    /\ result.state = "ok" /\ kind = "dictation" => pump \in Ends /\ outcome.state = "ok"

IInv ==
    /\ Types /\ ProviderOK /\ PumpOK /\ DoneOK /\ OutcomeOK
    /\ \E n \in Nat : ReaderOK(n)

-----------------------------------------------------------------------------
(* Lemmas about streams *)

\* The first part says the next item, or guesses it; without it the rest is the
\* stream of what is left to say.
LEMMA StreamTail ==
    ASSUME NEW q \in Seq(Parts), NEW said, NEW guessed, NEW from \in Nat, NEW to \in Nat,
           q # <<>>, from <= to, said \cap guessed = {}, Stream(q, said, guessed, from, to)
    PROVE  /\ Says(Head(q), said) =>
                /\ Head(q).item = from + 1 /\ from + 1 <= to
                /\ Stream(Tail(q), said, guessed, from + 1, to)
           /\ ~Says(Head(q), said) => Stream(Tail(q), said, guessed, from, to)
           /\ Head(q).type \in guessed => Head(q).item \in 1 .. from + 1
<1>1. PICK n \in Nat : n = Len(q) /\ n >= 1 /\ DOMAIN q = 1 .. n
  <2>1. Len(q) \in Nat /\ Len(q) >= 1 /\ DOMAIN q = 1 .. Len(q)
    OBVIOUS
  <2> QED
    BY <2>1
<1>2. PICK h : h = q[1] /\ h = Head(q)
  OBVIOUS
<1>3. PICK r : r = Tail(q) /\ DOMAIN r = 1 .. n - 1
               /\ \A i \in 1 .. n - 1 : r[i] = q[i + 1]
  <2>1. DOMAIN Tail(q) = 1 .. Len(q) - 1
        /\ \A i \in 1 .. Len(q) - 1 : Tail(q)[i] = q[i + 1]
    OBVIOUS
  <2> QED
    BY <1>1, <2>1
<1>4. /\ \A i \in 1 .. n : Says(q[i], said) => q[i].item \in from + 1 .. to
      /\ \A k \in from + 1 .. to : \E i \in 1 .. n : Says(q[i], said) /\ q[i].item = k
      /\ \A i, j \in 1 .. n :
            i < j /\ Says(q[i], said) /\ Says(q[j], said) => q[i].item < q[j].item
      /\ \A i \in 1 .. n :
            q[i].type \in guessed => /\ q[i].item \in 1 .. to + 1
                                     /\ \A j \in 1 .. n :
                                          i < j /\ Says(q[j], said) => q[i].item <= q[j].item
  BY <1>1 DEF Stream
<1>5. \A i \in 1 .. n - 1 : i + 1 \in 1 .. n
  OBVIOUS
<1>6. \A i \in 1 .. n : i = 1 \/ (i - 1 \in 1 .. n - 1 /\ i - 1 + 1 = i)
  OBVIOUS
<1>7. ASSUME NEW f \in Nat, \A i \in 1 .. n - 1 : Says(r[i], said) => r[i].item \in f + 1 .. to,
             \A k \in f + 1 .. to : \E i \in 1 .. n : i # 1 /\ Says(q[i], said) /\ q[i].item = k
      PROVE  Stream(r, said, guessed, f, to)
  <2>1. \A k \in f + 1 .. to : \E i \in 1 .. n - 1 : Says(r[i], said) /\ r[i].item = k
    <3>1. SUFFICES ASSUME NEW k \in f + 1 .. to
                   PROVE  \E i \in 1 .. n - 1 : Says(r[i], said) /\ r[i].item = k
      OBVIOUS
    <3>2. PICK i \in 1 .. n : i # 1 /\ Says(q[i], said) /\ q[i].item = k
      BY <1>7
    <3>3. i - 1 \in 1 .. n - 1 /\ r[i - 1] = q[i]
      BY <1>3, <1>6, <3>2
    <3> QED
      BY <3>2, <3>3
  <2>2. \A i, j \in 1 .. n - 1 :
            i < j /\ Says(r[i], said) /\ Says(r[j], said) => r[i].item < r[j].item
    BY <1>3, <1>4, <1>5
  <2>3. ASSUME NEW i \in 1 .. n - 1, r[i].type \in guessed
        PROVE  /\ r[i].item \in 1 .. to + 1
               /\ \A j \in 1 .. n - 1 : i < j /\ Says(r[j], said) => r[i].item <= r[j].item
    <3>1. i + 1 \in 1 .. n /\ r[i] = q[i + 1]
      BY <1>3, <1>5
    <3>2. \A j \in 1 .. n - 1 : j + 1 \in 1 .. n /\ r[j] = q[j + 1]
                                /\ (i < j => i + 1 < j + 1)
      BY <1>3, <1>5
    <3> QED
      BY <1>4, <2>3, <3>1, <3>2
  <2> QED
    BY <1>3, <1>7, <2>1, <2>2, <2>3 DEF Stream
<1>8. ASSUME Says(h, said)
      PROVE  h.item = from + 1 /\ from + 1 <= to /\ Stream(r, said, guessed, from + 1, to)
  <2>1. h.item \in from + 1 .. to /\ h.item \in Nat /\ from + 1 <= to
    BY <1>1, <1>2, <1>4, <1>8
  <2>2. \A i \in 1 .. n : i # 1 /\ Says(q[i], said) => h.item < q[i].item
    BY <1>1, <1>2, <1>4, <1>8
  <2>3. PICK i \in 1 .. n : Says(q[i], said) /\ q[i].item = from + 1
    <3>1. from + 1 \in from + 1 .. to
      BY <2>1
    <3> QED
      BY <1>4, <3>1
  <2>4. h.item = from + 1
    BY <1>2, <2>1, <2>2, <2>3
  <2>5. \A j \in 1 .. n - 1 : Says(r[j], said) => r[j].item \in from + 2 .. to
    <3>1. \A j \in 1 .. n - 1 : j + 1 \in 1 .. n /\ j + 1 # 1 /\ r[j] = q[j + 1]
      BY <1>3, <1>5
    <3>2. \A j \in 1 .. n : j # 1 /\ Says(q[j], said) => q[j].item \in from + 2 .. to
      <4>1. \A j \in 1 .. n : Says(q[j], said) => q[j].item \in from + 1 .. to
        BY <1>4
      <4> QED
        BY <2>2, <2>4, <4>1
    <3> QED
      BY <3>1, <3>2
  <2>6. \A k \in from + 2 .. to : \E j \in 1 .. n : j # 1 /\ Says(q[j], said) /\ q[j].item = k
    <3>1. \A k \in from + 2 .. to : k \in from + 1 .. to /\ k # from + 1
      OBVIOUS
    <3> QED
      BY <1>2, <1>4, <2>4, <3>1
  <2>7. from + 1 \in Nat /\ from + 1 + 1 = from + 2
    OBVIOUS
  <2> QED
    BY <1>7, <2>1, <2>4, <2>5, <2>6, <2>7
<1>9. ASSUME ~Says(h, said) PROVE Stream(r, said, guessed, from, to)
  <2>1. \A j \in 1 .. n - 1 : Says(r[j], said) => r[j].item \in from + 1 .. to
    BY <1>3, <1>4, <1>5
  <2>2. \A k \in from + 1 .. to : \E j \in 1 .. n : j # 1 /\ Says(q[j], said) /\ q[j].item = k
    BY <1>2, <1>4, <1>9
  <2> QED
    BY <1>7, <2>1, <2>2
<1>10. ASSUME h.type \in guessed PROVE h.item \in 1 .. from + 1
  <2>1. 1 \in 1 .. n /\ ~Says(h, said)
    BY <1>1, <1>10 DEF Says
  <2>2. /\ h.item \in 1 .. to + 1
        /\ \A j \in 1 .. n : 1 < j /\ Says(q[j], said) => h.item <= q[j].item
    BY <1>2, <1>4, <1>10, <2>1
  <2>3. CASE from = to
    BY <2>2, <2>3
  <2>4. CASE from < to
    <3>1. from + 1 \in from + 1 .. to
      BY <2>4
    <3>2. PICK j \in 1 .. n : Says(q[j], said) /\ q[j].item = from + 1
      BY <1>4, <3>1
    <3>3. 1 < j
      BY <1>2, <2>1, <3>2
    <3> QED
      BY <2>2, <3>2, <3>3
  <2> QED
    BY <2>3, <2>4
<1> QED
  BY <1>2, <1>3, <1>8, <1>9, <1>10

\* One more part: the next item said, or a guess of it, or anything else.
LEMMA StreamAppend ==
    ASSUME NEW q \in Seq(Parts), NEW said, NEW guessed, NEW from \in Nat, NEW to \in Nat,
           NEW e, from <= to, said \cap guessed = {}, Stream(q, said, guessed, from, to)
    PROVE  /\ Says(e, said) /\ e.item = to + 1
                => Stream(Append(q, e), said, guessed, from, to + 1)
           /\ ~Says(e, said) /\ (e.type \in guessed => e.item \in 1 .. to + 1)
                => Stream(Append(q, e), said, guessed, from, to)
<1>1. PICK n \in Nat : n = Len(q) /\ DOMAIN q = 1 .. n
  OBVIOUS
<1>2. PICK r : r = Append(q, e) /\ DOMAIN r = 1 .. n + 1 /\ r[n + 1] = e
               /\ \A i \in 1 .. n : r[i] = q[i]
  <2>1. /\ DOMAIN Append(q, e) = 1 .. Len(q) + 1 /\ Append(q, e)[Len(q) + 1] = e
        /\ \A i \in 1 .. Len(q) : Append(q, e)[i] = q[i]
    OBVIOUS
  <2> QED
    BY <1>1, <2>1
<1>3. \A i \in 1 .. n + 1 : i = n + 1 \/ (i \in 1 .. n /\ i < n + 1)
  OBVIOUS
<1>4. \A i \in 1 .. n : i \in 1 .. n + 1 /\ ~(n + 1 < i)
  OBVIOUS
<1>5. /\ \A i \in 1 .. n : Says(q[i], said) => q[i].item \in from + 1 .. to
      /\ \A k \in from + 1 .. to : \E i \in 1 .. n : Says(q[i], said) /\ q[i].item = k
      /\ \A i, j \in 1 .. n :
            i < j /\ Says(q[i], said) /\ Says(q[j], said) => q[i].item < q[j].item
      /\ \A i \in 1 .. n :
            q[i].type \in guessed => /\ q[i].item \in 1 .. to + 1
                                     /\ \A j \in 1 .. n :
                                          i < j /\ Says(q[j], said) => q[i].item <= q[j].item
  BY <1>1 DEF Stream
<1>6. ASSUME Says(e, said), e.item = to + 1 PROVE Stream(r, said, guessed, from, to + 1)
  <2>1. \A i \in 1 .. n + 1 : Says(r[i], said) => r[i].item \in from + 1 .. to + 1
    <3>1. \A k \in from + 1 .. to : k \in from + 1 .. to + 1
      OBVIOUS
    <3>2. to + 1 \in from + 1 .. to + 1
      OBVIOUS
    <3> QED
      BY <1>2, <1>3, <1>5, <1>6, <3>1, <3>2
  <2>2. \A k \in from + 1 .. to + 1 : \E i \in 1 .. n + 1 : Says(r[i], said) /\ r[i].item = k
    <3>1. \A k \in from + 1 .. to + 1 : k \in from + 1 .. to \/ k = to + 1
      OBVIOUS
    <3>2. n + 1 \in 1 .. n + 1
      OBVIOUS
    <3> QED
      BY <1>2, <1>4, <1>5, <1>6, <3>1, <3>2
  <2>3. \A i, j \in 1 .. n + 1 :
            i < j /\ Says(r[i], said) /\ Says(r[j], said) => r[i].item < r[j].item
    <3>1. SUFFICES ASSUME NEW i \in 1 .. n + 1, NEW j \in 1 .. n + 1, i < j,
                          Says(r[i], said), Says(r[j], said)
                   PROVE  r[i].item < r[j].item
      OBVIOUS
    <3>2. i \in 1 .. n
      BY <3>1
    <3>3. CASE j \in 1 .. n
      BY <1>2, <1>5, <3>1, <3>2, <3>3
    <3>4. CASE j = n + 1
      <4>1. r[i].item \in from + 1 .. to
        BY <1>2, <1>5, <3>1, <3>2
      <4> QED
        BY <1>2, <1>6, <3>4, <4>1
    <3> QED
      BY <1>3, <3>3, <3>4
  <2>4. \A i \in 1 .. n + 1 :
            r[i].type \in guessed => /\ r[i].item \in 1 .. to + 2
                                     /\ \A j \in 1 .. n + 1 :
                                          i < j /\ Says(r[j], said) => r[i].item <= r[j].item
    <3>1. \A k \in 1 .. to + 1 : k \in 1 .. to + 2 /\ k <= to + 1
      OBVIOUS
    <3>2. e.type \notin guessed
      BY <1>6 DEF Says
    <3> QED
      BY <1>2, <1>3, <1>4, <1>5, <1>6, <3>1, <3>2
  <2>5. to + 1 + 1 = to + 2
    OBVIOUS
  <2> QED
    BY <1>2, <2>1, <2>2, <2>3, <2>4, <2>5 DEF Stream
<1>7. ASSUME ~Says(e, said), e.type \in guessed => e.item \in 1 .. to + 1
      PROVE  Stream(r, said, guessed, from, to)
  <2>1. \A i \in 1 .. n + 1 : Says(r[i], said) => r[i].item \in from + 1 .. to
    BY <1>2, <1>3, <1>5, <1>7
  <2>2. \A k \in from + 1 .. to : \E i \in 1 .. n + 1 : Says(r[i], said) /\ r[i].item = k
    BY <1>2, <1>4, <1>5
  <2>3. \A i, j \in 1 .. n + 1 :
            i < j /\ Says(r[i], said) /\ Says(r[j], said) => r[i].item < r[j].item
    <3>1. \A i \in 1 .. n + 1 : Says(r[i], said) => i \in 1 .. n /\ r[i] = q[i]
      BY <1>2, <1>3, <1>7
    <3> QED
      BY <1>5, <3>1
  <2>4. \A i \in 1 .. n + 1 :
            r[i].type \in guessed => /\ r[i].item \in 1 .. to + 1
                                     /\ \A j \in 1 .. n + 1 :
                                          i < j /\ Says(r[j], said) => r[i].item <= r[j].item
    BY <1>2, <1>3, <1>4, <1>5, <1>7
  <2> QED
    BY <1>2, <2>1, <2>2, <2>3, <2>4 DEF Stream
<1> QED
  BY <1>2, <1>6, <1>7

\* What parts and streams are made of.
LEMMA PartFields ==
    ASSUME NEW e \in Parts
    PROVE  /\ e.item \in Nat \cup {None}
           /\ e.type \in {"completed", "utterance"} => e.item \in Nat
  BY DEF Parts

\* Records of the reader and of the provider are parts.
LEMMA Records ==
    ASSUME NEW t, NEW i \in Nat \cup {None},
           t \in Plain \/ (t \in {"completed", "utterance"} /\ i \in Nat)
    PROVE  \A e : e = [type |-> t, item |-> i] =>
              e \in Parts /\ e.type = t /\ e.item = i
<1> SUFFICES ASSUME NEW e, e = [type |-> t, item |-> i]
             PROVE  e \in Parts /\ e.type = t /\ e.item = i
  OBVIOUS
<1>1. e.type = t /\ e.item = i
  OBVIOUS
<1>2. e \in [type : Plain \cup {"completed", "utterance"}, item : Nat \cup {None}]
  OBVIOUS
<1>3. e.type \in {"completed", "utterance"} => e.item # None
  BY <1>1, RealtimeAssumption DEF Plain
<1> QED
  BY <1>1, <1>2, <1>3 DEF Parts

\* What a reader sends at once is appended one by one.
LEMMA Pushes ==
    ASSUME NEW q \in Seq(Parts), NEW a \in Parts, NEW b \in Parts
    PROVE  /\ q \o <<a, b>> = Append(Append(q, a), b)
           /\ q \o <<a>> \o <<b>> = Append(Append(q, a), b)
           /\ q \o <<>> \o <<b>> = Append(q, b)
           /\ q \o <<a>> = Append(q, a)
           /\ q \o <<>> = q
<1>1. q \o <<>> = q /\ q \o <<a>> = Append(q, a)
  OBVIOUS
<1>2. Append(q, a) \o <<b>> = Append(Append(q, a), b) /\ q \o <<b>> = Append(q, b)
  OBVIOUS
<1>3. q \o <<a, b>> = Append(Append(q, a), b)
  OBVIOUS
<1> QED
  BY <1>1, <1>2, <1>3

-----------------------------------------------------------------------------
(* The end of a run's events *)

NoDone(q) == \A i \in DOMAIN q : q[i].type # "done"

\* Only the last event appended may be the end.
LEMMA DoneIsLast ==
    ASSUME NEW q \in Seq(Parts), NoDone(q), NEW e \in Parts
    PROVE  /\ e.type # "done" => NoDone(Append(q, e))
           /\ \A i \in DOMAIN Append(q, e) :
                 Append(q, e)[i].type = "done" => i = Len(Append(q, e))
           /\ \A i \in DOMAIN q : i \in DOMAIN Append(q, e) /\ Append(q, e)[i] = q[i]
           /\ \E i \in DOMAIN Append(q, e) : Append(q, e)[i] = e
<1>1. PICK n \in Nat : n = Len(q) /\ DOMAIN q = 1 .. n
  OBVIOUS
<1>2. /\ Len(Append(q, e)) = n + 1 /\ DOMAIN Append(q, e) = 1 .. n + 1
      /\ Append(q, e)[n + 1] = e
      /\ \A i \in 1 .. n : Append(q, e)[i] = q[i]
  BY <1>1
<1>3. \A i \in 1 .. n + 1 : i \in 1 .. n \/ i = n + 1
  OBVIOUS
<1>4. n + 1 \in 1 .. n + 1 /\ \A i \in 1 .. n : i \in 1 .. n + 1
  OBVIOUS
<1> QED
  BY <1>1, <1>2, <1>3, <1>4 DEF NoDone

\* Items are counted.
LEMMA SaidIsNat == ASSUME Types PROVE Said \in Nat
  BY DEF Types, Said

\* So is what the pump took.
LEMMA Taken ==
    ASSUME Types
    PROVE  /\ Len(collected) \in Nat /\ Len(drained) \in Nat
           /\ Len(collected) + Len(drained) \in Nat
  BY DEF Types

-----------------------------------------------------------------------------
(* Steps *)

\* A step of the owner, the bridge or the pump's sending.
LEMMA QuietInv ==
    ASSUME IInv, heard' \in Nat,
           UNCHANGED <<kind, engine, collected, drained, trailing, outcome, result,
                       readerVars, events, frames, cuts, answered, begun>>,
           pump' \in Ends <=> pump \in Ends,
           pump' \notin Ends \cup {"draining"} => pump \notin Ends \cup {"draining"}
    PROVE  IInv'
<1>1. PICK n \in Nat : ReaderOK(n)
  BY DEF IInv
<1>2. Said' = Said
  BY DEF Said
<1>3. Types' /\ ProviderOK' /\ PumpOK'
  BY DEF IInv, Types, ProviderOK, PumpOK
<1>4. DoneOK'
  BY DEF IInv, DoneOK
<1>5. OutcomeOK'
  BY DEF IInv, OutcomeOK, TextIsWhatWasHeard
<1>6. ReaderOK(n)'
  BY <1>1, <1>2 DEF ReaderOK
<1> QED
  BY <1>3, <1>4, <1>5, <1>6 DEF IInv

\* The provider sends a frame, or nothing.
LEMMA ProviderEffect ==
    ASSUME IInv, NEW n \in Nat, ReaderOK(n),
           UNCHANGED <<kind, engine, collected, drained, trailing, outcome, result,
                       readerVars, events, pump>>,
           heard' \in Nat, answered' \in Nat, cuts' \in Seq(Nat), ProviderOK',
           frames' \in Seq(Parts), Said <= Said',
           Stream(frames', FrameSays, FrameGuesses, n, Said')
    PROVE  IInv'
<1>1. Types' /\ PumpOK'
  BY DEF IInv, Types, PumpOK
<1>2. DoneOK'
  BY DEF IInv, DoneOK
<1>3. OutcomeOK'
  BY DEF IInv, OutcomeOK, TextIsWhatWasHeard
<1>4. n <= Said'
  <2>1. Said \in Nat /\ Said' \in Nat /\ n <= Said
    BY <1>1, SaidIsNat DEF IInv, Types, Said, ReaderOK
  <2> QED
    BY <2>1
<1>5. ReaderOK(n)'
  BY <1>4 DEF ReaderOK
<1> QED
  BY <1>1, <1>2, <1>3, <1>5 DEF IInv

\* One step per answer of the provider.
LEMMA ProviderInv == ASSUME IInv, ProviderStep PROVE IInv'
<1>1. PICK n \in Nat : ReaderOK(n)
  BY DEF IInv
<1>2. /\ heard \in Nat /\ answered \in Nat /\ cuts \in Seq(Nat) /\ Len(cuts) \in Nat
      /\ frames \in Seq(Parts) /\ Said \in Nat /\ n <= Said
      /\ (cuts = <<>> <=> Len(cuts) = 0)
      /\ Stream(frames, FrameSays, FrameGuesses, n, Said)
      /\ ProviderOK /\ engine \in {"openai_audio", "volcengine"}
  <2>1. cuts \in Seq(Nat)
    BY DEF IInv, Types
  <2> QED
    BY <1>1, <2>1, SaidIsNat DEF IInv, Types, ReaderOK
<1>3. FrameSays \cap FrameGuesses = {}
  BY DEF FrameSays, FrameGuesses
<1>4. ASSUME NEW f \in Parts, f.type \notin FrameSays \cup FrameGuesses
                \/ (f.type = "last" /\ f.item = None)
      PROVE  Stream(Append(frames, f), FrameSays, FrameGuesses, n, Said)
  BY <1>2, <1>3, <1>4, StreamAppend DEF Says, FrameGuesses
<1>5. CASE ProviderHears
  <2>1. heard' \in Nat
    BY <1>2, <1>5 DEF ProviderHears
  <2> QED
    BY <1>5, <2>1, QuietInv DEF ProviderHears, Provider
<1>6. ASSUME NEW f \in Parts, f.type \notin FrameSays \cup FrameGuesses,
             frames' = Append(frames, f),
             UNCHANGED <<kind, engine, collected, drained, trailing, outcome, result,
                         readerVars, events, pump, heard, cuts, answered>>,
             begun' => begun \/ engine = "openai_audio",
             begun' \in {begun, TRUE, FALSE}
      PROVE  IInv'
  <2>1. ProviderOK'
    BY <1>2, <1>6 DEF ProviderOK
  <2>2. Said' = Said
    BY <1>6 DEF Said
  <2>3. frames' \in Seq(Parts) /\ Stream(frames', FrameSays, FrameGuesses, n, Said')
    BY <1>2, <1>4, <1>6, <2>2
  <2> QED
    BY <1>1, <1>2, <1>6, <2>1, <2>2, <2>3, ProviderEffect
<1>7. CASE ProviderAnnounces
  <2>1. PICK f : f = Frame("named", Len(cuts) + 1)
    OBVIOUS
  <2>2. f \in Parts /\ f.type \notin FrameSays \cup FrameGuesses
    <3>1. Len(cuts) + 1 \in Nat \cup {None} /\ "named" \in Plain
      BY <1>2 DEF Plain
    <3>2. f \in Parts /\ f.type = "named"
      BY <2>1, <3>1, Records DEF Frame
    <3> QED
      BY <3>2 DEF FrameSays, FrameGuesses
  <2> QED
    BY <1>6, <1>7, <2>1, <2>2 DEF ProviderAnnounces, Provider
<1>8. CASE ProviderGoes
  <2>1. PICK f \in {Frame("close", None), Frame("failed", None)} :
            frames' = Append(frames, f)
    BY <1>8 DEF ProviderGoes
  <2>2. f \in Parts /\ f.type \notin FrameSays \cup FrameGuesses
    <3>1. {"close", "failed"} \subseteq Plain
      BY DEF Plain
    <3>2. f \in Parts /\ f.type \in {"close", "failed"}
      <4>1. CASE f = Frame("close", None)
        BY <3>1, <4>1, Records DEF Frame
      <4>2. CASE f = Frame("failed", None)
        BY <3>1, <4>2, Records DEF Frame
      <4> QED
        BY <2>1, <4>1, <4>2
    <3> QED
      BY <3>2 DEF FrameSays, FrameGuesses
  <2> QED
    BY <1>6, <1>8, <2>1, <2>2 DEF ProviderGoes, Provider
<1>9. ASSUME engine = "openai_audio", ProviderCuts,
             UNCHANGED <<kind, engine, collected, drained, trailing, outcome, result,
                         readerVars, events, pump, heard, answered>>
      PROVE  IInv'
  <2>1. PICK f : f = Frame("named", Len(cuts) + 1)
    OBVIOUS
  <2>2. f \in Parts /\ f.type \notin FrameSays \cup FrameGuesses
    <3>1. Len(cuts) + 1 \in Nat \cup {None} /\ "named" \in Plain
      BY <1>2 DEF Plain
    <3>2. f \in Parts /\ f.type = "named"
      BY <2>1, <3>1, Records DEF Frame
    <3> QED
      BY <3>2 DEF FrameSays, FrameGuesses
  <2>3. /\ cuts' = Append(cuts, heard) /\ begun' = FALSE /\ frames' = Append(frames, f)
    BY <1>9, <2>1 DEF ProviderCuts
  <2>4. cuts' \in Seq(Nat) /\ Len(cuts') = Len(cuts) + 1 /\ cuts' # <<>>
    <3>1. \A c \in Seq(Nat), h \in Nat : Append(c, h) \in Seq(Nat)
             /\ Len(Append(c, h)) = Len(c) + 1
      OBVIOUS
    <3>2. Len(cuts') = Len(cuts) + 1 /\ cuts' \in Seq(Nat)
      BY <1>2, <2>3, <3>1
    <3>3. Len(<<>>) = 0 /\ Len(cuts') # 0
      BY <1>2, <3>2
    <3> QED
      BY <3>2, <3>3
  <2>5. Said = answered /\ Said' = answered
    BY <1>2, <1>9, <2>4 DEF Said, ProviderOK
  <2>6. ProviderOK'
    BY <1>2, <1>9, <2>3, <2>4 DEF ProviderOK
  <2>7. frames' \in Seq(Parts) /\ Stream(frames', FrameSays, FrameGuesses, n, Said')
    BY <1>2, <1>4, <2>2, <2>3, <2>5
  <2> QED
    BY <1>1, <1>2, <1>9, <2>4, <2>5, <2>6, <2>7, ProviderEffect
<1>10. CASE ProviderCutsAtPause
  <2>1. engine = "openai_audio"
    BY <1>2, <1>10 DEF ProviderCutsAtPause, ProviderOK
  <2> QED
    BY <1>9, <1>10, <2>1 DEF ProviderCutsAtPause, Provider
<1>11. CASE ProviderHearsCommit
  <2>1. CASE ProviderCuts
    BY <1>9, <1>11, <2>1 DEF ProviderHearsCommit
  <2>2. CASE ~ProviderCuts
    <3>1. PICK f : f = Frame("too_small", None)
      OBVIOUS
    <3>2. f \in Parts /\ f.type \notin FrameSays \cup FrameGuesses
      BY <3>1, Records DEF Frame, Plain, FrameSays, FrameGuesses
    <3> QED
      BY <1>6, <1>11, <2>2, <3>1, <3>2 DEF ProviderHearsCommit
  <2> QED
    BY <2>1, <2>2
<1>12. CASE ProviderAnswers
  <2>1. /\ engine = "openai_audio" /\ answered < Len(cuts) /\ Said = answered
        /\ UNCHANGED <<kind, engine, collected, drained, trailing, outcome, result,
                       readerVars, events, pump, heard, cuts, begun>>
    BY <1>2, <1>12 DEF ProviderAnswers, Provider, Said
  <2>2. CASE answered' = answered /\ frames' = Append(frames, Frame("delta", answered + 1))
    <3>1. PICK f : f = Frame("delta", answered + 1)
      OBVIOUS
    <3>2. f \in Parts /\ f.type = "delta" /\ f.item = Said + 1
      <4>1. answered + 1 \in Nat /\ Said = answered
        BY <1>2, <2>1
      <4>2. f = [type |-> "delta", item |-> answered + 1]
        BY <3>1 DEF Frame
      <4> QED
        BY <4>1, <4>2, Records DEF Plain
    <3>3. f.item \in 1 .. Said + 1 /\ ~Says(f, FrameSays)
      BY <1>2, <3>2 DEF Says, FrameSays
    <3>4. Stream(Append(frames, f), FrameSays, FrameGuesses, n, Said)
      BY <1>2, <1>3, <3>2, <3>3, StreamAppend
    <3>5. Said' = Said
      BY <2>1, <2>2 DEF Said
    <3>6. ProviderOK'
      BY <1>2, <2>1, <2>2 DEF ProviderOK
    <3>7. frames' \in Seq(Parts) /\ Stream(frames', FrameSays, FrameGuesses, n, Said')
      BY <1>2, <2>2, <3>1, <3>2, <3>4, <3>5
    <3> QED
      BY <1>1, <1>2, <2>1, <2>2, <3>5, <3>6, <3>7, ProviderEffect
  <2>3. CASE answered' = answered + 1 /\ frames' = Append(frames, Frame("completed", answered + 1))
    <3>1. PICK f : f = Frame("completed", answered + 1)
      OBVIOUS
    <3>2. f \in Parts /\ f.type = "completed" /\ f.item = Said + 1
      <4>1. answered + 1 \in Nat /\ Said = answered
        BY <1>2, <2>1
      <4>2. f = [type |-> "completed", item |-> answered + 1]
        BY <3>1 DEF Frame
      <4> QED
        BY <4>1, <4>2, Records DEF Plain
    <3>3. Says(f, FrameSays)
      BY <3>2, PartFields, RealtimeAssumption DEF Says, FrameSays
    <3>4. Stream(Append(frames, f), FrameSays, FrameGuesses, n, Said + 1)
      BY <1>2, <1>3, <3>2, <3>3, StreamAppend
    <3>5. Said' = Said + 1
      BY <1>2, <2>1, <2>3 DEF Said
    <3>6. ProviderOK'
      BY <1>2, <2>1, <2>3 DEF ProviderOK
    <3>7. frames' \in Seq(Parts) /\ Stream(frames', FrameSays, FrameGuesses, n, Said')
      BY <1>2, <2>3, <3>1, <3>2, <3>4, <3>5
    <3> QED
      BY <1>1, <1>2, <2>1, <2>3, <3>5, <3>6, <3>7, ProviderEffect
  <2> QED
    BY <1>12, <2>2, <2>3 DEF ProviderAnswers
<1>13. CASE ProviderResults
  <2>1. /\ engine = "volcengine" /\ answered = 0 /\ cuts = <<>> /\ Said = 0 /\ ~begun
        /\ UNCHANGED <<kind, engine, collected, drained, trailing, outcome, result,
                       readerVars, events, pump, heard, begun>>
    BY <1>2, <1>13 DEF ProviderResults, Provider, Said, ProviderOK
  <2>2. CASE cuts' = cuts /\ answered' = answered /\ frames' = Append(frames, Frame("text", 1))
    <3>1. PICK f : f = Frame("text", 1)
      OBVIOUS
    <3>2. f \in Parts /\ f.type = "text" /\ f.item = 1
      BY <3>1, Records DEF Frame, Plain
    <3>3. f.item \in 1 .. Said + 1 /\ ~Says(f, FrameSays)
      BY <2>1, <3>2 DEF Says, FrameSays
    <3>4. Stream(Append(frames, f), FrameSays, FrameGuesses, n, Said)
      BY <1>2, <1>3, <3>2, <3>3, StreamAppend
    <3>5. Said' = Said
      BY <2>2 DEF Said
    <3>6. ProviderOK'
      BY <1>2, <2>1, <2>2 DEF ProviderOK
    <3>7. frames' \in Seq(Parts) /\ Stream(frames', FrameSays, FrameGuesses, n, Said')
      BY <1>2, <2>2, <3>1, <3>2, <3>4, <3>5
    <3> QED
      BY <1>1, <1>2, <2>1, <2>2, <3>5, <3>6, <3>7, ProviderEffect
  <2>3. CASE /\ answered' = 1
             /\ cuts' = IF heard = 0 THEN <<>> ELSE <<heard>>
             /\ frames' = Append(frames, Frame("last", IF heard = 0 THEN None ELSE 1))
    <3>1. PICK f : f = Frame("last", IF heard = 0 THEN None ELSE 1)
      OBVIOUS
    <3>2. f \in Parts /\ f.type = "last" /\ f.item = IF heard = 0 THEN None ELSE 1
      <4>1. PICK i \in Nat \cup {None} : i = IF heard = 0 THEN None ELSE 1
        OBVIOUS
      <4>2. f = [type |-> "last", item |-> i]
        BY <3>1, <4>1 DEF Frame
      <4>3. f \in Parts /\ f.type = "last" /\ f.item = i
        BY <4>2, Records DEF Plain
      <4> QED
        BY <4>1, <4>3
    <3>3. cuts' \in Seq(Nat) /\ Said' = IF heard = 0 THEN 0 ELSE 1
      BY <1>2, <2>3 DEF Said
    <3>4. Stream(Append(frames, f), FrameSays, FrameGuesses, n, Said')
      <4>1. CASE heard = 0
        BY <1>4, <2>1, <3>2, <3>3, <4>1
      <4>2. CASE heard # 0
        <5>1. Says(f, FrameSays) /\ f.item = Said + 1
          BY <2>1, <3>2, <4>2, RealtimeAssumption DEF Says, FrameSays
        <5>2. Stream(Append(frames, f), FrameSays, FrameGuesses, n, Said + 1)
          BY <1>2, <1>3, <5>1, StreamAppend
        <5> QED
          BY <2>1, <3>3, <4>2, <5>2
      <4> QED
        BY <4>1, <4>2
    <3>5. ProviderOK'
      BY <2>1, <2>3 DEF ProviderOK
    <3>6. frames' \in Seq(Parts) /\ Stream(frames', FrameSays, FrameGuesses, n, Said')
          /\ Said <= Said'
      BY <1>2, <2>1, <2>3, <3>1, <3>2, <3>3, <3>4
    <3> QED
      BY <1>1, <1>2, <2>1, <2>3, <3>3, <3>5, <3>6, ProviderEffect
  <2> QED
    BY <1>13, <2>2, <2>3 DEF ProviderResults
<1> QED
  BY <1>5, <1>7, <1>8, <1>10, <1>11, <1>12, <1>13 DEF ProviderStep

\* The reader takes a frame: it has read up to m afterwards.
LEMMA ReaderEffect ==
    ASSUME IInv, pump \notin Ends,
           UNCHANGED <<ownerVars, pumpVars, providerVars>>,
           frames' \in Seq(Parts), events' \in Seq(Parts), DoneOK', NEW m \in Nat,
           Len(collected) + Len(drained) <= m, m <= Said,
           Stream(frames', FrameSays, FrameGuesses, m, Said),
           Stream(events', EventSays, EventGuesses, Len(collected) + Len(drained), m),
           reader' = "reading" => named' \ (1 .. m) \subseteq awaiting',
           reader' = "finished" => named' \subseteq 1 .. m
    PROVE  IInv'
<1>1. Said' = Said
  BY DEF Said
<1>2. Types' /\ ProviderOK' /\ PumpOK'
  BY DEF IInv, Types, ProviderOK, PumpOK
<1>3. OutcomeOK'
  BY DEF IInv, OutcomeOK, TextIsWhatWasHeard, PumpOK, NoOutcome
<1>4. ReaderOK(m)'
  BY <1>1 DEF ReaderOK
<1> QED
  BY <1>2, <1>3, <1>4 DEF IInv

\* One step per frame a reader may read.
LEMMA ReaderInv == ASSUME IInv, ReaderStep PROVE IInv'
<1>1. PICK n \in Nat : ReaderOK(n)
  BY DEF IInv
<1>2. /\ reader = "reading" /\ pump \notin Ends /\ frames # <<>>
      /\ frames' = Tail(frames)
      /\ UNCHANGED <<ownerVars, pumpVars, providerVars>>
  BY DEF ReaderStep, ReadsItem, ReadsCompleted, ReadsTooSmall, ReadsEnd, ReadsResult,
     Reads, Ends
<1>3. PICK b \in Nat : b = Len(collected) + Len(drained)
  BY Taken DEF IInv
<1>4. /\ frames \in Seq(Parts) /\ events \in Seq(Parts) /\ Said \in Nat
      /\ b <= n /\ n <= Said
      /\ Stream(frames, FrameSays, FrameGuesses, n, Said)
      /\ Stream(events, EventSays, EventGuesses, b, n)
      /\ named \ (1 .. n) \subseteq awaiting
  BY <1>1, <1>2, <1>3, SaidIsNat DEF IInv, Types, ReaderOK
<1>5. NoDone(events)
  BY <1>2 DEF IInv, DoneOK, NoDone
<1>6. PICK e : e = Head(frames)
  OBVIOUS
<1>7. e \in Parts /\ frames' \in Seq(Parts)
  BY <1>2, <1>4, <1>6
<1>8. FrameSays \cap FrameGuesses = {} /\ EventSays \cap EventGuesses = {}
  BY DEF FrameSays, FrameGuesses, EventSays, EventGuesses
<1>9. /\ Says(e, FrameSays) => /\ e.item = n + 1 /\ n + 1 <= Said
                               /\ Stream(frames', FrameSays, FrameGuesses, n + 1, Said)
      /\ ~Says(e, FrameSays) => Stream(frames', FrameSays, FrameGuesses, n, Said)
      /\ e.type \in FrameGuesses => e.item \in 1 .. n + 1
  BY <1>2, <1>4, <1>6, <1>8, StreamTail
<1>10. PICK d : /\ d = Event("done") /\ d \in Parts /\ d.type = "done" /\ ~Says(d, EventSays)
                /\ d.type \notin EventGuesses
  <2>1. PICK d : d = Event("done")
    OBVIOUS
  <2>2. d \in Parts /\ d.type = "done"
    BY <2>1, Records DEF Event, Plain
  <2> QED
    BY <2>1, <2>2 DEF Says, EventSays, EventGuesses
<1>11. ASSUME NEW q \in Seq(Parts), NoDone(q), NEW m \in Nat, b <= m,
              Stream(q, EventSays, EventGuesses, b, m)
       PROVE  /\ Append(q, d) \in Seq(Parts)
              /\ Stream(Append(q, d), EventSays, EventGuesses, b, m)
              /\ \A i \in DOMAIN Append(q, d) :
                    Append(q, d)[i].type = "done" => i = Len(Append(q, d))
  <2>1. Append(q, d) \in Seq(Parts)
    BY <1>10, <1>11
  <2>2. Stream(Append(q, d), EventSays, EventGuesses, b, m)
    BY <1>8, <1>10, <1>11, StreamAppend
  <2>3. \A i \in DOMAIN Append(q, d) :
           Append(q, d)[i].type = "done" => i = Len(Append(q, d))
    BY <1>10, <1>11, DoneIsLast
  <2> QED
    BY <2>1, <2>2, <2>3
\* A guess is passed on.
<1>12. ASSUME NEW t \in FrameGuesses, e.type = t,
              events' = Append(events, EventOf("partial", e.item)), reader' = "reading",
              \/ awaiting' = awaiting \cup {e.item} /\ named' = named \cup {e.item}
              \/ UNCHANGED <<awaiting, named>>
       PROVE  IInv'
  <2>1. e.item \in 1 .. n + 1 /\ e.item \in Nat
    BY <1>9, <1>12
  <2>2. PICK p : p = EventOf("partial", e.item)
    OBVIOUS
  <2>3. p \in Parts /\ p.type = "partial" /\ p.item = e.item
    BY <2>1, <2>2, Records DEF EventOf, Plain
  <2>4. ~Says(p, EventSays) /\ p.type # "done"
    BY <2>3 DEF Says, EventSays
  <2>5. events' \in Seq(Parts) /\ Stream(events', EventSays, EventGuesses, b, n)
    <3>1. Append(events, p) \in Seq(Parts)
      BY <1>4, <2>3
    <3>2. Stream(Append(events, p), EventSays, EventGuesses, b, n)
      BY <1>4, <1>8, <2>1, <2>3, <2>4, StreamAppend
    <3> QED
      BY <1>12, <2>2, <3>1, <3>2
  <2>6. NoDone(events')
    BY <1>4, <1>5, <1>12, <2>2, <2>3, <2>4, DoneIsLast
  <2>7. DoneOK'
    BY <1>12, <2>6 DEF DoneOK, NoDone
  <2>8. Stream(frames', FrameSays, FrameGuesses, n, Said)
    BY <1>8, <1>9, <1>12 DEF Says
  <2>9. named' \ (1 .. n) \subseteq awaiting'
    BY <1>4, <1>12
  <2> QED
    BY <1>2, <1>3, <1>4, <1>7, <1>12, <2>5, <2>7, <2>8, <2>9, ReaderEffect
<1>13. CASE ReadsItem
  <2>1. CASE Reads("delta")
    BY <1>2, <1>6, <1>12, <1>13, <2>1 DEF ReadsItem, Reads, FrameGuesses
  <2>2. CASE ~Reads("delta")
    <3>1. /\ e.type = "named" /\ awaiting' = awaiting \cup {e.item}
          /\ named' = named \cup {e.item} /\ UNCHANGED <<reader, events>>
      BY <1>6, <1>13, <2>2 DEF ReadsItem, Reads
    <3>2. Stream(frames', FrameSays, FrameGuesses, n, Said)
      BY <1>9, <3>1 DEF Says, FrameSays
    <3>3. DoneOK'
      BY <1>2, <3>1 DEF IInv, DoneOK
    <3>4. named' \ (1 .. n) \subseteq awaiting'
      BY <1>4, <3>1
    <3> QED
      BY <1>2, <1>3, <1>4, <1>7, <3>1, <3>2, <3>3, <3>4, ReaderEffect
  <2> QED
    BY <2>1, <2>2
\* What completes a run or not.
<1>14. ASSUME NEW m \in Nat, b <= m, m <= Said, NEW q \in Seq(Parts), NoDone(q),
              Stream(frames', FrameSays, FrameGuesses, m, Said),
              Stream(q, EventSays, EventGuesses, b, m),
              named' \ (1 .. m) \subseteq awaiting',
              IF commitPhase /\ awaiting' = {}
              THEN reader' = "finished" /\ events' = Append(q, d)
              ELSE reader' = reader /\ events' = q
       PROVE  IInv'
  <2>1. CASE commitPhase /\ awaiting' = {}
    <3>1. /\ events' \in Seq(Parts) /\ reader' = "finished"
          /\ Stream(events', EventSays, EventGuesses, b, m)
          /\ \A i \in DOMAIN events' : events'[i].type = "done" => i = Len(events')
      BY <1>11, <1>14, <2>1
    <3>2. DoneOK'
      BY <3>1 DEF DoneOK
    <3>3. named' \subseteq 1 .. m
      BY <1>14, <2>1
    <3> QED
      BY <1>2, <1>3, <1>7, <1>14, <3>1, <3>2, <3>3, ReaderEffect
  <2>2. CASE ~(commitPhase /\ awaiting' = {})
    <3>1. DoneOK'
      BY <1>2, <1>14, <2>2 DEF DoneOK, NoDone
    <3> QED
      BY <1>2, <1>3, <1>7, <1>14, <2>2, <3>1, ReaderEffect
  <2> QED
    BY <2>1, <2>2
\* An item is passed on.
<1>15. ASSUME Says(e, FrameSays)
       PROVE  \E u : /\ u = EventOf("utterance", e.item) /\ u \in Parts
                     /\ Append(events, u) \in Seq(Parts) /\ NoDone(Append(events, u))
                     /\ Stream(Append(events, u), EventSays, EventGuesses, b, n + 1)
  <2>1. e.item = n + 1 /\ e.item \in Nat
    BY <1>9, <1>15
  <2>2. PICK u : u = EventOf("utterance", e.item)
    OBVIOUS
  <2>3. u \in Parts /\ u.type = "utterance" /\ u.item = n + 1
    BY <2>1, <2>2, Records DEF EventOf
  <2>4. Says(u, EventSays) /\ u.type # "done"
    BY <2>1, <2>3, RealtimeAssumption DEF Says, EventSays
  <2>5. Stream(Append(events, u), EventSays, EventGuesses, b, n + 1)
    BY <1>4, <1>8, <2>3, <2>4, StreamAppend
  <2>6. Append(events, u) \in Seq(Parts) /\ NoDone(Append(events, u))
    BY <1>4, <1>5, <2>3, <2>4, DoneIsLast
  <2> QED
    BY <2>2, <2>3, <2>5, <2>6
<1>16. CASE ReadsCompleted
  <2>1. e.type = "completed" /\ awaiting' = awaiting \ {e.item} /\ named' = named
    BY <1>6, <1>16 DEF ReadsCompleted, Reads
  <2>2. Says(e, FrameSays)
    BY <1>7, <2>1 DEF Says, FrameSays, Parts
  <2>3. PICK u : /\ u = EventOf("utterance", e.item) /\ u \in Parts
                 /\ Append(events, u) \in Seq(Parts) /\ NoDone(Append(events, u))
                 /\ Stream(Append(events, u), EventSays, EventGuesses, b, n + 1)
    BY <1>15, <2>2
  <2>4. IF commitPhase /\ awaiting' = {}
        THEN reader' = "finished" /\ events' = Append(Append(events, u), d)
        ELSE reader' = reader /\ events' = Append(events, u)
    <3>1. events \o <<u>> \o <<d>> = Append(Append(events, u), d)
          /\ events \o <<u>> = Append(events, u)
      BY <1>4, <1>10, <2>3, Pushes
    <3> QED
      BY <1>6, <1>10, <1>16, <2>1, <2>3, <3>1 DEF ReadsCompleted, Completes
  <2>5. named' \ (1 .. n + 1) \subseteq awaiting'
    <3>1. 1 .. n + 1 = (1 .. n) \cup {n + 1}
      OBVIOUS
    <3> QED
      BY <1>4, <1>9, <2>1, <2>2, <3>1
  <2>6. n + 1 \in Nat /\ b <= n + 1 /\ n + 1 <= Said
    BY <1>4, <1>9, <2>2
  <2> QED
    BY <1>9, <1>14, <2>2, <2>3, <2>4, <2>5, <2>6
<1>17. CASE ReadsTooSmall
  <2>1. e.type = "too_small" /\ UNCHANGED <<awaiting, named>>
    BY <1>6, <1>17 DEF ReadsTooSmall, Reads
  <2>2. Stream(frames', FrameSays, FrameGuesses, n, Said)
    BY <1>9, <2>1 DEF Says, FrameSays
  <2>3. IF commitPhase /\ awaiting' = {}
        THEN reader' = "finished" /\ events' = Append(events, d)
        ELSE reader' = reader /\ events' = events
    <3>1. events \o <<>> \o <<d>> = Append(events, d) /\ events \o <<>> = events
      BY <1>4, <1>10, Pushes
    <3> QED
      BY <1>10, <1>17, <2>1, <3>1 DEF ReadsTooSmall, Completes
  <2> QED
    BY <1>4, <1>5, <1>14, <2>1, <2>2, <2>3
<1>18. CASE ReadsEnd
  <2>1. /\ e.type \in {"close", "failed"} /\ UNCHANGED <<awaiting, named>>
        /\ reader' \in {"closed", "failed"}
        /\ \/ reader' = "closed" /\ events' = Append(events, Event("done"))
           \/ events' = events \o <<Event("failed"), Event("done")>>
    BY <1>6, <1>18 DEF ReadsEnd, Reads
  <2>2. Stream(frames', FrameSays, FrameGuesses, n, Said)
    BY <1>9, <2>1 DEF Says, FrameSays
  <2>3. CASE reader' = "closed" /\ events' = Append(events, Event("done"))
    <3>1. /\ events' \in Seq(Parts) /\ Stream(events', EventSays, EventGuesses, b, n)
          /\ \A i \in DOMAIN events' : events'[i].type = "done" => i = Len(events')
      BY <1>4, <1>5, <1>10, <1>11, <2>3
    <3>2. DoneOK'
      BY <2>3, <3>1 DEF DoneOK
    <3> QED
      BY <1>2, <1>3, <1>4, <1>7, <2>2, <2>3, <3>1, <3>2, ReaderEffect
  <2>4. CASE events' = events \o <<Event("failed"), Event("done")>>
    <3>1. PICK f : f = Event("failed")
      OBVIOUS
    <3>2. f \in Parts /\ f.type = "failed"
      BY <3>1, Records DEF Event, Plain
    <3>3. ~Says(f, EventSays) /\ f.type \notin EventGuesses
      BY <3>2 DEF Says, EventSays, EventGuesses
    <3>4. PICK q : q = Append(events, f)
      OBVIOUS
    <3>5. q \in Seq(Parts) /\ Stream(q, EventSays, EventGuesses, b, n)
      <4>1. q \in Seq(Parts)
        BY <1>4, <3>2, <3>4
      <4>2. Stream(q, EventSays, EventGuesses, b, n)
        BY <1>4, <1>8, <3>3, <3>4, StreamAppend
      <4> QED
        BY <4>1, <4>2
    <3>6. NoDone(q) /\ \E i \in DOMAIN q : q[i] = f
      <4>1. events \in Seq(Parts) /\ NoDone(events) /\ f.type # "done"
        BY <1>4, <1>5, <3>2
      <4> QED
        BY <3>2, <3>4, <4>1, DoneIsLast
    <3>7. events' = Append(q, d)
      BY <1>4, <1>10, <2>4, <3>1, <3>2, <3>4, Pushes
    <3>8. /\ events' \in Seq(Parts) /\ Stream(events', EventSays, EventGuesses, b, n)
          /\ \A i \in DOMAIN events' : events'[i].type = "done" => i = Len(events')
      BY <1>4, <1>11, <3>5, <3>6, <3>7
    <3>9. \E i \in DOMAIN events' : events'[i].type = "failed"
      BY <1>10, <3>2, <3>5, <3>6, <3>7, DoneIsLast
    <3>10. DoneOK'
      BY <1>2, <2>1, <3>8, <3>9 DEF DoneOK
    <3> QED
      BY <1>2, <1>3, <1>4, <1>7, <2>1, <2>2, <3>8, <3>10, ReaderEffect
  <2> QED
    BY <2>1, <2>3, <2>4
<1>19. CASE ReadsResult
  <2>1. CASE Reads("text")
    BY <1>2, <1>6, <1>12, <1>19, <2>1 DEF ReadsResult, Reads, FrameGuesses
  <2>2. CASE ~Reads("text")
    <3>1. /\ e.type = "last" /\ reader' = "finished" /\ named' = {e.item} \ {None}
          /\ awaiting' = awaiting
          /\ events' = events \o (IF e.item = None THEN <<>>
                                  ELSE <<EventOf("utterance", e.item)>>) \o <<d>>
      BY <1>6, <1>10, <1>19, <2>2 DEF ReadsResult, Reads
    <3>2. CASE e.item = None
      <4>1. events' = Append(events, d)
        BY <1>4, <1>10, <3>1, <3>2, Pushes
      <4>2. Stream(frames', FrameSays, FrameGuesses, n, Said)
        BY <1>9, <3>2 DEF Says
      <4>3. /\ events' \in Seq(Parts) /\ Stream(events', EventSays, EventGuesses, b, n)
            /\ \A i \in DOMAIN events' : events'[i].type = "done" => i = Len(events')
        BY <1>4, <1>5, <1>11, <4>1
      <4>4. DoneOK' /\ named' = {}
        BY <3>1, <3>2, <4>3 DEF DoneOK
      <4> QED
        BY <1>2, <1>3, <1>4, <1>7, <3>1, <4>2, <4>3, <4>4, ReaderEffect
    <3>3. CASE e.item # None
      <4>1. Says(e, FrameSays)
        BY <3>1, <3>3 DEF Says, FrameSays
      <4>2. PICK u : /\ u = EventOf("utterance", e.item) /\ u \in Parts
                     /\ Append(events, u) \in Seq(Parts) /\ NoDone(Append(events, u))
                     /\ Stream(Append(events, u), EventSays, EventGuesses, b, n + 1)
        BY <1>15, <4>1
      <4>3. events' = Append(Append(events, u), d)
        BY <1>4, <1>10, <3>1, <3>3, <4>2, Pushes
      <4>4. n + 1 \in Nat /\ b <= n + 1 /\ n + 1 <= Said /\ e.item = n + 1
            /\ Stream(frames', FrameSays, FrameGuesses, n + 1, Said)
        BY <1>4, <1>9, <4>1
      <4>5. /\ events' \in Seq(Parts)
            /\ Stream(events', EventSays, EventGuesses, b, n + 1)
            /\ \A i \in DOMAIN events' : events'[i].type = "done" => i = Len(events')
        BY <1>11, <4>2, <4>3, <4>4
      <4>6. DoneOK' /\ named' \subseteq 1 .. n + 1
        BY <3>1, <4>4, <4>5 DEF DoneOK
      <4> QED
        BY <1>2, <1>3, <1>7, <3>1, <4>4, <4>5, <4>6, ReaderEffect
    <3> QED
      BY <3>2, <3>3
  <2> QED
    BY <2>1, <2>2
<1> QED
  BY <1>13, <1>16, <1>17, <1>18, <1>19 DEF ReaderStep

\* The outcome's text, whatever the pump has.
LEMMA MergedIs ==
    ASSUME Types, PumpOK, NEW state
    PROVE  /\ Merged(state) \in Seq(Nat) /\ InOrder(Merged(state))
           /\ state = "ok" =>
                1 .. Len(collected) + Len(drained) \subseteq 1 .. Len(Merged(state))
<1>1. PICK c \in Nat, b \in Nat : c = Len(collected) /\ b = Len(drained)
  BY Taken
<1>2. PICK s : s = collected \o drained
  OBVIOUS
<1>3. collected \in Seq(Nat) /\ drained \in Seq(Nat)
  BY DEF Types
<1>4. /\ s \in Seq(Nat) /\ Len(s) = c + b
      /\ \A i \in 1 .. c : s[i] = collected[i]
      /\ \A i \in c + 1 .. c + b : s[i] = drained[i - c]
  BY <1>1, <1>2, <1>3
<1>5. DOMAIN collected = 1 .. c /\ DOMAIN drained = 1 .. b
  BY <1>1, <1>3
<1>6. InOrder(s)
  <2>1. \A i \in 1 .. c + b : i \in 1 .. c \/ (i \in c + 1 .. c + b /\ i - c \in 1 .. b
                                                /\ c + (i - c) = i)
    OBVIOUS
  <2>2. \A i \in 1 .. c : s[i] = i
    BY <1>4, <1>5 DEF PumpOK
  <2>3. \A i \in c + 1 .. c + b : s[i] = c + (i - c)
    <3>1. \A j \in 1 .. b : drained[j] = c + j
      BY <1>1, <1>5 DEF PumpOK
    <3>2. \A i \in c + 1 .. c + b : i - c \in 1 .. b
      OBVIOUS
    <3>3. \A i \in c + 1 .. c + b : drained[i - c] = c + (i - c)
      BY <3>1, <3>2
    <3> QED
      BY <1>4, <3>3
  <2> QED
    BY <1>4, <2>1, <2>2, <2>3 DEF InOrder
<1>7. InOrder(collected)
  BY <1>1, <1>5 DEF InOrder, PumpOK
<1>8. CASE kind = "meeting" \/ s # <<>> \/ trailing = None
  <2>1. Merged(state) = collected \o (IF state = "ok" THEN drained ELSE <<>>)
    BY <1>2, <1>8 DEF Merged
  <2>2. collected \o <<>> = collected
    BY <1>3
  <2>3. Merged(state) = IF state = "ok" THEN s ELSE collected
    BY <1>2, <2>1, <2>2
  <2> QED
    BY <1>1, <1>3, <1>4, <1>6, <1>7, <2>3
<1>9. CASE ~(kind = "meeting" \/ s # <<>> \/ trailing = None)
  <2>1. Merged(state) = <<trailing>> /\ s = <<>> /\ trailing # None
    BY <1>2, <1>9 DEF Merged
  <2>2. c + b = 0
    BY <1>4, <2>1
  <2>3. trailing = 1
    BY <1>1, <2>1, <2>2 DEF PumpOK
  <2>4. InOrder(<<1>>) /\ <<1>> \in Seq(Nat)
    BY DEF InOrder
  <2>5. 1 .. c + b = {}
    BY <2>2
  <2> QED
    BY <1>1, <2>1, <2>3, <2>4, <2>5
<1> QED
  BY <1>8, <1>9

\* The pump ends, of a failure or with all it was told of.
LEMMA PumpOver ==
    ASSUME IInv, NEW n \in Nat, ReaderOK(n), pump \notin Ends,
           NEW state \in {"ok", "failed"}, NEW by, Over(state, by),
           UNCHANGED <<ownerVars, taken, sent, commit, commitPhase, collected, drained,
                       trailing, readerVars, frames, providerVars>>,
           events' \in Seq(Parts),
           Stream(events', EventSays, EventGuesses, Len(collected) + Len(drained), n),
           \A i \in DOMAIN events' :
              events'[i].type = "done" => i = Len(events') /\ reader # "reading",
           state = "ok" => /\ reader # "failed"
                           /\ reader = "finished" /\ by = "event" =>
                                 named \subseteq 1 .. Len(collected) + Len(drained)
    PROVE  IInv'
<1>1. Types /\ PumpOK
  BY DEF IInv
<1>2. /\ pump' = "over" /\ outcome'.state = state /\ outcome'.by = by
      /\ outcome'.text = IF state = "ok" \/ kind = "meeting" THEN Merged(state) ELSE <<>>
  BY DEF Over
<1>3. /\ Merged(state) \in Seq(Nat) /\ InOrder(Merged(state))
      /\ state = "ok" =>
                1 .. Len(collected) + Len(drained) \subseteq 1 .. Len(Merged(state))
  BY <1>1, MergedIs
<1>4. <<>> \in Seq(Nat) /\ InOrder(<<>>)
  BY DEF InOrder
<1>5. outcome'.text \in Seq(Nat) /\ InOrder(outcome'.text)
  BY <1>2, <1>3, <1>4
<1>6. Types'
  BY <1>1, <1>5 DEF Types
<1>7. ProviderOK'
  BY DEF IInv, ProviderOK
<1>8. PumpOK'
  BY <1>1, <1>2 DEF PumpOK, Ends
<1>9. DoneOK'
  BY <1>2 DEF DoneOK, Ends
<1>10. OutcomeOK'
  <2>1. InOrder(result.text)
    BY DEF IInv, OutcomeOK, TextIsWhatWasHeard
  <2>2. ~(result.state = "ok" /\ kind = "dictation")
    BY DEF IInv, OutcomeOK
  <2>3. ASSUME state = "ok", reader = "finished", by = "event"
        PROVE  named \subseteq 1 .. Len(outcome'.text)
    <3>1. named \subseteq 1 .. Len(collected) + Len(drained)
      BY <2>3
    <3> QED
      BY <1>2, <1>3, <2>3, <3>1
  <2> QED
    BY <1>2, <1>5, <2>1, <2>2, <2>3 DEF OutcomeOK, TextIsWhatWasHeard
<1>11. ReaderOK(n)'
  <2>1. Said' = Said
    BY DEF Said
  <2> QED
    BY <2>1 DEF ReaderOK
<1> QED
  BY <1>6, <1>7, <1>8, <1>9, <1>10, <1>11 DEF IInv

\* The pump takes an event and goes on.
LEMMA PumpGoesOn ==
    ASSUME IInv, NEW n \in Nat, ReaderOK(n), pump \notin Ends,
           events # <<>>, Head(events).type # "failed", events' = Tail(events),
           UNCHANGED <<ownerVars, pump, taken, sent, commit, commitPhase, outcome,
                       readerVars, frames, providerVars>>,
           collected' \in Seq(Nat), drained' \in Seq(Nat), trailing' \in Nat \cup {None},
           PumpOK', Len(collected') + Len(drained') <= n,
           Stream(events', EventSays, EventGuesses, Len(collected') + Len(drained'), n),
           reader = "failed" => Head(events).type # "done"
    PROVE  IInv'
<1>1. events \in Seq(Parts) /\ events' \in Seq(Parts)
  BY DEF IInv, Types
<1>2. Types' /\ ProviderOK'
  BY <1>1 DEF IInv, Types, ProviderOK
<1>3. DoneOK'
  <2>1. PICK k \in Nat : k = Len(events) /\ k >= 1 /\ DOMAIN events = 1 .. k
    BY <1>1
  <2>2. PICK r : /\ r = Tail(events) /\ Len(r) = k - 1 /\ DOMAIN r = 1 .. k - 1
                 /\ \A i \in 1 .. k - 1 : r[i] = events[i + 1]
    <3>1. /\ Len(Tail(events)) = Len(events) - 1
          /\ DOMAIN Tail(events) = 1 .. Len(events) - 1
          /\ \A i \in 1 .. Len(events) - 1 : Tail(events)[i] = events[i + 1]
      BY <1>1
    <3> QED
      BY <2>1, <3>1
  <2>3. \A i \in 1 .. k - 1 : i + 1 \in 1 .. k /\ (i + 1 = k => i = k - 1)
    OBVIOUS
  <2>4. \A i \in 1 .. k - 1 : r[i].type = "done" => i = k - 1 /\ reader # "reading"
    BY <2>1, <2>2, <2>3 DEF IInv, DoneOK
  <2>5. ASSUME reader = "failed" PROVE \E i \in 1 .. k - 1 : r[i].type = "failed"
    <3>1. PICK i \in 1 .. k : events[i].type = "failed"
      BY <2>1, <2>5 DEF IInv, DoneOK
    <3>2. i # 1 /\ i - 1 \in 1 .. k - 1 /\ i - 1 + 1 = i
      BY <2>1, <3>1
    <3> QED
      BY <2>2, <3>1, <3>2
  <2> QED
    BY <2>2, <2>4, <2>5 DEF DoneOK
<1>4. OutcomeOK'
  BY DEF IInv, OutcomeOK, TextIsWhatWasHeard
<1>5. ReaderOK(n)'
  <2>1. Said' = Said
    BY DEF Said
  <2> QED
    BY <2>1 DEF ReaderOK
<1> QED
  BY <1>2, <1>3, <1>4, <1>5 DEF IInv

\* One step per action of the pump.
LEMMA PumpInv == ASSUME IInv, PumpStep PROVE IInv'
<1>1. PICK n \in Nat : ReaderOK(n)
  BY DEF IInv
<1>2. PICK c \in Nat, b \in Nat : c = Len(collected) /\ b = c + Len(drained) /\ b >= c
  BY Taken DEF IInv
<1>3. /\ collected \in Seq(Nat) /\ drained \in Seq(Nat) /\ trailing \in Nat \cup {None}
      /\ events \in Seq(Parts) /\ heard \in Nat /\ b <= n
      /\ Stream(events, EventSays, EventGuesses, b, n)
      /\ DOMAIN collected = 1 .. c /\ DOMAIN drained = 1 .. b - c
      /\ PumpOK
  <2>1. collected \in Seq(Nat) /\ drained \in Seq(Nat)
    BY DEF IInv, Types
  <2> QED
    BY <1>1, <1>2, <2>1 DEF IInv, Types, ReaderOK
<1>4. EventSays \cap EventGuesses = {}
  BY DEF EventSays, EventGuesses
<1>5. \A i \in DOMAIN events :
         events[i].type = "done" => i = Len(events) /\ reader # "reading"
  BY DEF IInv, DoneOK
\* What taking the first event does to the stream.
<1>6. ASSUME events # <<>>
      PROVE  /\ Head(events) \in Parts /\ Tail(events) \in Seq(Parts)
             /\ Head(events).type = "utterance" =>
                   /\ Head(events).item = b + 1 /\ b + 1 <= n
                   /\ Stream(Tail(events), EventSays, EventGuesses, b + 1, n)
             /\ Head(events).type # "utterance" =>
                   Stream(Tail(events), EventSays, EventGuesses, b, n)
             /\ Head(events).type = "partial" => Head(events).item \in 1 .. b + 1
             /\ \A i \in DOMAIN Tail(events) : Tail(events)[i].type = "done" =>
                   i = Len(Tail(events)) /\ reader # "reading"
             /\ Head(events).type = "done" => Tail(events) = <<>>
  <2>1. Head(events) \in Parts /\ Tail(events) \in Seq(Parts) /\ Head(events) = events[1]
    BY <1>3, <1>6
  <2>2. Head(events).type = "utterance" <=> Says(Head(events), EventSays)
    BY <2>1 DEF Says, EventSays, Parts
  <2>3. PICK k \in Nat : k = Len(events) /\ k >= 1 /\ DOMAIN events = 1 .. k
    BY <1>3, <1>6
  <2>4. /\ Len(Tail(events)) = k - 1 /\ DOMAIN Tail(events) = 1 .. k - 1
        /\ \A i \in 1 .. k - 1 : Tail(events)[i] = events[i + 1]
    BY <1>3, <1>6, <2>3
  <2>5. \A i \in 1 .. k - 1 : i + 1 \in 1 .. k /\ (i + 1 = k => i = k - 1)
    OBVIOUS
  <2>6. \A i \in DOMAIN Tail(events) : Tail(events)[i].type = "done" =>
                   i = Len(Tail(events)) /\ reader # "reading"
    BY <1>5, <2>3, <2>4, <2>5
  <2>7. Head(events).type = "done" => Tail(events) = <<>>
    <3>1. Head(events).type = "done" => k = 1
      BY <1>5, <2>1, <2>3
    <3>2. k = 1 => Len(Tail(events)) = 0
      BY <2>4
    <3>3. \A q \in Seq(Parts) : Len(q) = 0 => q = <<>>
      OBVIOUS
    <3> QED
      BY <2>1, <3>1, <3>2, <3>3
  <2>8. /\ Says(Head(events), EventSays) =>
              /\ Head(events).item = b + 1 /\ b + 1 <= n
              /\ Stream(Tail(events), EventSays, EventGuesses, b + 1, n)
        /\ ~Says(Head(events), EventSays) =>
              Stream(Tail(events), EventSays, EventGuesses, b, n)
        /\ Head(events).type \in EventGuesses => Head(events).item \in 1 .. b + 1
    BY <1>1, <1>2, <1>3, <1>4, <1>6, StreamTail
  <2> QED
    BY <2>1, <2>2, <2>6, <2>7, <2>8 DEF EventGuesses
<1>7. CASE Connects \/ PumpTakesChunk \/ SendsChunk \/ PumpLoops \/ PumpEnds \/ FlushesTail
           \/ Commits \/ EntersCommitPhase \/ JoinsBridge
  BY <1>3, <1>7, QuietInv DEF Connects, PumpTakesChunk, SendsChunk, PumpLoops, PumpEnds, FlushesTail,
     Commits, EntersCommitPhase, JoinsBridge, PumpAt, Ends
<1>8. CASE ConnectFails \/ SendFails
  <2>1. PICK by : Over("failed", by)
    BY <1>8 DEF ConnectFails, SendFails
  <2>2. pump \notin Ends /\ UNCHANGED <<ownerVars, taken, sent, commit, commitPhase,
            collected, drained, trailing, readerVars, events, frames, providerVars>>
    BY <1>8 DEF ConnectFails, SendFails, Ends
  <2> QED
    BY <1>1, <1>2, <1>3, <1>5, <2>1, <2>2, PumpOver
\* The pump learns of a failure.
<1>9. ASSUME pump \notin Ends, events # <<>>, Head(events).type = "failed",
             events' = Tail(events), Over("failed", "event"),
             UNCHANGED <<ownerVars, taken, sent, commit, commitPhase, collected, drained,
                         trailing, readerVars, frames, providerVars>>
      PROVE  IInv'
  BY <1>1, <1>2, <1>6, <1>9, PumpOver
\* A failed reader's "done" is not first.
<1>10. ASSUME pump \notin Ends, events # <<>>, Head(events).type = "done"
       PROVE  reader # "failed"
  <2>1. \A i \in DOMAIN events : i = 1
    <3>1. DOMAIN events = 1 .. Len(events) /\ 1 \in DOMAIN events
          /\ Head(events) = events[1] /\ Len(events) \in Nat
      BY <1>3, <1>10
    <3>2. Len(events) = 1
      BY <1>5, <1>10, <3>1
    <3> QED
      BY <3>1, <3>2
  <2>2. Head(events) = events[1]
    BY <1>3, <1>10
  <2> QED
    BY <1>10, <2>1, <2>2 DEF IInv, DoneOK
<1>11. CASE PumpTakesEvent
  <2>1. /\ pump = "polling" /\ pump \notin Ends /\ events # <<>> /\ events' = Tail(events)
        /\ drained = <<>> /\ trailing = None /\ b = c
        /\ UNCHANGED <<ownerVars, taken, sent, commit, commitPhase, drained, trailing,
                       readerVars, frames, providerVars>>
    <3>1. pump = "polling" /\ pump \notin Ends
      BY <1>11 DEF PumpTakesEvent, Ends
    <3>2. drained = <<>> /\ trailing = None
      BY <1>3, <3>1 DEF PumpOK
    <3> QED
      BY <1>2, <1>11, <3>1, <3>2 DEF PumpTakesEvent
  <2>2. CASE Head(events).type \in {"partial", "done"} /\ UNCHANGED <<pump, collected, outcome>>
    <3>1. PumpOK'
      BY <1>3, <2>1, <2>2 DEF PumpOK
    <3>2. Stream(events', EventSays, EventGuesses, b, n)
      BY <1>6, <2>1, <2>2
    <3> QED
      BY <1>1, <1>2, <1>3, <1>10, <2>1, <2>2, <3>1, <3>2, PumpGoesOn
  <2>3. CASE /\ Head(events).type = "utterance"
             /\ collected' = Append(collected, Head(events).item)
             /\ UNCHANGED <<pump, outcome>>
    <3>1. /\ Head(events).item = c + 1 /\ c + 1 <= n
          /\ Stream(events', EventSays, EventGuesses, c + 1, n)
      BY <1>6, <2>1, <2>3
    <3>2. /\ collected' \in Seq(Nat) /\ Len(collected') = c + 1
          /\ DOMAIN collected' = 1 .. c + 1
          /\ \A i \in 1 .. c : collected'[i] = collected[i]
          /\ collected'[c + 1] = c + 1
      <4>1. \A s \in Seq(Nat), x \in Nat :
              /\ Append(s, x) \in Seq(Nat) /\ Len(Append(s, x)) = Len(s) + 1
              /\ DOMAIN Append(s, x) = 1 .. Len(s) + 1
              /\ \A i \in 1 .. Len(s) : Append(s, x)[i] = s[i]
              /\ Append(s, x)[Len(s) + 1] = x
        OBVIOUS
      <4> QED
        BY <1>2, <1>3, <2>3, <3>1, <4>1
    <3>3. \A i \in DOMAIN collected' : collected'[i] = i
      <4>1. \A i \in 1 .. c + 1 : i \in 1 .. c \/ i = c + 1
        OBVIOUS
      <4> QED
        BY <1>3, <3>2, <4>1 DEF PumpOK
    <3>4. drained' = <<>> /\ Len(drained') = 0 /\ DOMAIN drained' = {}
      BY <2>1
    <3>5. PumpOK'
      BY <1>3, <2>1, <2>3, <3>3, <3>4 DEF PumpOK
    <3>6. Len(collected') + Len(drained') = c + 1
      BY <3>2, <3>4
    <3> QED
      BY <1>1, <1>3, <2>1, <2>3, <3>1, <3>2, <3>5, <3>6, PumpGoesOn
  <2>4. CASE Head(events).type = "failed" /\ Over("failed", "event") /\ UNCHANGED collected
    BY <1>9, <2>1, <2>4
  <2> QED
    BY <1>11, <2>2, <2>3, <2>4 DEF PumpTakesEvent
<1>12. CASE DrainsEvent
  <2>1. /\ pump = "draining" /\ pump \notin Ends /\ events # <<>> /\ events' = Tail(events)
        /\ UNCHANGED <<ownerVars, taken, sent, commit, commitPhase, collected,
                       readerVars, frames, providerVars>>
    BY <1>12 DEF DrainsEvent, Ends
  <2>2. CASE /\ Head(events).type = "partial" /\ trailing' = Head(events).item
             /\ UNCHANGED <<pump, drained, outcome>>
    <3>1. trailing' \in 1 .. b + 1 /\ trailing' \in Nat
      BY <1>6, <2>1, <2>2
    <3>2. PumpOK'
      BY <1>2, <1>3, <2>1, <2>2, <3>1 DEF PumpOK
    <3>3. Stream(events', EventSays, EventGuesses, b, n)
      BY <1>6, <2>1, <2>2
    <3> QED
      BY <1>1, <1>2, <1>3, <2>1, <2>2, <3>1, <3>2, <3>3, PumpGoesOn
  <2>3. CASE /\ Head(events).type = "utterance"
             /\ drained' = Append(drained, Head(events).item)
             /\ UNCHANGED <<pump, trailing, outcome>>
    <3>1. /\ Head(events).item = b + 1 /\ b + 1 <= n
          /\ Stream(events', EventSays, EventGuesses, b + 1, n)
      BY <1>6, <2>1, <2>3
    <3>2. PICK l \in Nat : l = Len(drained) /\ b = c + l /\ DOMAIN drained = 1 .. l
      <4>1. \A s \in Seq(Nat) : Len(s) \in Nat /\ DOMAIN s = 1 .. Len(s)
        OBVIOUS
      <4>2. Len(drained) \in Nat /\ DOMAIN drained = 1 .. Len(drained)
        BY <1>3, <4>1
      <4> QED
        BY <1>2, <4>2
    <3>3. /\ drained' \in Seq(Nat) /\ Len(drained') = l + 1
          /\ DOMAIN drained' = 1 .. l + 1
          /\ \A i \in 1 .. l : drained'[i] = drained[i]
          /\ drained'[l + 1] = b + 1
      <4>1. \A s \in Seq(Nat), x \in Nat :
              /\ Append(s, x) \in Seq(Nat) /\ Len(Append(s, x)) = Len(s) + 1
              /\ DOMAIN Append(s, x) = 1 .. Len(s) + 1
              /\ \A i \in 1 .. Len(s) : Append(s, x)[i] = s[i]
              /\ Append(s, x)[Len(s) + 1] = x
        OBVIOUS
      <4> QED
        BY <1>2, <1>3, <2>3, <3>1, <3>2, <4>1
    <3>4. \A i \in DOMAIN drained' : drained'[i] = Len(collected) + i
      <4>1. \A i \in 1 .. l + 1 : i \in 1 .. l \/ i = l + 1
        OBVIOUS
      <4>2. c + (l + 1) = b + 1
        BY <3>2
      <4> QED
        BY <1>2, <1>3, <3>2, <3>3, <4>1, <4>2 DEF PumpOK
    <3>5. Len(collected') + Len(drained') = b + 1
      BY <1>2, <2>1, <3>2, <3>3
    <3>6. PumpOK'
      <4>1. trailing # None => trailing \in 1 .. b + 2
        <5>1. trailing # None => trailing \in 1 .. b + 1
          BY <1>2, <1>3 DEF PumpOK
        <5> QED
          BY <5>1
      <4>2. b + 1 + 1 = b + 2
        OBVIOUS
      <4> QED
        BY <1>3, <2>1, <2>3, <3>4, <3>5, <4>1, <4>2 DEF PumpOK
    <3> QED
      BY <1>1, <1>3, <2>1, <2>3, <3>1, <3>3, <3>5, <3>6, PumpGoesOn
  <2>4. CASE Head(events).type = "done" /\ Over("ok", "event") /\ UNCHANGED <<drained, trailing>>
    <3>1. reader # "failed" /\ Tail(events) = <<>>
      BY <1>6, <1>10, <2>1, <2>4
    <3>2. Stream(events', EventSays, EventGuesses, b, n) /\ DOMAIN events' = {}
      BY <1>6, <2>1, <2>4, <3>1
    <3>3. b = n
      BY <1>2, <1>3, <3>2 DEF Stream
    <3>4. reader = "finished" => named \subseteq 1 .. b
      BY <1>1, <3>3 DEF ReaderOK
    <3> QED
      BY <1>1, <1>2, <1>6, <2>1, <2>4, <3>1, <3>2, <3>4, PumpOver
  <2>5. CASE Head(events).type = "failed" /\ Over("failed", "event")
             /\ UNCHANGED <<drained, trailing>>
    BY <1>9, <2>1, <2>5
  <2> QED
    BY <1>12, <2>2, <2>3, <2>4, <2>5 DEF DrainsEvent
<1>13. CASE DrainEnds
  <2>1. /\ pump = "draining" /\ pump \notin Ends /\ events = <<>> /\ events' = events
        /\ UNCHANGED <<ownerVars, taken, sent, commit, commitPhase, collected, drained,
                       trailing, readerVars, frames, providerVars>>
    BY <1>13 DEF DrainEnds, Ends
  <2>2. PICK by : Over("ok", by)
    BY <1>13 DEF DrainEnds
  <2>3. DOMAIN events = {}
    BY <2>1
  <2>4. reader # "failed"
    BY <2>1, <2>3 DEF IInv, DoneOK
  <2>5. b = n
    BY <1>2, <1>3, <2>3 DEF Stream
  <2>6. reader = "finished" => named \subseteq 1 .. b
    BY <1>1, <2>5 DEF ReaderOK
  <2> QED
    BY <1>1, <1>2, <1>3, <2>1, <2>2, <2>3, <2>4, <2>6, PumpOver
<1> QED
  BY <1>7, <1>8, <1>11, <1>12, <1>13 DEF PumpStep, WireStep, PumpStepsAlone

\* The owner's steps leave the run's data alone, but for the result they make of it.
LEMMA OwnerInv == ASSUME IInv, OwnerStep PROVE IInv'
<1>1. CASE Speaks \/ Stops \/ FinishDropsTap \/ FinishSignals \/ AbortSignals
           \/ AbortDropsTap \/ Cancels \/ NextStartReplacesTap \/ NextStartReplacesHandle
  <2>1. heard \in Nat
    BY DEF IInv, Types
  <2> QED
    BY <1>1, <2>1, QuietInv DEF Speaks, Stops, FinishDropsTap, FinishSignals, AbortSignals,
       AbortDropsTap, Cancels, NextStartReplacesTap, NextStartReplacesHandle, Owner
\* The owner makes something of an outcome.
<1>2. ASSUME NEW o, o.text \in Seq(Nat), InOrder(o.text), result' = Answer(o),
             o.state = "ok" /\ kind = "dictation" => pump \in Ends /\ outcome.state = "ok",
             UNCHANGED <<kind, engine, pumpVars, readerVars, events, frames, providerVars>>
      PROVE  IInv'
  <2>1. PICK n \in Nat : ReaderOK(n)
    BY DEF IInv
  <2>2. <<>> \in Seq(Nat) /\ InOrder(<<>>)
    BY DEF InOrder
  <2>3. result'.text \in Seq(Nat) /\ InOrder(result'.text)
    BY <1>2, <2>2 DEF Answer
  <2>4. result'.state = "ok" /\ kind = "dictation" => pump \in Ends /\ outcome.state = "ok"
    BY <1>2 DEF Answer
  <2>5. Types' /\ ProviderOK' /\ PumpOK'
    BY <1>2, <2>3 DEF IInv, Types, ProviderOK, PumpOK
  <2>6. DoneOK'
    BY <1>2 DEF IInv, DoneOK
  <2>7. OutcomeOK'
    BY <1>2, <2>3, <2>4 DEF IInv, OutcomeOK, TextIsWhatWasHeard
  <2>8. ReaderOK(n)'
    <3>1. Said' = Said
      BY <1>2 DEF Said
    <3> QED
      BY <1>2, <2>1, <3>1 DEF ReaderOK
  <2> QED
    BY <2>5, <2>6, <2>7, <2>8 DEF IInv
<1>3. /\ outcome.text \in Seq(Nat) /\ InOrder(outcome.text)
      /\ collected \in Seq(Nat) /\ InOrder(collected)
  <2>1. collected \in Seq(Nat)
    BY DEF IInv, Types
  <2>2. DOMAIN collected = 1 .. Len(collected)
    BY <2>1
  <2> QED
    BY <2>1, <2>2 DEF IInv, Types, OutcomeOK, TextIsWhatWasHeard, PumpOK, InOrder
<1>4. CASE FinishReceives
  BY <1>2, <1>3, <1>4 DEF FinishReceives, Owner, Ends
<1>5. CASE FinishTimesOut
  <2>1. PICK o : /\ o = [state |-> "failed", by |-> "timeout",
                         text |-> IF pump = "over" THEN outcome.text ELSE collected]
                 /\ result' = Answer(o)
    BY <1>5 DEF FinishTimesOut
  <2>2. o.state = "failed" /\ o.text \in Seq(Nat) /\ InOrder(o.text)
    BY <1>3, <2>1
  <2> QED
    BY <1>2, <1>5, <2>1, <2>2 DEF FinishTimesOut, Owner
<1> QED
  BY <1>1, <1>4, <1>5 DEF OwnerStep, EndsRun

\* A new run has heard and said nothing.
LEMMA InitInv == Init => IInv
<1> SUFFICES ASSUME Init PROVE IInv
  OBVIOUS
<1>1. /\ collected = <<>> /\ drained = <<>> /\ frames = <<>> /\ events = <<>> /\ cuts = <<>>
      /\ trailing = None /\ outcome = NoOutcome /\ result = NoOutcome /\ named = {}
      /\ heard = 0 /\ answered = 0 /\ begun = FALSE /\ reader = "reading"
      /\ pump = "connecting" /\ engine \in {"openai_audio", "volcengine"}
      /\ kind \in {"dictation", "meeting"}
  BY DEF Init
<1>2. \A S : <<>> \in Seq(S)
  OBVIOUS
<1>3. NoOutcome.text = <<>> /\ NoOutcome.state = "none" /\ InOrder(<<>>)
  BY DEF NoOutcome, InOrder
<1>4. Types /\ ProviderOK
  BY <1>1, <1>2, <1>3 DEF Types, ProviderOK
<1>5. PumpOK /\ DoneOK
  BY <1>1 DEF PumpOK, DoneOK
<1>6. OutcomeOK
  BY <1>1, <1>3 DEF OutcomeOK, TextIsWhatWasHeard
<1>7. ReaderOK(0)
  <2>1. 0 + 1 .. 0 = {} /\ DOMAIN <<>> = {}
    OBVIOUS
  <2> QED
    BY <1>1, <2>1 DEF ReaderOK, Stream, Said
<1> QED
  BY <1>4, <1>5, <1>6, <1>7 DEF IInv

\* The four processes together.
LEMMA NextInv == ASSUME IInv, [Next]_vars PROVE IInv'
<1>1. CASE UNCHANGED vars
  <2>1. heard \in Nat
    BY DEF IInv, Types
  <2> QED
    BY <1>1, <2>1, QuietInv DEF vars
<1> QED
  BY <1>1, PumpInv, ReaderInv, ProviderInv, OwnerInv DEF Next

-----------------------------------------------------------------------------
(* Theorems *)

\* Every item said is, in order, with the pump, on its way to it or on its way to
\* the reader, in every interleaving of the owner, the pump, the reader and the
\* provider.
THEOREM Invariance == Spec => []IInv
<1>1. Init => IInv
  BY InitInv
<1>2. IInv /\ [Next]_vars => IInv'
  BY NextInv
<1> QED
  BY <1>1, <1>2, PTL DEF Spec

\* Whatever part of a run a text comes from, it is what was said from the beginning
\* on, each item once; a run its reader declared complete has every item.
THEOREM TextCorrect == Spec => []TextIsWhatWasHeard
<1>1. IInv => TextIsWhatWasHeard
  BY DEF IInv, OutcomeOK
<1> QED
  BY <1>1, Invariance, PTL

\* A failure the reader saw, whenever it came, makes the dictation fall back to its
\* samples.
THEOREM FailureCorrect == Spec => []FailureFallsBack
<1>1. IInv => FailureFallsBack
  <2>1. ASSUME IInv, kind = "dictation", reader = "failed"
        PROVE  outcome.state # "ok" /\ result.state # "ok"
    <3>1. outcome.state # "ok"
      BY <2>1 DEF IInv, DoneOK, PumpOK, NoOutcome
    <3> QED
      BY <2>1, <3>1 DEF IInv, OutcomeOK
  <2> QED
    BY <2>1 DEF FailureFallsBack
<1> QED
  BY <1>1, Invariance, PTL
==============================================================================
