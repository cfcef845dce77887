------------------------ MODULE LiveTranscriptProofs ------------------------
(***************************************************************************)
(* Proofs that the journal of a recording, cut anywhere, reads as the       *)
(* transcript the worker had at that line (JournalIsAMoment), and that one *)
(* that was written to its end reads as the log (ClosedJournalIsTheLog);   *)
(* and that the captions follow the log (WindowFollowsLog).                *)
(***************************************************************************)
EXTENDS LiveTranscript, TLAPS

HasLast(lines) ==
    \A s \in Mentioned(lines) :
        \E i \in About(lines, s) : \A j \in About(lines, s) : j <= i

(* A transcript after one more line.                                       *)
Amend(transcript, says) ==
    [s \in {m \in DOMAIN transcript \cup DOMAIN says :
                m \in DOMAIN says => says[m] # Silence}
        |-> IF s \in DOMAIN says THEN says[s] ELSE transcript[s]]

LEMMA WinnerIsLast ==
    ASSUME NEW n \in Nat, NEW lines, DOMAIN lines = 1 .. n,
           \A k \in 1 .. n : lines[k].seq = k,
           NEW s, NEW i \in About(lines, s),
           \A j \in About(lines, s) : j <= i
    PROVE  Winner(lines, s) = i
<1>1. About(lines, s) \subseteq 1 .. n
  BY DEF About
<1>2. \A j \in About(lines, s) : lines[j].seq = j /\ j \in Nat
  BY <1>1
<1>3. \A k \in About(lines, s) :
        (\A j \in About(lines, s) : lines[j].seq <= lines[k].seq) <=> k = i
  BY <1>2
<1> QED
  BY <1>3 DEF Winner

LEMMA LoadAppend ==
    ASSUME NEW n \in Nat, NEW old, NEW new, NEW says,
           DOMAIN old = 1 .. n, DOMAIN new = 1 .. n + 1,
           \A k \in 1 .. n : old[k].seq = k,
           \A k \in 1 .. n : new[k] = old[k],
           new[n + 1].seq = n + 1, new[n + 1].says = says,
           HasLast(old)
    PROVE  /\ HasLast(new)
           /\ Load(new) = Amend(Load(old), says)
<1>1. \A k \in 1 .. n + 1 : new[k].seq = k
  OBVIOUS
<1>2. \A s : s \in DOMAIN says =>
        /\ n + 1 \in About(new, s)
        /\ \A j \in About(new, s) : j <= n + 1
  BY DEF About
<1>3. \A s : s \notin DOMAIN says => About(new, s) = About(old, s)
  <2>1. \A k \in 1 .. n + 1 : k \in 1 .. n \/ k = n + 1
    OBVIOUS
  <2>2. 1 .. n \subseteq 1 .. n + 1
    OBVIOUS
  <2> QED
    BY <2>1, <2>2 DEF About
<1>4. Mentioned(new) = Mentioned(old) \cup DOMAIN says
  <2>1. \A k \in 1 .. n + 1 : k \in 1 .. n \/ k = n + 1
    OBVIOUS
  <2>2. 1 .. n \subseteq 1 .. n + 1 /\ n + 1 \in 1 .. n + 1
    OBVIOUS
  <2> QED
    BY <2>1, <2>2 DEF Mentioned
<1>5. HasLast(new)
  BY <1>2, <1>3, <1>4 DEF HasLast
<1>6. ASSUME NEW s \in DOMAIN says
      PROVE  WinningText(new, s) = says[s]
  <2>1. Winner(new, s) = n + 1
    BY <1>1, <1>2, WinnerIsLast
  <2> QED
    BY <2>1 DEF WinningText
<1>7. ASSUME NEW s \in Mentioned(old), s \notin DOMAIN says
      PROVE  WinningText(new, s) = WinningText(old, s)
  <2>1. PICK i \in About(old, s) : \A j \in About(old, s) : j <= i
    BY DEF HasLast
  <2>2. Winner(old, s) = i
    BY <2>1, WinnerIsLast
  <2>3. i \in About(new, s) /\ \A j \in About(new, s) : j <= i
    BY <2>1, <1>3, <1>7
  <2>4. Winner(new, s) = i
    BY <2>3, <1>1, WinnerIsLast
  <2>5. new[i] = old[i]
    BY DEF About
  <2> QED
    BY <2>2, <2>4, <2>5 DEF WinningText
<1>8. DOMAIN Load(old) = {m \in Mentioned(old) : WinningText(old, m) # Silence}
  BY DEF Load
<1>9. \A s \in DOMAIN Load(old) : Load(old)[s] = WinningText(old, s)
  BY DEF Load
<1>10. {m \in Mentioned(new) : WinningText(new, m) # Silence}
       = {m \in DOMAIN Load(old) \cup DOMAIN says :
            m \in DOMAIN says => says[m] # Silence}
  BY <1>4, <1>6, <1>7, <1>8
<1>11. \A s \in {m \in Mentioned(new) : WinningText(new, m) # Silence} :
         WinningText(new, s)
         = IF s \in DOMAIN says THEN says[s] ELSE Load(old)[s]
  BY <1>4, <1>6, <1>7, <1>8, <1>9
<1> QED
  BY <1>5, <1>10, <1>11 DEF Load, Amend

-----------------------------------------------------------------------------
(* What a line or a transcript may say.                                    *)
Sayings == UNION {[D -> Texts \cup {Silence}] : D \in SUBSET (Tracks \X Nat)}
Lines == [seq : Nat, says : Sayings]

(* Every line that was sent and is not lost, in the file or on its way,    *)
(* and the first n of them.                                                *)
Sent == disk \o batch \o channel
Prefix(n) == [i \in 1 .. n |-> Sent[i]]

TrackerOK ==
    /\ utterance \in [Tracks -> Nat]
    /\ revision \in [Tracks -> Nat]
    /\ lastText \in [Tracks -> Texts \cup {Silence}]
    /\ \A t \in Tracks : revision[t] > 0 => lastText[t] \in Texts

LogOK ==
    /\ log \in Sayings
    /\ \A s \in DOMAIN log : Finished(s) /\ log[s] # Silence

(* An unfinished segment of the last checkpoint is one still announced.    *)
CheckpointOK ==
    /\ lastCheckpoint \in Sayings
    /\ \A s \in DOMAIN lastCheckpoint :
            /\ lastCheckpoint[s] # Silence
            /\ Finished(s) \/ (s = Current(s[1]) /\ revision[s[1]] > 0)

FlushOK ==
    /\ worker \in {"running", "flushing", "finishing", "ended"}
    /\ unflushed \in Seq(Tracks)
    /\ worker = "running" => unflushed = TrackOrder
    /\ \A t \in Tracks :
            revision[t] = 0 \/ \E i \in DOMAIN unflushed : unflushed[i] = t
    /\ worker \in {"finishing", "ended"} => unflushed = << >> /\ ~journaling

SequencesOK ==
    /\ disk \in Seq(Lines) /\ batch \in Seq(Lines) /\ channel \in Seq(Lines)
    /\ moments \in Seq(Sayings)
    /\ seq \in Nat
    /\ journaling \in BOOLEAN
    /\ writer \in {"running", "failed", "ended", "absent"}

ReadsOK ==
    /\ \A i \in 1 .. Len(Sent) : Sent[i].seq = i
    /\ Len(Sent) < Len(moments)
    /\ \A n \in 0 .. Len(Sent) :
            HasLast(Prefix(n)) /\ Load(Prefix(n)) = moments[n + 1]

(* As long as the writer lives, what was sent is all there is to say.      *)
WriterOK ==
    /\ writer \in {"running", "ended"} =>
            /\ Len(moments) = Len(Sent) + 1
            /\ moments[Len(moments)] = Transcript
    /\ writer = "running" =>
            seq = Len(Sent) /\ (journaling \/ worker \in {"finishing", "ended"})
    /\ writer # "running" => batch = << >> /\ channel = << >>
    /\ writer = "ended" => worker \in {"finishing", "ended"}
    /\ worker = "ended" => writer # "running"

JournalOK == SequencesOK /\ ReadsOK /\ WriterOK

IInv ==
    /\ TrackerOK /\ LogOK /\ CheckpointOK /\ FlushOK
    /\ crashed \in BOOLEAN
    /\ ~crashed => JournalOK
    /\ crashed => JournalIsAMoment /\ worker # "ended"


LEMMA TranscriptSays ==
    ASSUME LogOK, CheckpointOK
    PROVE  Transcript \in Sayings
<1> DEFINE D == DOMAIN log \cup {u \in DOMAIN lastCheckpoint : ~Finished(u)}
<1>1. DOMAIN log \subseteq Tracks \X Nat
      /\ \A s \in DOMAIN log : log[s] \in Texts \cup {Silence}
  BY DEF LogOK, Sayings
<1>2. DOMAIN lastCheckpoint \subseteq Tracks \X Nat
      /\ \A s \in DOMAIN lastCheckpoint : lastCheckpoint[s] \in Texts \cup {Silence}
  BY DEF CheckpointOK, Sayings
<1>3. D \in SUBSET (Tracks \X Nat)
  BY <1>1, <1>2
<1>4. Transcript \in [D -> Texts \cup {Silence}]
  BY <1>1, <1>2 DEF Transcript
<1> QED
  BY <1>3, <1>4 DEF Sayings

(* Finishing a segment says of it what the log then has.                   *)
LEMMA FinishAmends ==
    ASSUME TrackerOK, LogOK, CheckpointOK, NEW t \in Tracks,
           NEW text \in Texts \cup {Silence},
           utterance' = [utterance EXCEPT ![t] = utterance[t] + 1],
           log' = Note(log, Current(t), text),
           lastCheckpoint' = lastCheckpoint
    PROVE  /\ Transcript' = Amend(Transcript, [s \in {Current(t)} |-> text])
           /\ \A s \in Tracks \X Nat :
                Finished(s)' <=> Finished(s) \/ s = Current(t)
           /\ LogOK'
<1> DEFINE cur == Current(t)
           says == [s \in {cur} |-> text]
<1>0. utterance \in [Tracks -> Nat]
  BY DEF TrackerOK
<1>1. cur \in Tracks \X Nat /\ cur[1] = t /\ cur[2] = utterance[t] /\ ~Finished(cur)
  BY <1>0 DEF Current, Finished
<1>2. ASSUME NEW s \in Tracks \X Nat
      PROVE  Finished(s)' <=> Finished(s) \/ s = cur
  <2>1. s[1] \in Tracks /\ s[2] \in Nat /\ s = <<s[1], s[2]>>
    OBVIOUS
  <2>2. utterance'[s[1]] = IF s[1] = t THEN utterance[t] + 1 ELSE utterance[s[1]]
    BY <1>0, <2>1
  <2>3. CASE s[1] = t
    <3>1. s = cur <=> s[2] = utterance[t]
      BY <2>1, <2>3, <1>1 DEF Current
    <3> QED
      BY <1>0, <2>1, <2>2, <2>3, <3>1 DEF Finished
  <2>4. CASE s[1] # t
    BY <1>1, <2>2, <2>4 DEF Finished
  <2> QED
    BY <2>3, <2>4
<1>3. DOMAIN log \subseteq Tracks \X Nat
      /\ \A s \in DOMAIN log : Finished(s) /\ log[s] \in Texts \cup {Silence}
                               /\ log[s] # Silence
  BY DEF LogOK, Sayings
<1>4. DOMAIN lastCheckpoint \subseteq Tracks \X Nat
  BY DEF CheckpointOK, Sayings
<1>5. cur \notin DOMAIN log
  BY <1>1, <1>3
<1>6. DOMAIN log' = DOMAIN log \cup (IF text = Silence THEN {} ELSE {cur})
      /\ \A s \in DOMAIN log' : log'[s] = IF s = cur THEN text ELSE log[s]
  BY <1>5 DEF Note
<1>7. DOMAIN Transcript = DOMAIN log
                          \cup {u \in DOMAIN lastCheckpoint : ~Finished(u)}
      /\ \A s \in DOMAIN Transcript : Transcript[s] =
            IF s \in DOMAIN log THEN log[s] ELSE lastCheckpoint[s]
  BY DEF Transcript
<1>8. {u \in DOMAIN lastCheckpoint : ~Finished(u)'}
      = {u \in DOMAIN lastCheckpoint : ~Finished(u)} \ {cur}
  BY <1>2, <1>4
<1>9. DOMAIN log' \cup {u \in DOMAIN lastCheckpoint' : ~Finished(u)'}
      = {m \in DOMAIN Transcript \cup DOMAIN says :
            m \in DOMAIN says => says[m] # Silence}
  BY <1>5, <1>6, <1>7, <1>8
<1>10. \A s \in DOMAIN log' \cup {u \in DOMAIN lastCheckpoint' : ~Finished(u)'} :
         (IF s \in DOMAIN log' THEN log'[s] ELSE lastCheckpoint'[s])
         = IF s \in DOMAIN says THEN says[s] ELSE Transcript[s]
  <2>1. SUFFICES ASSUME NEW s \in DOMAIN log'
                            \cup {u \in DOMAIN lastCheckpoint' : ~Finished(u)'}
                 PROVE  (IF s \in DOMAIN log' THEN log'[s] ELSE lastCheckpoint'[s])
                        = IF s \in DOMAIN says THEN says[s] ELSE Transcript[s]
    OBVIOUS
  <2>2. CASE s = cur
    <3>1. s \in DOMAIN log'
      BY <1>8, <2>1, <2>2
    <3> QED
      BY <1>6, <2>2, <3>1
  <2>3. CASE s # cur
    <3>1. s \in DOMAIN Transcript /\ s \notin DOMAIN says
      BY <1>9, <2>1, <2>3
    <3>2. s \in DOMAIN log' <=> s \in DOMAIN log
      BY <1>6, <2>3
    <3> QED
      BY <1>6, <1>7, <2>3, <3>1, <3>2
  <2> QED
    BY <2>2, <2>3
<1>11. Transcript' = Amend(Transcript, says)
  BY <1>9, <1>10 DEF Transcript, Amend
<1>12. LogOK'
  <2>1. \A s \in DOMAIN log' : s \in Tracks \X Nat /\ log'[s] \in Texts \cup {Silence}
                               /\ log'[s] # Silence /\ Finished(s)'
    BY <1>1, <1>2, <1>3, <1>6
  <2>2. log' = [s \in DOMAIN log' |-> log'[s]]
    BY DEF Note
  <2>3. log' \in [DOMAIN log' -> Texts \cup {Silence}]
    BY <2>1, <2>2
  <2>4. DOMAIN log' \in SUBSET (Tracks \X Nat)
    BY <2>1
  <2> QED
    BY <2>1, <2>3, <2>4 DEF LogOK, Sayings
<1> QED
  BY <1>2, <1>11, <1>12

(* A checkpoint says of each announced segment what it says now; no other  *)
(* unfinished segment was in the last one.                                 *)
LEMMA CheckpointAmends ==
    ASSUME TrackerOK, LogOK, CheckpointOK,
           UNCHANGED <<utterance, revision, log>>, lastCheckpoint' = Partials
    PROVE  /\ Transcript' = Amend(Transcript, Partials)
           /\ CheckpointOK'
           /\ Partials \in Sayings
<1>0. utterance \in [Tracks -> Nat] /\ revision \in [Tracks -> Nat]
  BY DEF TrackerOK
<1>1. DOMAIN Partials = {Current(t) : t \in Announced}
      /\ \A s \in DOMAIN Partials : Partials[s] = lastText[s[1]]
  BY DEF Partials
<1>2. ASSUME NEW s \in DOMAIN Partials
      PROVE  /\ s \in Tracks \X Nat /\ s = Current(s[1]) /\ revision[s[1]] > 0
             /\ ~Finished(s) /\ Partials[s] \in Texts /\ Partials[s] # Silence
             /\ s \notin DOMAIN log
  <2>1. PICK t \in Announced : s = Current(t)
    BY <1>1
  <2>2. t \in Tracks /\ revision[t] > 0 /\ s[1] = t /\ s[2] = utterance[t]
        /\ s \in Tracks \X Nat
    BY <1>0, <2>1 DEF Announced, Current
  <2>3. ~Finished(s)
    BY <1>0, <2>2 DEF Finished
  <2>4. Partials[s] \in Texts
    BY <1>1, <2>2 DEF TrackerOK
  <2> QED
    BY <2>1, <2>2, <2>3, <2>4, SilenceIsNoText DEF LogOK
<1>3. \A s \in DOMAIN lastCheckpoint : ~Finished(s) => s \in DOMAIN Partials
  <2>1. SUFFICES ASSUME NEW s \in DOMAIN lastCheckpoint, ~Finished(s)
                 PROVE  s \in DOMAIN Partials
    OBVIOUS
  <2>2. s = Current(s[1]) /\ revision[s[1]] > 0 /\ s[1] \in Tracks
    BY <2>1 DEF CheckpointOK, Sayings
  <2> QED
    BY <1>1, <2>2 DEF Announced
<1>4. \A s : Finished(s)' <=> Finished(s)
  BY DEF Finished
<1>5. DOMAIN Transcript = DOMAIN log
                          \cup {u \in DOMAIN lastCheckpoint : ~Finished(u)}
      /\ \A s \in DOMAIN Transcript : Transcript[s] =
            IF s \in DOMAIN log THEN log[s] ELSE lastCheckpoint[s]
  BY DEF Transcript
<1>6. DOMAIN log' \cup {u \in DOMAIN lastCheckpoint' : ~Finished(u)'}
      = {m \in DOMAIN Transcript \cup DOMAIN Partials :
            m \in DOMAIN Partials => Partials[m] # Silence}
  BY <1>2, <1>3, <1>4, <1>5
<1>7. \A s \in DOMAIN log' \cup {u \in DOMAIN lastCheckpoint' : ~Finished(u)'} :
         (IF s \in DOMAIN log' THEN log'[s] ELSE lastCheckpoint'[s])
         = IF s \in DOMAIN Partials THEN Partials[s] ELSE Transcript[s]
  BY <1>2, <1>5
<1>8. Transcript' = Amend(Transcript, Partials)
  BY <1>6, <1>7 DEF Transcript, Amend
<1>9. Partials \in Sayings
  <2>1. Partials \in [DOMAIN Partials -> Texts \cup {Silence}]
    BY <1>2 DEF Partials
  <2>2. DOMAIN Partials \in SUBSET (Tracks \X Nat)
    BY <1>2
  <2> QED
    BY <2>1, <2>2 DEF Sayings
<1>10. CheckpointOK'
  <2>1. \A s : Current(s[1])' = Current(s[1])
    BY DEF Current
  <2> QED
    BY <1>2, <1>9, <2>1 DEF CheckpointOK
<1> QED
  BY <1>8, <1>9, <1>10

LEMMA SentIs ==
    ASSUME SequencesOK
    PROVE  /\ Sent \in Seq(Lines)
           /\ Len(Sent) = Len(disk) + Len(batch) + Len(channel)
           /\ \A i \in 1 .. Len(disk) : Sent[i] = disk[i]
           /\ \A i \in 1 .. Len(batch) : Sent[Len(disk) + i] = batch[i]
<1>1. disk \in Seq(Lines) /\ batch \in Seq(Lines) /\ channel \in Seq(Lines)
  BY DEF SequencesOK
<1>2. Len(disk) \in Nat /\ Len(batch) \in Nat /\ Len(channel) \in Nat
  BY <1>1
<1>3. disk \o batch \in Seq(Lines) /\ Len(disk \o batch) = Len(disk) + Len(batch)
  BY <1>1
<1>4. \A i \in 1 .. Len(disk) + Len(batch) : Sent[i] = (disk \o batch)[i]
  BY <1>1, <1>2, <1>3 DEF Sent
<1>5. \A i \in 1 .. Len(disk) : (disk \o batch)[i] = disk[i]
  BY <1>1, <1>2
<1>6. \A i \in 1 .. Len(batch) : (disk \o batch)[Len(disk) + i] = batch[i]
  BY <1>1, <1>2
<1>7. Sent \in Seq(Lines) /\ Len(Sent) = Len(disk) + Len(batch) + Len(channel)
  BY <1>1, <1>3 DEF Sent
<1>8. \A i \in 1 .. Len(disk) : i \in 1 .. Len(disk) + Len(batch)
  BY <1>2
<1>9. \A i \in 1 .. Len(batch) : Len(disk) + i \in 1 .. Len(disk) + Len(batch)
  BY <1>2
<1> QED
  BY <1>4, <1>5, <1>6, <1>7, <1>8, <1>9

(* A file that holds the first lines reads as the moment after them.       *)
LEMMA FileReads ==
    ASSUME SequencesOK, ReadsOK, NEW n \in 0 .. Len(batch)
    PROVE  LET f == disk \o SubSeq(batch, 1, n)
           IN /\ f \in Seq(Lines) /\ Len(f) <= Len(Sent)
              /\ \A i \in 1 .. Len(f) : f[i] = Sent[i]
              /\ Load(f) = moments[Len(f) + 1]
<1>1. disk \in Seq(Lines) /\ batch \in Seq(Lines) /\ channel \in Seq(Lines)
  BY DEF SequencesOK
<1>2. Len(disk) \in Nat /\ Len(batch) \in Nat /\ Len(channel) \in Nat
  BY <1>1
<1> DEFINE part == SubSeq(batch, 1, n)
           f == disk \o part
<1>3. part \in Seq(Lines) /\ Len(part) = n /\ \A i \in 1 .. n : part[i] = batch[i]
  BY <1>1, <1>2
<1> HIDE DEF part
<1>4. f \in Seq(Lines) /\ Len(f) = Len(disk) + n
      /\ f = [i \in 1 .. Len(f) |-> f[i]]
  <2>1. \A a, b \in Seq(Lines) :
          /\ a \o b \in Seq(Lines) /\ Len(a \o b) = Len(a) + Len(b)
    OBVIOUS
  <2>2. f \in Seq(Lines) /\ Len(f) = Len(disk) + Len(part)
    BY <1>1, <1>3, <2>1
  <2>3. \A a \in Seq(Lines) : a = [i \in 1 .. Len(a) |-> a[i]]
    OBVIOUS
  <2> QED
    BY <1>3, <2>2, <2>3
<1>5. Len(f) <= Len(Sent) /\ Len(f) \in 0 .. Len(Sent)
  BY <1>2, <1>4, SentIs
<1>6. \A i \in 1 .. Len(f) : f[i] = Sent[i]
  <2>1. SUFFICES ASSUME NEW i \in 1 .. Len(f) PROVE f[i] = Sent[i]
    OBVIOUS
  <2>2. CASE i <= Len(disk)
    <3>1. i \in 1 .. Len(disk)
      BY <1>2, <1>4, <2>2
    <3>2. f[i] = disk[i]
      BY <1>1, <1>3, <3>1
    <3> QED
      BY <3>1, <3>2, SentIs
  <2>3. CASE i > Len(disk)
    <3>1. PICK j \in 1 .. n : i = Len(disk) + j
      <4>1. i - Len(disk) \in 1 .. n
        BY <1>2, <1>4, <2>3
      <4>2. i = Len(disk) + (i - Len(disk))
        BY <1>2, <1>4
      <4> QED
        BY <4>1, <4>2
    <3>2. f[i] = part[j]
      BY <1>1, <1>2, <1>3, <3>1
    <3>3. j \in 1 .. Len(batch)
      BY <1>2
    <3> QED
      BY <1>3, <3>1, <3>2, <3>3, SentIs
  <2> QED
    BY <1>2, <1>4, <2>2, <2>3
<1>7. f = Prefix(Len(f))
  <2> HIDE DEF f
  <2> QED
    BY <1>4, <1>6 DEF Prefix
<1>8. Load(Prefix(Len(f))) = moments[Len(f) + 1]
  BY <1>5 DEF ReadsOK
<1> QED
  BY <1>4, <1>5, <1>6, <1>7, <1>8 DEF part

LEMMA DiskReads ==
    ASSUME SequencesOK, ReadsOK
    PROVE  JournalIsAMoment
<1>1. disk \in Seq(Lines) /\ batch \in Seq(Lines)
  BY DEF SequencesOK
<1>2. disk = disk \o SubSeq(batch, 1, 0) /\ 0 \in 0 .. Len(batch)
  BY <1>1
<1>3. Load(disk) = moments[Len(disk) + 1]
  BY <1>2, FileReads
<1> QED
  BY <1>3 DEF JournalIsAMoment

(* Steps that leave what was sent, and what there is to say, alone.        *)
LEMMA ReadsKept ==
    ASSUME ReadsOK, Sent' = Sent, moments' = moments
    PROVE  ReadsOK'
BY DEF ReadsOK, Prefix

(* A line that says what has changed keeps the journal up to date.         *)
LEMMA SendKeeps ==
    ASSUME JournalOK, NEW says \in Sayings,
           Transcript' = Amend(Transcript, says), Transcript' \in Sayings,
           worker \in {"running", "flushing"},
           UNCHANGED <<worker, batch, disk, writer>>, Send(says)
    PROVE  JournalOK'
<1>1. SequencesOK /\ ReadsOK /\ WriterOK
  BY DEF JournalOK
<1>2. /\ disk \in Seq(Lines) /\ batch \in Seq(Lines) /\ channel \in Seq(Lines)
      /\ moments \in Seq(Sayings) /\ seq \in Nat
      /\ writer \in {"running", "failed", "ended", "absent"}
  BY <1>1 DEF SequencesOK
<1>3. worker # "ended" /\ worker # "finishing"
  OBVIOUS
<1>4. CASE writer # "running"
  <2>1. UNCHANGED <<channel, moments>> /\ seq' \in Nat /\ journaling' \in BOOLEAN
    <3>1. journaling \in BOOLEAN
      BY <1>1 DEF SequencesOK
    <3>2. CASE writer = "absent"
      BY <1>2, <3>1, <3>2 DEF Send
    <3>3. CASE writer # "absent"
      <4>1. ~(journaling /\ writer = "running")
        BY <1>4
      <4>2. seq' = seq + 1 /\ journaling' = FALSE
            /\ UNCHANGED <<channel, moments>>
        BY <3>3, <4>1 DEF Send
      <4>3. seq' \in Nat
        BY <1>2, <4>2
      <4> QED
        BY <4>2, <4>3
    <3> QED
      BY <3>2, <3>3
  <2>2. SequencesOK'
    BY <1>1, <2>1 DEF SequencesOK
  <2>3. Sent' = Sent
    BY <2>1 DEF Sent
  <2>4. ReadsOK'
    BY <1>1, <2>1, <2>3, ReadsKept
  <2>5. writer \notin {"running", "ended"}
    BY <1>1, <1>3, <1>4 DEF WriterOK
  <2>6. WriterOK'
    BY <1>1, <2>1, <2>5 DEF WriterOK
  <2> QED
    BY <2>2, <2>4, <2>6 DEF JournalOK
<1>5. CASE writer = "running"
  <2> DEFINE line == Line(seq + 1, says)
  <2>0. PICK N \in Nat : N = Len(Sent)
    BY <1>1, SentIs
  <2>1. journaling /\ seq = N /\ Len(moments) = N + 1
        /\ moments[N + 1] = Transcript
    BY <1>1, <1>3, <1>5, <2>0 DEF WriterOK
  <2>2. /\ seq' = seq + 1 /\ channel' = Append(channel, line)
        /\ moments' = Append(moments, Transcript') /\ journaling' = journaling
    BY <1>5, <2>1 DEF Send
  <2>3. line \in Lines /\ line.seq = seq + 1 /\ line.says = says
    BY <1>2 DEF Line, Lines
  <2>4. channel' \in Seq(Lines) /\ moments' \in Seq(Sayings)
    BY <1>2, <2>2, <2>3
  <2>5. SequencesOK'
    BY <1>1, <1>2, <2>2, <2>4 DEF SequencesOK
  <2>6. Sent \in Seq(Lines) /\ N \in Nat /\ N = Len(Sent)
    BY <1>1, <2>0, SentIs
  <2>7. Sent' = Append(Sent, line)
    <3>1. Sent' = (disk \o batch) \o Append(channel, line)
      BY <2>2 DEF Sent
    <3>2. disk \o batch \in Seq(Lines)
      BY <1>2
    <3>3. \A a, b \in Seq(Lines) : a \o Append(b, line) = Append(a \o b, line)
      BY <2>3
    <3> QED
      BY <1>2, <3>1, <3>2, <3>3 DEF Sent
  <2>8. /\ Len(Sent') = N + 1 /\ Sent'[N + 1] = line
        /\ \A i \in 1 .. N : Sent'[i] = Sent[i]
    BY <2>3, <2>6, <2>7
  <2>9. /\ Len(moments') = N + 2 /\ moments'[N + 2] = Transcript'
        /\ \A i \in 1 .. N + 1 : moments'[i] = moments[i]
    BY <1>2, <2>1, <2>2, <2>6
  <2>10. \A i \in 1 .. N + 1 : Sent'[i].seq = i
    <3>1. \A i \in 1 .. N : Sent'[i].seq = i
      BY <1>1, <2>6, <2>8 DEF ReadsOK
    <3>2. Sent'[N + 1].seq = N + 1
      BY <2>1, <2>3, <2>8
    <3> QED
      BY <2>6, <3>1, <3>2
  <2>11. \A n \in 0 .. N : Prefix(n)' = Prefix(n)
    BY <2>6, <2>8 DEF Prefix
  <2>12. \A n \in 0 .. N : HasLast(Prefix(n)') /\ Load(Prefix(n)') = moments'[n + 1]
    <3>1. \A n \in 0 .. N : HasLast(Prefix(n)) /\ Load(Prefix(n)) = moments[n + 1]
      BY <1>1, <2>6 DEF ReadsOK
    <3>2. \A n \in 0 .. N : n + 1 \in 1 .. N + 1
      BY <2>6
    <3> QED
      BY <2>9, <2>11, <3>1, <3>2
  <2>13. HasLast(Prefix(N + 1)') /\ Load(Prefix(N + 1)') = moments'[N + 2]
    <3>0. PICK old, new : old = Prefix(N) /\ new = Prefix(N + 1)'
      OBVIOUS
    <3>1. DOMAIN old = 1 .. N /\ DOMAIN new = 1 .. N + 1
      BY <3>0 DEF Prefix
    <3>2. \A k \in 1 .. N : old[k] = Sent[k]
      BY <3>0 DEF Prefix
    <3>3. \A k \in 1 .. N + 1 : new[k] = Sent'[k]
      BY <3>0 DEF Prefix
    <3>4. new[N + 1] = line
      BY <2>6, <2>8, <3>3
    <3>5. \A k \in 1 .. N : old[k].seq = k
      BY <1>1, <2>6, <3>2 DEF ReadsOK
    <3>6. \A k \in 1 .. N : new[k] = old[k]
      <4>1. \A k \in 1 .. N : k \in 1 .. N + 1
        BY <2>6
      <4> QED
        BY <2>8, <3>2, <3>3, <4>1
    <3>7. HasLast(old) /\ Load(old) = moments[N + 1]
      BY <1>1, <2>6, <3>0 DEF ReadsOK
    <3>8. new[N + 1].seq = N + 1
      BY <2>1, <2>3, <2>6, <3>4
    <3>9. new[N + 1].says = says
      BY <2>3, <3>4
    <3>10. HasLast(new) /\ Load(new) = Amend(Load(old), says)
      BY <2>6, <3>1, <3>5, <3>6, <3>7, <3>8, <3>9, LoadAppend
    <3> QED
      BY <2>1, <2>9, <3>0, <3>7, <3>10
  <2>14. ReadsOK'
    <3>1. \A n \in 0 .. N + 1 : n \in 0 .. N \/ n = N + 1
      BY <2>6
    <3>2. N + 1 + 1 = N + 2 /\ N + 1 < N + 2
      BY <2>6
    <3>3. \A n \in 0 .. N + 1 :
            HasLast(Prefix(n)') /\ Load(Prefix(n)') = moments'[n + 1]
      BY <2>12, <2>13, <3>1, <3>2
    <3> QED
      BY <2>8, <2>9, <2>10, <3>2, <3>3 DEF ReadsOK
  <2>15. WriterOK'
    <3>1. Len(moments') = Len(Sent') + 1 /\ moments'[Len(moments')] = Transcript'
      BY <2>6, <2>8, <2>9
    <3>2. seq' = Len(Sent')
      BY <2>1, <2>2, <2>8
    <3> QED
      BY <1>3, <1>5, <2>1, <2>2, <3>1, <3>2 DEF WriterOK
  <2> QED
    BY <2>5, <2>14, <2>15 DEF JournalOK
<1> QED
  BY <1>4, <1>5


(* Steps of the worker and of the window that send nothing.                *)
LEMMA QuietKeeps ==
    ASSUME JournalOK, UNCHANGED <<batch, disk, writer, channel, seq, moments>>,
           UNCHANGED <<log, lastCheckpoint, utterance>>,
           journaling' \in BOOLEAN,
           journaling' = journaling \/ worker' \in {"finishing", "ended"},
           worker \in {"finishing", "ended"} => worker' \in {"finishing", "ended"},
           worker' = "ended" => worker = "ended" \/ writer # "running"
    PROVE  JournalOK'
<1>1. SequencesOK /\ ReadsOK /\ WriterOK
  BY DEF JournalOK
<1>2. Sent' = Sent /\ Transcript' = Transcript
  BY DEF Sent, Transcript, Finished
<1>3. SequencesOK'
  BY <1>1 DEF SequencesOK
<1>4. ReadsOK'
  BY <1>1, <1>2, ReadsKept
<1>5. WriterOK'
  BY <1>1, <1>2 DEF WriterOK
<1> QED
  BY <1>3, <1>4, <1>5 DEF JournalOK

(* The worker has ended and the writer too: nothing unfinished is left.    *)
LEMMA ClosedReads ==
    ASSUME TrackerOK, LogOK, CheckpointOK, FlushOK, JournalOK
    PROVE  ClosedJournalIsTheLog
<1> SUFFICES ASSUME worker = "ended", writer = "ended"
             PROVE  Load(disk) = log
  BY DEF ClosedJournalIsTheLog
<1>1. SequencesOK /\ ReadsOK /\ WriterOK
  BY DEF JournalOK
<1>2. batch = << >> /\ channel = << >> /\ Len(moments) = Len(Sent) + 1
      /\ moments[Len(moments)] = Transcript
  BY <1>1 DEF WriterOK
<1>3. Sent = disk
  BY <1>1, <1>2 DEF Sent, SequencesOK
<1>4. Load(disk) = Transcript
  BY <1>1, <1>2, <1>3, DiskReads DEF JournalIsAMoment
<1>5. \A s \in DOMAIN lastCheckpoint : Finished(s)
  <2>1. \A t \in Tracks : revision[t] = 0
    BY DEF FlushOK
  <2>2. \A s \in DOMAIN lastCheckpoint : s[1] \in Tracks
    BY DEF CheckpointOK, Sayings
  <2> QED
    BY <2>1, <2>2 DEF CheckpointOK
<1>6. DOMAIN Transcript = DOMAIN log
      /\ \A s \in DOMAIN log : Transcript[s] = log[s]
  BY <1>5 DEF Transcript
<1>7. log = [s \in DOMAIN log |-> log[s]]
  BY DEF LogOK, Sayings
<1>8. Transcript = [s \in DOMAIN log |-> log[s]]
  BY <1>5 DEF Transcript
<1> QED
  BY <1>4, <1>7, <1>8

LEMMA InitInv == Init => IInv
<1> SUFFICES ASSUME Init PROVE IInv
  OBVIOUS
<1>1. \A t \in Tracks : \E i \in DOMAIN TrackOrder : TrackOrder[i] = t
  BY DEF Tracks
<1>2. Empty \in Sayings /\ DOMAIN Empty = {}
  BY DEF Empty, Sayings
<1>3. TrackerOK
  BY DEF Init, TrackerOK
<1>4. LogOK /\ CheckpointOK
  BY <1>2 DEF Init, LogOK, CheckpointOK
<1>5. FlushOK
  BY <1>1, OneTrack DEF Init, FlushOK
<1>6. SequencesOK
  <2>1. writer \in {"running", "failed", "ended", "absent"} /\ journaling \in BOOLEAN
    BY DEF Init
  <2>2. moments \in Seq(Sayings) /\ seq \in Nat
    BY <1>2 DEF Init
  <2> QED
    BY <2>1, <2>2 DEF Init, SequencesOK
<1>7. Sent = << >> /\ Len(Sent) = 0 /\ Len(moments) = 1 /\ moments[1] = Empty
  BY DEF Init, Sent
<1>8. Prefix(0) = [i \in {} |-> Sent[i]] /\ Mentioned(Prefix(0)) = {}
  BY DEF Prefix, Mentioned
<1>9. Load(Prefix(0)) = Empty
  BY <1>8 DEF Load, Empty
<1>10. ReadsOK
  <2>1. \A n \in 0 .. Len(Sent) : n = 0
    BY <1>7
  <2>2. HasLast(Prefix(0))
    BY <1>8 DEF HasLast
  <2> QED
    BY <1>7, <1>9, <2>1, <2>2 DEF ReadsOK
<1>11. Transcript = Empty
  BY <1>2 DEF Init, Transcript, Empty
<1>12. WriterOK
  <2>1. writer # "ended" /\ worker = "running" /\ seq = 0
        /\ batch = << >> /\ channel = << >> /\ (writer = "running" => journaling)
    BY DEF Init
  <2> QED
    BY <1>7, <1>11, <2>1 DEF WriterOK
<1>13. JournalOK
  BY <1>6, <1>10, <1>12 DEF JournalOK
<1> QED
  BY <1>3, <1>4, <1>5, <1>13 DEF Init, IInv


LEMMA InvImplies == IInv => JournalIsAMoment /\ ClosedJournalIsTheLog
<1> SUFFICES ASSUME IInv PROVE JournalIsAMoment /\ ClosedJournalIsTheLog
  OBVIOUS
<1>1. CASE crashed
  BY <1>1 DEF IInv, ClosedJournalIsTheLog
<1>2. CASE ~crashed
  <2>1. JournalOK
    BY <1>2 DEF IInv
  <2>2. JournalIsAMoment
    BY <2>1, DiskReads DEF JournalOK
  <2>3. ClosedJournalIsTheLog
    BY <2>1, ClosedReads DEF IInv
  <2> QED
    BY <2>2, <2>3
<1>3. crashed \in BOOLEAN
  BY DEF IInv
<1> QED
  BY <1>1, <1>2

(* Finishing a segment, in the loop or in the flush.                       *)
LEMMA EndpointInv ==
    ASSUME TrackerOK, LogOK, CheckpointOK, JournalOK,
           worker \in {"running", "flushing"},
           NEW t \in Tracks, NEW text \in Texts \cup {Silence},
           OnEndpoint(t, text), UNCHANGED <<worker, batch, disk, writer>>
    PROVE  TrackerOK' /\ LogOK' /\ CheckpointOK' /\ JournalOK'
           /\ revision' = [revision EXCEPT ![t] = 0]
<1>0. utterance \in [Tracks -> Nat] /\ revision \in [Tracks -> Nat]
      /\ lastText \in [Tracks -> Texts \cup {Silence}]
  BY DEF TrackerOK
<1>1. revision' = [revision EXCEPT ![t] = 0]
      /\ lastText' = [lastText EXCEPT ![t] = Silence]
      /\ lastCheckpoint' = lastCheckpoint
  BY DEF OnEndpoint
<1>2. \A u \in Tracks : revision'[u] > 0 =>
            revision[u] > 0 /\ revision'[u] = revision[u] /\ u # t
            /\ lastText'[u] = lastText[u]
  BY <1>0, <1>1
<1>3. revision' \in [Tracks -> Nat] /\ lastText' \in [Tracks -> Texts \cup {Silence}]
      /\ \A u \in Tracks : revision'[u] > 0 => lastText'[u] \in Texts
  BY <1>0, <1>1, <1>2 DEF TrackerOK
<1>4. CASE revision[t] > 0 \/ text # Silence
  <2>1. /\ utterance' = [utterance EXCEPT ![t] = utterance[t] + 1]
        /\ log' = Note(log, Current(t), text)
        /\ Send([s \in {Current(t)} |-> text])
    BY <1>4 DEF OnEndpoint
  <2>2. /\ Transcript' = Amend(Transcript, [s \in {Current(t)} |-> text])
        /\ \A s \in Tracks \X Nat : Finished(s)' <=> Finished(s) \/ s = Current(t)
        /\ LogOK'
    BY <1>1, <2>1, FinishAmends
  <2>3. utterance' \in [Tracks -> Nat] /\ TrackerOK'
    BY <1>0, <1>3, <2>1 DEF TrackerOK
  <2>4. CheckpointOK'
    <3>1. ASSUME NEW s \in DOMAIN lastCheckpoint
          PROVE  Finished(s)' \/ (s = Current(s[1])' /\ revision'[s[1]] > 0)
      <4>1. s \in Tracks \X Nat /\ s[1] \in Tracks
        BY DEF CheckpointOK, Sayings
      <4>2. CASE Finished(s)
        BY <2>2, <4>1, <4>2
      <4>3. CASE s = Current(s[1]) /\ revision[s[1]] > 0
        <5>1. CASE s[1] = t
          BY <2>2, <4>1, <4>3, <5>1
        <5>2. CASE s[1] # t
          BY <1>0, <1>1, <2>1, <4>1, <4>3, <5>2 DEF Current
        <5> QED
          BY <5>1, <5>2
      <4> QED
        BY <4>2, <4>3 DEF CheckpointOK
    <3> QED
      BY <1>1, <3>1 DEF CheckpointOK
  <2>5. [s \in {Current(t)} |-> text] \in Sayings
    <3>1. Current(t) \in Tracks \X Nat
      BY <1>0 DEF Current
    <3>2. [s \in {Current(t)} |-> text] \in [{Current(t)} -> Texts \cup {Silence}]
      OBVIOUS
    <3>3. {Current(t)} \in SUBSET (Tracks \X Nat)
      BY <3>1
    <3> QED
      BY <3>2, <3>3 DEF Sayings
  <2>6. Transcript' \in Sayings
    <3> DEFINE D == DOMAIN log' \cup {u \in DOMAIN lastCheckpoint' : ~Finished(u)'}
    <3>1. DOMAIN log' \subseteq Tracks \X Nat
          /\ \A s \in DOMAIN log' : log'[s] \in Texts \cup {Silence}
      BY <2>2 DEF LogOK, Sayings
    <3>2. DOMAIN lastCheckpoint' \subseteq Tracks \X Nat
          /\ \A s \in DOMAIN lastCheckpoint' :
                lastCheckpoint'[s] \in Texts \cup {Silence}
      BY <2>4 DEF CheckpointOK, Sayings
    <3>3. D \in SUBSET (Tracks \X Nat)
      BY <3>1, <3>2
    <3>4. Transcript' \in [D -> Texts \cup {Silence}]
      BY <3>1, <3>2 DEF Transcript
    <3> QED
      BY <3>3, <3>4 DEF Sayings
  <2>7. JournalOK'
    BY <2>1, <2>2, <2>5, <2>6, SendKeeps
  <2> QED
    BY <1>1, <2>2, <2>3, <2>4, <2>7 DEF JournalOK, SequencesOK
<1>5. CASE ~(revision[t] > 0 \/ text # Silence)
  <2>1. UNCHANGED <<utterance, log, seq, channel, journaling, moments>>
    BY <1>5 DEF OnEndpoint
  <2>2. revision[t] = 0
    BY <1>0, <1>5
  <2>3. revision' = revision
    BY <1>0, <1>1, <2>2
  <2>4. TrackerOK'
    BY <1>0, <1>3, <2>1 DEF TrackerOK
  <2>5. LogOK' /\ CheckpointOK'
    BY <1>1, <2>1, <2>3 DEF LogOK, CheckpointOK, Finished, Current
  <2>6. JournalOK'
    <3>1. journaling \in BOOLEAN
      BY DEF JournalOK, SequencesOK
    <3>2. journaling' \in BOOLEAN /\ journaling' = journaling
      BY <2>1, <3>1
    <3> QED
      BY <1>1, <2>1, <3>2, QuietKeeps
  <2> QED
    BY <1>1, <2>4, <2>5, <2>6 DEF JournalOK, SequencesOK
<1> QED
  BY <1>4, <1>5


(* A step that leaves the tracker, the log and the checkpoint alone.       *)
LEMMA ShapesKept ==
    ASSUME TrackerOK, LogOK, CheckpointOK,
           UNCHANGED <<utterance, revision, lastText, log, lastCheckpoint>>
    PROVE  TrackerOK' /\ LogOK' /\ CheckpointOK'
BY DEF TrackerOK, LogOK, CheckpointOK, Finished, Current

LEMMA NextInv == IInv /\ [Next]_vars => IInv'
<1> SUFFICES ASSUME IInv, [Next]_vars PROVE IInv'
  OBVIOUS
<1> USE DEF Free, tracker, journal, file, window
<1>1. TrackerOK /\ LogOK /\ CheckpointOK /\ FlushOK /\ crashed \in BOOLEAN
  BY DEF IInv
<1>2. ~crashed => JournalOK
  BY DEF IInv
<1>3. crashed => JournalIsAMoment /\ worker # "ended"
  BY DEF IInv
<1>4. /\ utterance \in [Tracks -> Nat] /\ revision \in [Tracks -> Nat]
      /\ lastText \in [Tracks -> Texts \cup {Silence}]
  BY <1>1 DEF TrackerOK
<1>5. ~crashed => journaling \in BOOLEAN
  BY <1>2 DEF JournalOK, SequencesOK
<1>6. CASE UNCHANGED vars
  <2>1. UNCHANGED <<worker, unflushed, utterance, revision, lastText, log,
                    journaling, seq, lastCheckpoint, channel, batch, disk,
                    writer, crashed, moments>>
    BY <1>6 DEF vars
  <2>2. TrackerOK' /\ LogOK' /\ CheckpointOK'
    BY <1>1, <2>1, ShapesKept
  <2>3. FlushOK'
    BY <1>1, <2>1 DEF FlushOK
  <2>4. ~crashed => JournalOK'
    BY <1>2, <1>5, <2>1, QuietKeeps
  <2>5. JournalIsAMoment => JournalIsAMoment'
    BY <2>1 DEF JournalIsAMoment
  <2> QED
    BY <1>1, <1>3, <2>1, <2>2, <2>3, <2>4, <2>5 DEF IInv
<1>7. ASSUME NEW t \in Tracks, NEW text \in Texts, OnPartial(t, text)
      PROVE  IInv'
  <2>1. /\ ~crashed /\ crashed' = crashed /\ worker = "running"
        /\ UNCHANGED <<worker, unflushed, utterance, log, journaling, seq,
                       lastCheckpoint, channel, batch, disk, writer, moments>>
        /\ lastText' = [lastText EXCEPT ![t] = text]
        /\ revision' = [revision EXCEPT ![t] = revision[t] + 1]
    BY <1>7 DEF OnPartial
  <2>2. \A u \in Tracks : revision'[u] = (IF u = t THEN revision[t] + 1 ELSE revision[u])
                          /\ lastText'[u] = (IF u = t THEN text ELSE lastText[u])
    BY <1>4, <2>1
  <2>3. revision' \in [Tracks -> Nat] /\ lastText' \in [Tracks -> Texts \cup {Silence}]
    BY <1>4, <2>1
  <2>4. TrackerOK'
    BY <1>1, <2>1, <2>2, <2>3 DEF TrackerOK
  <2>5. LogOK'
    BY <1>1, <2>1 DEF LogOK, Finished
  <2>6. CheckpointOK'
    <3>1. \A s : Current(s[1])' = Current(s[1]) /\ (Finished(s)' <=> Finished(s))
      BY <2>1 DEF Current, Finished
    <3>2. \A u \in Tracks : revision[u] > 0 => revision'[u] > 0
      BY <1>4, <2>2
    <3>3. \A s \in DOMAIN lastCheckpoint : s[1] \in Tracks
      BY <1>1 DEF CheckpointOK, Sayings
    <3> QED
      BY <1>1, <2>1, <3>1, <3>2, <3>3 DEF CheckpointOK
  <2>7. FlushOK'
    <3>1. unflushed' = TrackOrder
      BY <1>1, <2>1 DEF FlushOK
    <3>2. \A u \in Tracks : \E i \in DOMAIN unflushed' : unflushed'[i] = u
      BY <3>1 DEF Tracks
    <3> QED
      BY <1>1, <2>1, <3>1, <3>2 DEF FlushOK
  <2>8. JournalOK'
    BY <1>2, <1>5, <2>1, QuietKeeps
  <2> QED
    BY <1>1, <2>1, <2>4, <2>5, <2>6, <2>7, <2>8 DEF IInv
<1>8. ASSUME NEW t \in Tracks, NEW text \in Texts \cup {Silence}, Endpoint(t, text)
      PROVE  IInv'
  <2>1. /\ ~crashed /\ crashed' = crashed /\ worker = "running"
        /\ UNCHANGED <<worker, unflushed, batch, disk, writer>>
        /\ OnEndpoint(t, text)
    BY <1>8 DEF Endpoint
  <2>2. TrackerOK' /\ LogOK' /\ CheckpointOK' /\ JournalOK'
        /\ revision' = [revision EXCEPT ![t] = 0]
    BY <1>1, <1>2, <2>1, EndpointInv
  <2>3. FlushOK'
    <3>1. \A u \in Tracks : revision'[u] = 0 \/ revision'[u] = revision[u]
      BY <1>4, <2>2
    <3> QED
      BY <1>1, <2>1, <3>1 DEF FlushOK
  <2> QED
    BY <1>1, <2>1, <2>2, <2>3 DEF IInv
<1>9. ASSUME NEW text \in Texts \cup {Silence}, Flush(text)
      PROVE  IInv'
  <2>1. /\ ~crashed /\ crashed' = crashed /\ worker = "flushing" /\ unflushed # << >>
        /\ UNCHANGED <<worker, batch, disk, writer>>
        /\ unflushed' = Tail(unflushed)
        /\ OnEndpoint(Head(unflushed), text)
    BY <1>9 DEF Flush
  <2>2. unflushed \in Seq(Tracks) /\ Head(unflushed) \in Tracks
    BY <1>1, <2>1 DEF FlushOK
  <2>3. TrackerOK' /\ LogOK' /\ CheckpointOK' /\ JournalOK'
        /\ revision' = [revision EXCEPT ![Head(unflushed)] = 0]
    BY <1>1, <1>2, <2>1, <2>2, EndpointInv
  <2>4. FlushOK'
    <3>1. \A u \in Tracks : revision'[u] = IF u = Head(unflushed) THEN 0 ELSE revision[u]
      BY <1>4, <2>2, <2>3
    <3>2. ASSUME NEW u \in Tracks, u # Head(unflushed),
                 NEW i \in DOMAIN unflushed, unflushed[i] = u
          PROVE  \E j \in DOMAIN Tail(unflushed) : Tail(unflushed)[j] = u
      <4>1. i \in 1 .. Len(unflushed) /\ Len(unflushed) \in Nat
            /\ Head(unflushed) = unflushed[1]
        BY <2>1, <2>2
      <4>2. i # 1
        BY <3>2, <4>1
      <4>3. DOMAIN Tail(unflushed) = 1 .. Len(unflushed) - 1
            /\ \A j \in 1 .. Len(unflushed) - 1 : Tail(unflushed)[j] = unflushed[j + 1]
        BY <2>1, <2>2
      <4>4. i - 1 \in 1 .. Len(unflushed) - 1 /\ i - 1 + 1 = i
        BY <4>1, <4>2
      <4> QED
        BY <3>2, <4>3, <4>4
    <3>3. Tail(unflushed) \in Seq(Tracks)
      BY <2>1, <2>2
    <3>4. \A u \in Tracks : revision'[u] = 0
            \/ \E j \in DOMAIN unflushed' : unflushed'[j] = u
      BY <1>1, <2>1, <3>1, <3>2 DEF FlushOK
    <3> QED
      BY <2>1, <3>3, <3>4 DEF FlushOK
  <2> QED
    BY <1>1, <2>1, <2>3, <2>4 DEF IInv
<1>10. CASE Checkpoint
  <2>1. /\ ~crashed /\ crashed' = crashed /\ worker = "running"
        /\ UNCHANGED <<worker, unflushed, utterance, revision, lastText, log,
                       batch, disk, writer>>
        /\ lastCheckpoint' = Partials /\ Send(Partials)
    BY <1>10 DEF Checkpoint
  <2>2. /\ Transcript' = Amend(Transcript, Partials)
        /\ CheckpointOK' /\ Partials \in Sayings
    BY <1>1, <2>1, CheckpointAmends
  <2>3. TrackerOK' /\ LogOK'
    BY <1>1, <2>1 DEF TrackerOK, LogOK, Finished
  <2>4. Transcript' \in Sayings
    <3> DEFINE D == DOMAIN log' \cup {u \in DOMAIN lastCheckpoint' : ~Finished(u)'}
    <3>1. DOMAIN log' \subseteq Tracks \X Nat
          /\ \A s \in DOMAIN log' : log'[s] \in Texts \cup {Silence}
      BY <2>3 DEF LogOK, Sayings
    <3>2. DOMAIN lastCheckpoint' \subseteq Tracks \X Nat
          /\ \A s \in DOMAIN lastCheckpoint' :
                lastCheckpoint'[s] \in Texts \cup {Silence}
      BY <2>2 DEF CheckpointOK, Sayings
    <3>3. D \in SUBSET (Tracks \X Nat)
      BY <3>1, <3>2
    <3>4. Transcript' \in [D -> Texts \cup {Silence}]
      BY <3>1, <3>2 DEF Transcript
    <3> QED
      BY <3>3, <3>4 DEF Sayings
  <2>5. JournalOK'
    BY <1>2, <2>1, <2>2, <2>4, SendKeeps
  <2>6. FlushOK'
    BY <1>1, <2>1 DEF FlushOK
  <2> QED
    BY <1>1, <2>1, <2>2, <2>3, <2>5, <2>6 DEF IInv
<1>11. CASE Emit \/ Verify \/ Unmount \/ Mount
  <2>1. /\ ~crashed /\ crashed' = crashed
        /\ UNCHANGED <<worker, unflushed, utterance, revision, lastText, log,
                       journaling, seq, lastCheckpoint, channel, batch, disk,
                       writer, moments>>
    BY <1>11 DEF Emit, Verify, Unmount, Mount
  <2>2. TrackerOK' /\ LogOK' /\ CheckpointOK'
    BY <1>1, <2>1, ShapesKept
  <2>3. FlushOK'
    BY <1>1, <2>1 DEF FlushOK
  <2>4. JournalOK'
    BY <1>2, <1>5, <2>1, QuietKeeps
  <2> QED
    BY <1>1, <2>1, <2>2, <2>3, <2>4 DEF IInv
<1>12. CASE Stop
  <2>1. /\ ~crashed /\ crashed' = crashed /\ worker = "running" /\ worker' = "flushing"
        /\ UNCHANGED <<unflushed, utterance, revision, lastText, log,
                       journaling, seq, lastCheckpoint, channel, batch, disk,
                       writer, moments>>
    BY <1>12 DEF Stop
  <2>2. TrackerOK' /\ LogOK' /\ CheckpointOK'
    BY <1>1, <2>1, ShapesKept
  <2>3. FlushOK'
    BY <1>1, <2>1 DEF FlushOK
  <2>4. JournalOK'
    BY <1>2, <1>5, <2>1, QuietKeeps
  <2> QED
    BY <1>1, <2>1, <2>2, <2>3, <2>4 DEF IInv
<1>13. CASE Finish
  <2>1. /\ ~crashed /\ crashed' = crashed /\ worker = "flushing" /\ worker' = "finishing"
        /\ unflushed = << >> /\ journaling' = FALSE
        /\ UNCHANGED <<unflushed, utterance, revision, lastText, log, seq,
                       lastCheckpoint, channel, batch, disk, writer, moments>>
    BY <1>13 DEF Finish
  <2>2. TrackerOK' /\ LogOK' /\ CheckpointOK'
    BY <1>1, <2>1, ShapesKept
  <2>3. FlushOK'
    BY <1>1, <2>1 DEF FlushOK
  <2>4. JournalOK'
    BY <1>2, <2>1, QuietKeeps
  <2> QED
    BY <1>1, <2>1, <2>2, <2>3, <2>4 DEF IInv
<1>14. CASE End
  <2>1. /\ ~crashed /\ crashed' = crashed /\ worker = "finishing" /\ worker' = "ended"
        /\ writer # "running"
        /\ UNCHANGED <<unflushed, utterance, revision, lastText, log,
                       journaling, seq, lastCheckpoint, channel, batch, disk,
                       writer, moments>>
    BY <1>14 DEF End
  <2>2. TrackerOK' /\ LogOK' /\ CheckpointOK'
    BY <1>1, <2>1, ShapesKept
  <2>3. FlushOK'
    BY <1>1, <2>1 DEF FlushOK
  <2>4. JournalOK'
    BY <1>2, <1>5, <2>1, QuietKeeps
  <2> QED
    BY <1>1, <2>1, <2>2, <2>3, <2>4 DEF IInv
<1>15. CASE WriterTakes \/ WriterSyncs
  <2>1. /\ ~crashed /\ crashed' = crashed /\ writer = "running"
        /\ UNCHANGED <<worker, unflushed, utterance, revision, lastText, log,
                       journaling, seq, lastCheckpoint, writer, moments>>
    BY <1>15 DEF WriterTakes, WriterSyncs
  <2>2. SequencesOK /\ ReadsOK /\ WriterOK
    BY <1>2, <2>1 DEF JournalOK
  <2>3. disk \in Seq(Lines) /\ batch \in Seq(Lines) /\ channel \in Seq(Lines)
    BY <2>2 DEF SequencesOK
  <2>4. /\ disk' \in Seq(Lines) /\ batch' \in Seq(Lines) /\ channel' \in Seq(Lines)
        /\ Sent' = Sent
    <3>1. CASE WriterTakes
      <4>1. batch = << >> /\ batch' = channel /\ channel' = << >> /\ disk' = disk
        BY <3>1 DEF WriterTakes
      <4>2. disk \o << >> = disk /\ \A a \in Seq(Lines) : a \o << >> = a
        BY <2>3
      <4>3. disk \o channel \in Seq(Lines)
        BY <2>3
      <4> QED
        BY <2>3, <4>1, <4>2, <4>3 DEF Sent
    <3>2. CASE WriterSyncs
      <4>1. disk' = disk \o batch /\ batch' = << >> /\ channel' = channel
        BY <3>2 DEF WriterSyncs
      <4>2. disk \o batch \in Seq(Lines) /\ (disk \o batch) \o << >> = disk \o batch
        BY <2>3
      <4> QED
        BY <2>3, <4>1, <4>2 DEF Sent
    <3> QED
      BY <1>15, <3>1, <3>2
  <2>5. SequencesOK'
    BY <2>1, <2>2, <2>4 DEF SequencesOK
  <2>6. ReadsOK'
    BY <2>1, <2>2, <2>4, ReadsKept
  <2>7. Transcript' = Transcript
    BY <2>1 DEF Transcript, Finished
  <2>8. WriterOK'
    BY <2>1, <2>2, <2>4, <2>7 DEF WriterOK
  <2>9. TrackerOK' /\ LogOK' /\ CheckpointOK'
    BY <1>1, <2>1, ShapesKept
  <2>10. FlushOK'
    BY <1>1, <2>1 DEF FlushOK
  <2> QED
    BY <1>1, <2>1, <2>5, <2>6, <2>8, <2>9, <2>10 DEF IInv, JournalOK
<1>16. CASE WriterFails
  <2>1. /\ ~crashed /\ crashed' = crashed /\ batch' = << >> /\ channel' = << >>
        /\ writer' = "failed"
        /\ UNCHANGED <<worker, unflushed, utterance, revision, lastText, log,
                       journaling, seq, lastCheckpoint, moments>>
    BY <1>16 DEF WriterFails
  <2>2. PICK n \in 0 .. Len(batch) : disk' = disk \o SubSeq(batch, 1, n)
    BY <1>16 DEF WriterFails
  <2>3. SequencesOK /\ ReadsOK /\ WriterOK
    BY <1>2, <2>1 DEF JournalOK
  <2>4. /\ disk' \in Seq(Lines) /\ Len(disk') <= Len(Sent)
        /\ \A i \in 1 .. Len(disk') : disk'[i] = Sent[i]
    BY <2>2, <2>3, FileReads
  <2>5. SequencesOK'
    BY <2>1, <2>3, <2>4 DEF SequencesOK
  <2>6. Sent' = disk'
    <3>1. \A a \in Seq(Lines) : a \o << >> \o << >> = a
      OBVIOUS
    <3> QED
      BY <2>1, <2>4, <3>1 DEF Sent
  <2>7. PICK M, N \in Nat : M = Len(disk') /\ N = Len(Sent)
    <3>1. Len(disk') \in Nat /\ Len(Sent) \in Nat
      BY <2>3, <2>4, SentIs
    <3> QED
      BY <3>1
  <2>8. M <= N /\ \A n_1 \in 0 .. M : n_1 \in 0 .. N
    BY <2>4, <2>7
  <2>9. \A i \in 1 .. M : Sent'[i] = Sent[i] /\ i \in 1 .. N
    BY <2>4, <2>6, <2>7, <2>8
  <2>10. \A k \in 0 .. M : Prefix(k)' = Prefix(k)
    <3>1. \A k \in 0 .. M : \A i \in 1 .. k : i \in 1 .. M
      BY <2>7
    <3> QED
      BY <2>9, <3>1 DEF Prefix
  <2>11. ReadsOK'
    <3>1. Len(Sent') = M /\ M < Len(moments)
      <4>1. N < Len(moments) /\ moments \in Seq(Sayings)
        BY <2>3, <2>7 DEF ReadsOK, SequencesOK
      <4>2. Len(moments) \in Nat
        BY <4>1
      <4> QED
        BY <2>6, <2>7, <2>8, <4>1, <4>2
    <3>2. \A i \in 1 .. M : Sent'[i].seq = i
      BY <2>3, <2>7, <2>9 DEF ReadsOK
    <3>3. \A k \in 0 .. M : HasLast(Prefix(k)) /\ Load(Prefix(k)) = moments[k + 1]
      BY <2>3, <2>7, <2>8 DEF ReadsOK
    <3>4. \A k \in 0 .. M : HasLast(Prefix(k)') /\ Load(Prefix(k)') = moments'[k + 1]
      BY <2>1, <2>10, <3>3
    <3> QED
      BY <2>1, <3>1, <3>2, <3>4 DEF ReadsOK
  <2>12. WriterOK'
    <3>1. worker # "ended" \/ writer' # "running"
      BY <2>1
    <3> QED
      BY <2>1, <3>1 DEF WriterOK
  <2>13. TrackerOK' /\ LogOK' /\ CheckpointOK'
    BY <1>1, <2>1, ShapesKept
  <2>14. FlushOK'
    BY <1>1, <2>1 DEF FlushOK
  <2> QED
    BY <1>1, <2>1, <2>5, <2>11, <2>12, <2>13, <2>14 DEF IInv, JournalOK
<1>17. CASE WriterEnds
  <2>1. /\ ~crashed /\ crashed' = crashed /\ writer = "running" /\ writer' = "ended"
        /\ batch = << >> /\ channel = << >> /\ ~journaling
        /\ UNCHANGED <<worker, unflushed, utterance, revision, lastText, log,
                       journaling, seq, lastCheckpoint, channel, batch, disk,
                       moments>>
    BY <1>17 DEF WriterEnds
  <2>2. SequencesOK /\ ReadsOK /\ WriterOK
    BY <1>2, <2>1 DEF JournalOK
  <2>3. Sent' = Sent /\ Transcript' = Transcript
    BY <2>1 DEF Sent, Transcript, Finished
  <2>4. SequencesOK'
    BY <2>1, <2>2 DEF SequencesOK
  <2>5. ReadsOK'
    BY <2>1, <2>2, <2>3, ReadsKept
  <2>6. WriterOK'
    BY <2>1, <2>2, <2>3 DEF WriterOK
  <2>7. TrackerOK' /\ LogOK' /\ CheckpointOK'
    BY <1>1, <2>1, ShapesKept
  <2>8. FlushOK'
    BY <1>1, <2>1 DEF FlushOK
  <2> QED
    BY <1>1, <2>1, <2>4, <2>5, <2>6, <2>7, <2>8 DEF IInv, JournalOK
<1>18. CASE Crash
  <2>1. /\ ~crashed /\ crashed' = TRUE /\ worker # "ended"
        /\ UNCHANGED <<worker, unflushed, utterance, revision, lastText, log,
                       journaling, seq, lastCheckpoint, moments>>
    BY <1>18 DEF Crash
  <2>2. PICK n \in 0 .. Len(batch) : disk' = disk \o SubSeq(batch, 1, n)
    BY <1>18 DEF Crash
  <2>3. SequencesOK /\ ReadsOK
    BY <1>2, <2>1 DEF JournalOK
  <2>4. Load(disk') = moments[Len(disk') + 1]
    BY <2>2, <2>3, FileReads
  <2>5. JournalIsAMoment'
    BY <2>1, <2>4 DEF JournalIsAMoment
  <2>6. TrackerOK' /\ LogOK' /\ CheckpointOK'
    BY <1>1, <2>1, ShapesKept
  <2>7. FlushOK'
    BY <1>1, <2>1 DEF FlushOK
  <2> QED
    BY <1>1, <2>1, <2>5, <2>6, <2>7 DEF IInv
<1> QED
  BY <1>6, <1>7, <1>8, <1>9, <1>10, <1>11, <1>12, <1>13, <1>14, <1>15, <1>16,
     <1>17, <1>18 DEF Next, WorkerStep, WriterStep

(* The inductive invariant.                                                *)
THEOREM Invariance == Spec => []IInv
<1>1. Init => IInv
  BY InitInv
<1>2. IInv /\ [Next]_vars => IInv'
  BY NextInv
<1> QED
  BY <1>1, <1>2, PTL DEF Spec

(* Whatever part of the journal a crash leaves on the disk, reading it     *)
(* gives the transcript as the worker had it after that many lines         *)
(* (load_journal), for any number of tracks, segments, revisions, lines    *)
(* and texts.                                                              *)
THEOREM JournalCorrect == Spec => []JournalIsAMoment
<1>1. IInv => JournalIsAMoment
  BY InvImplies
<1> QED
  BY <1>1, Invariance, PTL

(* A recording that stopped normally leaves a journal that reads as the    *)
(* very lines the draft minutes are made from (JournalWriter::finish).     *)
THEOREM ClosedCorrect == Spec => []ClosedJournalIsTheLog
<1>1. IInv => ClosedJournalIsTheLog
  BY InvImplies
<1> QED
  BY <1>1, Invariance, PTL

-----------------------------------------------------------------------------
(* The captions.                                                           *)

(* The worker has a revision of the segment in hand.                       *)
InHand(s) == toEmit # Nothing /\ toEmit.segment = s

(* The revision in hand is the latest of its segment: its final one, as    *)
(* the log has it, or a text of the segment that is being spoken.          *)
HandOK ==
    toEmit # Nothing =>
        /\ toEmit \in Events
        /\ toEmit.revision > 0
        /\ ~toEmit.speaker
        /\ IF Finished(toEmit.segment)
           THEN IF toEmit.text = Silence
                THEN toEmit.segment \notin DOMAIN log
                ELSE /\ toEmit.segment \in DOMAIN log
                     /\ log[toEmit.segment] = toEmit.text
           ELSE /\ toEmit.text # Silence
                /\ toEmit.segment[2] = utterance[toEmit.segment[1]]
                /\ toEmit.revision = revision[toEmit.segment[1]]

(* Each line of the window is of a segment that was spoken, no newer than  *)
(* what is in hand of it, but for the verifier's.                          *)
LinesOK ==
    \A s \in DOMAIN ui :
        /\ s \in Tracks \X Nat
        /\ s[2] <= utterance[s[1]]
        /\ ui[s] \in Events
        /\ ui[s].revision > 0
        /\ ~Finished(s) => ui[s].revision <= revision[s[1]]
        /\ Finished(s) /\ InHand(s) /\ s \notin attributed =>
              ui[s].revision < toEmit.revision

(* What waits for a speaker is the final revision of a segment of its own, *)
(* not attributed and not overtaken yet.                                   *)
QueueOK ==
    /\ verifying \in Seq(Events)
    /\ \A i \in DOMAIN verifying :
        LET job == verifying[i] IN
        /\ Finished(job.segment)
        /\ job.segment \in DOMAIN log
        /\ log[job.segment] = job.text
        /\ job.segment \notin attributed
        /\ InHand(job.segment) => job.revision = toEmit.revision
        /\ job.segment \in DOMAIN ui => ui[job.segment].revision <= job.revision
        /\ \A j \in DOMAIN verifying :
              verifying[j].segment = job.segment => j = i

(* A speaker is that of a segment in the log, with the log's text.         *)
SpeakersOK ==
    \A s \in attributed :
        /\ s \in Tracks \X Nat
        /\ Finished(s)
        /\ s \in DOMAIN log
        /\ s \in DOMAIN ui
        /\ ui[s].speaker
        /\ ui[s].text = log[s]
        /\ InHand(s) => ui[s].revision > toEmit.revision

(* A finished segment of which nothing is in hand is shown as logged, if   *)
(* its end reached the captions that are there.                            *)
FinishedOK ==
    \A s \in Tracks \X Nat :
        Finished(s) /\ ~InHand(s) =>
            /\ s \in DOMAIN ui => s \in DOMAIN log /\ ui[s].text = log[s]
            /\ s \in DOMAIN log \cap finals => s \in DOMAIN ui

(* Captions that are not mounted have nothing.                             *)
PanelOK == ~mounted => DOMAIN ui = {} /\ finals = {} /\ attributed = {}

(* The invariant of the captions.                                          *)
CaptionInv == HandOK /\ LinesOK /\ QueueOK /\ SpeakersOK /\ FinishedOK /\ PanelOK

(* Its parts, by name.                                                     *)
LEMMA Captions ==
    ASSUME CaptionInv
    PROVE  HandOK /\ LinesOK /\ QueueOK /\ SpeakersOK /\ FinishedOK /\ PanelOK
  BY DEF CaptionInv

(* What showing an event does: nothing when it is not newer, else the line *)
(* is the event's or gone; other lines stay.                               *)
LEMMA ShowIs ==
    ASSUME NEW e
    PROVE  /\ \A s : s # e.segment =>
                /\ s \in DOMAIN Show(e) <=> s \in DOMAIN ui
                /\ s \in DOMAIN ui => Show(e)[s] = ui[s]
           /\ \/ /\ e.segment \in DOMAIN ui /\ ui[e.segment].revision >= e.revision
                 /\ Show(e) = ui
              \/ /\ ~(e.segment \in DOMAIN ui /\ ui[e.segment].revision >= e.revision)
                 /\ e.text = Silence => e.segment \notin DOMAIN Show(e)
                 /\ e.text # Silence =>
                        e.segment \in DOMAIN Show(e) /\ Show(e)[e.segment] = e
<1>1. CASE e.segment \in DOMAIN ui /\ ui[e.segment].revision >= e.revision
  BY <1>1 DEF Show
<1>2. CASE ~(e.segment \in DOMAIN ui /\ ui[e.segment].revision >= e.revision)
  <2> DEFINE D == (DOMAIN ui \ {e.segment})
                    \cup (IF e.text = Silence THEN {} ELSE {e.segment})
  <2>1. Show(e) = [s \in D |-> IF s = e.segment THEN e ELSE ui[s]]
    BY <1>2 DEF Show
  <2>2. DOMAIN Show(e) = D /\ \A s \in D : Show(e)[s] = IF s = e.segment THEN e ELSE ui[s]
    BY <2>1
  <2> QED
    BY <1>2, <2>2
<1> QED
  BY <1>1, <1>2

(* The fields of an event.                                                 *)
LEMMA EventFields ==
    ASSUME NEW e \in Events
    PROVE  /\ e.segment \in Tracks \X Nat
           /\ e.revision \in Nat
           /\ e.text \in Texts \cup {Silence}
           /\ e.speaker \in BOOLEAN
  BY DEF Events

(* A step that touches neither tracker, log nor window.                    *)
LEMMA CaptionsKept ==
    ASSUME CaptionInv,
           UNCHANGED <<utterance, revision, log, toEmit, verifying, captions>>
    PROVE  CaptionInv'
<1>1. /\ \A s : Finished(s)' <=> Finished(s)
      /\ \A s : InHand(s)' <=> InHand(s)
  BY DEF Finished, InHand
<1> QED
  BY <1>1
  DEF captions, CaptionInv, HandOK, LinesOK, QueueOK, SpeakersOK, FinishedOK, PanelOK

(* A new text of the segment that is being spoken.                         *)
LEMMA PartialCaptions ==
    ASSUME TrackerOK, CaptionInv, NEW t \in Tracks, NEW text \in Texts, OnPartial(t, text)
    PROVE  CaptionInv'
<1>1. /\ toEmit = Nothing
      /\ UNCHANGED <<utterance, log, verifying, mounted, ui, finals, attributed>>
      /\ revision' = [revision EXCEPT ![t] = revision[t] + 1]
      /\ toEmit' = [segment |-> Current(t), revision |-> revision[t] + 1,
                    text |-> text, speaker |-> FALSE]
  BY DEF OnPartial, Free, window, captions
<1>2. utterance \in [Tracks -> Nat] /\ revision \in [Tracks -> Nat]
  BY DEF TrackerOK
<1>3. /\ Current(t) \in Tracks \X Nat /\ Current(t)[1] = t
      /\ Current(t)[2] = utterance[t] /\ ~Finished(Current(t))
  BY <1>2 DEF Current, Finished
<1>4. /\ toEmit' \in Events /\ toEmit'.segment = Current(t)
      /\ toEmit'.revision = revision[t] + 1
      /\ toEmit'.text = text /\ toEmit'.speaker = FALSE
  BY <1>1, <1>2, <1>3 DEF Events
<1>5. \A s : Finished(s)' <=> Finished(s)
  BY <1>1 DEF Finished
<1>6. /\ \A s : ~InHand(s)
      /\ \A s : InHand(s)' => ~Finished(s)
  BY <1>1, <1>3, <1>4 DEF InHand
<1>7. HandOK'
  BY <1>1, <1>2, <1>3, <1>4, <1>5, SilenceIsNoText DEF HandOK
<1>8. LinesOK'
  <2>1. \A u \in Tracks : revision[u] \in Nat /\ revision'[u] \in Nat
                          /\ revision[u] <= revision'[u]
    BY <1>1, <1>2
  <2>2. ASSUME NEW s \in DOMAIN ui, ~Finished(s)
        PROVE  ui[s].revision <= revision'[s[1]]
    <3>1. /\ s \in Tracks \X Nat /\ s[1] \in Tracks /\ ui[s].revision \in Nat
          /\ ui[s].revision <= revision[s[1]]
      BY <2>2, Captions, EventFields DEF LinesOK
    <3> QED
      BY <2>1, <3>1
  <2> QED
    BY <1>1, <1>5, <1>6, <2>2, Captions DEF LinesOK
<1>9. QueueOK' /\ SpeakersOK' /\ FinishedOK' /\ PanelOK'
  <2>1. QueueOK'
    BY <1>1, <1>5, <1>6, Captions DEF QueueOK
  <2>2. SpeakersOK'
    BY <1>1, <1>5, <1>6, Captions DEF SpeakersOK
  <2>3. FinishedOK'
    BY <1>1, <1>5, <1>6, Captions DEF FinishedOK
  <2>4. PanelOK'
    BY <1>1, Captions DEF PanelOK
  <2> QED
    BY <2>1, <2>2, <2>3, <2>4
<1> QED
  BY <1>7, <1>8, <1>9 DEF CaptionInv

(* The end of a segment, handed to the verifier or not.                    *)
LEMMA EndpointCaptions ==
    ASSUME TrackerOK, LogOK, CheckpointOK, CaptionInv, toEmit = Nothing,
           NEW t \in Tracks, NEW text \in Texts \cup {Silence}, OnEndpoint(t, text)
    PROVE  CaptionInv'
<1>1. /\ UNCHANGED <<mounted, ui, finals, attributed, lastCheckpoint>>
      /\ revision' = [revision EXCEPT ![t] = 0]
  BY DEF OnEndpoint, captions
<1>2. utterance \in [Tracks -> Nat] /\ revision \in [Tracks -> Nat]
  BY DEF TrackerOK
<1>3. /\ Current(t) \in Tracks \X Nat /\ Current(t)[1] = t
      /\ Current(t)[2] = utterance[t] /\ ~Finished(Current(t))
  BY <1>2 DEF Current, Finished
<1>4. \A u \in Tracks : revision'[u] = IF u = t THEN 0 ELSE revision[u]
  BY <1>1, <1>2
<1>5. \A s : ~InHand(s)
  BY DEF InHand
<1>6. CASE ~(revision[t] > 0 \/ text # Silence)
  <2>1. UNCHANGED <<utterance, toEmit, verifying, log>>
    BY <1>6 DEF OnEndpoint
  <2>2. revision' = revision
    <3>1. revision[t] = 0
      BY <1>2, <1>6
    <3> QED
      BY <1>1, <1>2, <3>1
  <2> QED
    BY <1>1, <2>1, <2>2, CaptionsKept DEF captions
<1>7. CASE revision[t] > 0 \/ text # Silence
  <2>0. PICK c : c = Current(t)
    OBVIOUS
  <2>1. PICK f : /\ f = [segment |-> c, revision |-> revision[t] + 1,
                         text |-> text, speaker |-> FALSE]
                 /\ utterance' = [utterance EXCEPT ![t] = utterance[t] + 1]
                 /\ toEmit' = f
                 /\ \/ verifying' = verifying
                    \/ text # Silence /\ verifying' = Append(verifying, f)
                 /\ log' = Note(log, c, text)
    BY <1>7, <2>0 DEF OnEndpoint
  <2>2. /\ f \in Events /\ f.segment = c /\ f.revision = revision[t] + 1
        /\ f.text = text /\ f.speaker = FALSE
    BY <1>2, <1>3, <2>0, <2>1 DEF Events
  <2>3. /\ \A s \in Tracks \X Nat : Finished(s)' <=> Finished(s) \/ s = c
        /\ LogOK'
    BY <1>1, <2>0, <2>1, FinishAmends
  <2>4. /\ c \notin DOMAIN log
        /\ DOMAIN log' = DOMAIN log \cup (IF text = Silence THEN {} ELSE {c})
        /\ \A s \in DOMAIN log' : log'[s] = IF s = c THEN text ELSE log[s]
    <3>1. c \notin DOMAIN log
      BY <1>3, <2>0 DEF LogOK
    <3> QED
      BY <2>1, <3>1 DEF Note
  <2>5. toEmit' # Nothing /\ \A s : InHand(s)' <=> s = c
    BY <2>1, <2>2, NothingIsNoEvent DEF InHand
  <2>6. /\ c \notin attributed
        /\ \A i \in DOMAIN verifying : verifying[i].segment # c
        /\ c \in DOMAIN ui => ui[c].revision <= revision[t]
    BY <1>3, <2>0, Captions DEF SpeakersOK, QueueOK, LinesOK
  <2>7. HandOK'
    <3>1. f.revision > 0
      BY <1>2, <2>2
    <3>2. Finished(c)'
      BY <1>3, <2>0, <2>3
    <3>3. IF text = Silence THEN c \notin DOMAIN log'
          ELSE c \in DOMAIN log' /\ log'[c] = text
      BY <2>4
    <3> QED
      BY <2>1, <2>2, <3>1, <3>2, <3>3 DEF HandOK
  <2>8. LinesOK'
    <3>1. SUFFICES ASSUME NEW s \in DOMAIN ui
                   PROVE  /\ s[2] <= utterance'[s[1]]
                          /\ ~Finished(s)' => ui[s].revision <= revision'[s[1]]
                          /\ InHand(s)' => ui[s].revision < toEmit'.revision
      BY <1>1, Captions DEF LinesOK
    <3>2. /\ s \in Tracks \X Nat /\ s[1] \in Tracks /\ s[2] \in Nat
          /\ s = <<s[1], s[2]>> /\ s[2] <= utterance[s[1]]
          /\ ui[s].revision \in Nat
          /\ ~Finished(s) => ui[s].revision <= revision[s[1]]
      BY Captions, EventFields DEF LinesOK
    <3>3. utterance'[s[1]] = IF s[1] = t THEN utterance[t] + 1 ELSE utterance[s[1]]
      BY <1>2, <2>1, <3>2
    <3>4. s[2] <= utterance'[s[1]]
      BY <1>2, <3>2, <3>3
    <3>5. ASSUME ~Finished(s)' PROVE ui[s].revision <= revision'[s[1]]
      <4>1. ~Finished(s) /\ s # c
        BY <2>3, <3>2, <3>5
      <4>2. s[1] # t
        <5>1. SUFFICES ASSUME s[1] = t PROVE FALSE
          OBVIOUS
        <5>2. s[2] = utterance[t]
          BY <1>2, <3>2, <4>1, <5>1 DEF Finished
        <5> QED
          BY <2>0, <3>2, <4>1, <5>1, <5>2 DEF Current
      <4> QED
        BY <1>4, <3>2, <4>1, <4>2
    <3>6. ASSUME InHand(s)' PROVE ui[s].revision < toEmit'.revision
      BY <1>2, <2>1, <2>2, <2>5, <2>6, <3>2, <3>6
    <3> QED
      BY <3>4, <3>5, <3>6
  <2>9. QueueOK'
    <3> DEFINE Good(job) ==
            /\ job.segment[2] < utterance'[job.segment[1]]
            /\ job.segment \in DOMAIN log'
            /\ log'[job.segment] = job.text
            /\ job.segment \notin attributed
            /\ job.segment = c => job.revision = f.revision
            /\ job.segment \in DOMAIN ui => ui[job.segment].revision <= job.revision
    <3>1. /\ verifying \in Seq(Events)
          /\ \A i \in DOMAIN verifying : verifying[i] \in Events
          /\ \A i, j \in DOMAIN verifying :
                verifying[j].segment = verifying[i].segment => j = i
      <4>1. verifying \in Seq(Events)
        BY Captions DEF QueueOK
      <4> QED
        BY <4>1, Captions DEF QueueOK
    <3>2. ASSUME NEW i \in DOMAIN verifying PROVE Good(verifying[i])
      <4>1. /\ verifying[i].segment \in Tracks \X Nat
            /\ Finished(verifying[i].segment)
            /\ verifying[i].segment \in DOMAIN log
            /\ log[verifying[i].segment] = verifying[i].text
            /\ verifying[i].segment \notin attributed
            /\ verifying[i].segment \in DOMAIN ui =>
                  ui[verifying[i].segment].revision <= verifying[i].revision
        BY <3>1, Captions, EventFields DEF QueueOK
      <4> QED
        BY <2>3, <2>4, <2>6, <4>1 DEF Finished
    <3>3. CASE verifying' = verifying
      BY <1>1, <2>1, <2>5, <3>1, <3>2, <3>3 DEF QueueOK, Finished
    <3>4. CASE text # Silence /\ verifying' = Append(verifying, f)
      <4>1. PICK n \in Nat : n = Len(verifying) /\ DOMAIN verifying = 1 .. n
        BY <3>1
      <4>0. /\ Append(verifying, f) \in Seq(Events)
            /\ DOMAIN Append(verifying, f) = 1 .. Len(verifying) + 1
            /\ \A i \in 1 .. Len(verifying) : Append(verifying, f)[i] = verifying[i]
            /\ Append(verifying, f)[Len(verifying) + 1] = f
        BY <2>2, <3>1
      <4>2. PICK q : /\ q = verifying' /\ q \in Seq(Events) /\ DOMAIN q = 1 .. n + 1
                     /\ \A i \in 1 .. n : q[i] = verifying[i]
                     /\ q[n + 1] = f
        BY <3>4, <4>0, <4>1
      <4>3. Good(f)
        <5>1. c \in DOMAIN log' /\ log'[c] = text
          BY <2>4, <3>4
        <5>3. c[2] < utterance'[c[1]]
          BY <1>3, <2>0, <2>3 DEF Finished
        <5>2. c \in DOMAIN ui => ui[c].revision <= f.revision
          <6>1. c \in DOMAIN ui => ui[c].revision \in Nat
            BY Captions, EventFields DEF LinesOK
          <6> QED
            BY <1>2, <2>2, <2>6, <6>1
        <5> QED
          BY <2>2, <2>6, <5>1, <5>2, <5>3
      <4>4. \A i \in 1 .. n + 1 : i \in 1 .. n \/ i = n + 1
        OBVIOUS
      <4>5. \A i \in DOMAIN q : Good(q[i])
        BY <3>2, <4>1, <4>2, <4>3, <4>4
      <4>6. \A i, j \in DOMAIN q :
               q[j].segment = q[i].segment => j = i
        BY <2>2, <2>6, <3>1, <4>1, <4>2, <4>4
      <4> HIDE DEF Good
      <4>7. \A i \in DOMAIN q : InHand(q[i].segment)' =>
               q[i].revision = toEmit'.revision
        BY <2>1, <2>5, <4>5 DEF Good
      <4>8. attributed' = attributed /\ ui' = ui
        BY <1>1
      <4> QED
        BY <4>2, <4>5, <4>6, <4>7, <4>8 DEF QueueOK, Good, Finished
    <3> QED
      BY <2>1, <3>3, <3>4
  <2>10. SpeakersOK'
    <3>1. \A s \in attributed : s # c /\ s \in Tracks \X Nat
      BY <2>6, Captions DEF SpeakersOK
    <3> QED
      BY <1>1, <2>3, <2>4, <2>5, <3>1, Captions DEF SpeakersOK
  <2>11. FinishedOK'
    <3>1. ASSUME NEW s \in Tracks \X Nat, Finished(s)', ~InHand(s)'
          PROVE  /\ s \in DOMAIN ui' => s \in DOMAIN log' /\ ui'[s].text = log'[s]
                 /\ s \in DOMAIN log' \cap finals' => s \in DOMAIN ui'
      <4>1. s # c /\ Finished(s)
        BY <2>3, <2>5, <3>1
      <4>2. /\ s \in DOMAIN log' <=> s \in DOMAIN log
            /\ s \in DOMAIN log => log'[s] = log[s]
        BY <2>4, <4>1
      <4> QED
        BY <1>1, <1>5, <4>1, <4>2, Captions DEF FinishedOK
    <3> QED
      BY <3>1 DEF FinishedOK
  <2> QED
    BY <1>1, <2>7, <2>8, <2>9, <2>10, <2>11, Captions DEF CaptionInv, PanelOK
<1> QED
  BY <1>6, <1>7

(* The captions are unmounted, mounted again, or miss what is emitted.     *)
LEMMA PanelCaptions ==
    ASSUME CaptionInv, Unmount \/ Mount \/ (Emit /\ ~mounted)
    PROVE  CaptionInv'
<1>1. /\ UNCHANGED <<utterance, revision, log, verifying>>
      /\ toEmit' \in {toEmit, Nothing}
      /\ DOMAIN ui' = {} /\ finals' = {} /\ attributed' = {}
  BY Captions DEF Unmount, Mount, Emit, Receive, captions, tracker, Empty, PanelOK
<1>2. /\ \A s : Finished(s)' <=> Finished(s)
      /\ \A s : InHand(s)' => InHand(s) /\ toEmit' = toEmit
  BY <1>1 DEF Finished, InHand
<1>3. HandOK' /\ LinesOK' /\ SpeakersOK' /\ FinishedOK' /\ PanelOK'
  BY <1>1, <1>2, Captions DEF HandOK, LinesOK, SpeakersOK, FinishedOK, PanelOK
<1>4. QueueOK'
  BY <1>1, <1>2, Captions DEF QueueOK
<1> QED BY <1>3, <1>4 DEF CaptionInv

(* The revision in hand reaches the captions.                              *)
LEMMA EmitCaptions ==
    ASSUME TrackerOK, CaptionInv, Emit, mounted
    PROVE  CaptionInv'
<1>1. /\ toEmit # Nothing /\ ui' = Show(toEmit) /\ toEmit' = Nothing
      /\ UNCHANGED <<utterance, revision, log, verifying, mounted, attributed>>
      /\ finals' \subseteq finals \cup {toEmit.segment}
  <2>1. toEmit # Nothing
    BY DEF Emit
  <2>2. ~toEmit.speaker
    BY <2>1, Captions DEF HandOK
  <2> QED
    BY <2>1, <2>2 DEF Emit, Receive, tracker
<1>2. PICK e \in Events : e = toEmit
  BY <1>1, Captions DEF HandOK
<1>3. PICK g : g = e.segment
  OBVIOUS
<1>4. /\ g \in Tracks \X Nat /\ e.revision \in Nat
      /\ utterance[g[1]] \in Nat /\ g[2] \in Nat
  BY <1>2, <1>3, EventFields DEF TrackerOK
<1>5. /\ \A s : Finished(s)' <=> Finished(s)
      /\ \A s : ~InHand(s)'
      /\ \A s : InHand(s) <=> s = g
  BY <1>1, <1>2, <1>3 DEF Finished, InHand
<1>6. /\ \A s : s # g => /\ s \in DOMAIN ui' <=> s \in DOMAIN ui
                         /\ s \in DOMAIN ui => ui'[s] = ui[s]
      /\ \/ /\ g \in DOMAIN ui /\ ui[g].revision >= e.revision
            /\ ui' = ui
         \/ /\ ~(g \in DOMAIN ui /\ ui[g].revision >= e.revision)
            /\ e.text = Silence => g \notin DOMAIN ui'
            /\ e.text # Silence => g \in DOMAIN ui' /\ ui'[g] = e
  BY <1>1, <1>2, <1>3, ShowIs
<1>7. /\ ~e.speaker
      /\ Finished(g) => IF e.text = Silence THEN g \notin DOMAIN log
                        ELSE g \in DOMAIN log /\ log[g] = e.text
      /\ ~Finished(g) => /\ e.text # Silence
                         /\ g[2] = utterance[g[1]] /\ e.revision = revision[g[1]]
  BY <1>1, <1>2, <1>3, Captions DEF HandOK
<1>8. \A s \in DOMAIN ui :
        /\ s \in Tracks \X Nat /\ s[2] <= utterance[s[1]] /\ ui[s] \in Events
        /\ ui[s].revision > 0 /\ ui[s].revision \in Nat
        /\ ~Finished(s) => ui[s].revision <= revision[s[1]]
        /\ Finished(s) /\ s = g /\ s \notin attributed => ui[s].revision < e.revision
  BY <1>2, <1>5, Captions, EventFields DEF LinesOK
<1>9. \A s \in attributed :
        /\ s \in Tracks \X Nat /\ Finished(s) /\ s \in DOMAIN log
        /\ s \in DOMAIN ui /\ ui[s].speaker /\ ui[s].text = log[s]
        /\ s = g => ui[s].revision > e.revision
  BY <1>2, <1>5, Captions DEF SpeakersOK
<1>10. g \in attributed => ui' = ui
  <2>1. g \in attributed => g \in DOMAIN ui /\ ui[g].revision > e.revision
    BY <1>9
  <2> QED
    BY <1>4, <1>6, <1>8, <2>1
<1>11. HandOK'
  BY <1>1 DEF HandOK
<1>12. LinesOK'
  <2>1. e.revision > 0
    BY <1>1, <1>2, Captions DEF HandOK
  <2>2. ASSUME NEW s \in DOMAIN ui'
        PROVE  /\ s \in Tracks \X Nat /\ s[2] <= utterance[s[1]] /\ ui'[s] \in Events
               /\ ui'[s].revision > 0
               /\ ~Finished(s) => ui'[s].revision <= revision[s[1]]
    <3>1. CASE s \in DOMAIN ui /\ ui'[s] = ui[s]
      BY <1>8, <3>1
    <3>2. CASE s = g /\ ui'[s] = e
      <4>1. g[2] <= utterance[g[1]]
        BY <1>4, <1>7 DEF Finished
      <4>2. ~Finished(g) => e.revision <= revision[g[1]]
        BY <1>4, <1>7
      <4> QED
        BY <1>4, <2>1, <3>2, <4>1, <4>2
    <3> QED
      BY <1>6, <3>1, <3>2
  <2> QED
    BY <1>1, <1>5, <2>2 DEF LinesOK
<1>13. QueueOK'
  <2>1. ASSUME NEW i \in DOMAIN verifying, verifying[i].segment \in DOMAIN ui'
        PROVE  ui'[verifying[i].segment].revision <= verifying[i].revision
    <3>1. /\ verifying[i] \in Events
          /\ verifying[i].segment = g => verifying[i].revision = e.revision
          /\ verifying[i].segment \in DOMAIN ui =>
                ui[verifying[i].segment].revision <= verifying[i].revision
      BY <1>2, <1>5, Captions DEF QueueOK
    <3>2. verifying[i].revision \in Nat
      BY <3>1, EventFields
    <3> QED
      BY <1>4, <1>6, <2>1, <3>1, <3>2
  <2> QED
    BY <1>1, <1>5, <2>1, Captions DEF QueueOK
<1>14. SpeakersOK'
  <2>1. \A s \in attributed : s \in DOMAIN ui' /\ ui'[s] = ui[s]
    BY <1>6, <1>9, <1>10
  <2> QED
    BY <1>1, <1>5, <1>9, <2>1 DEF SpeakersOK
<1>15. FinishedOK'
  <2>1. ASSUME NEW s \in Tracks \X Nat, Finished(s), s # g
        PROVE  /\ s \in DOMAIN ui' => s \in DOMAIN log /\ ui'[s].text = log[s]
               /\ s \in DOMAIN log \cap finals' => s \in DOMAIN ui'
    BY <1>1, <1>2, <1>3, <1>5, <1>6, <2>1, Captions DEF FinishedOK
  <2>2. ASSUME Finished(g)
        PROVE  /\ g \in DOMAIN ui' => g \in DOMAIN log /\ ui'[g].text = log[g]
               /\ g \in DOMAIN log => g \in DOMAIN ui'
    <3>1. CASE g \in attributed
      BY <1>9, <1>10, <3>1
    <3>2. CASE g \notin attributed
      <4>1. ~(g \in DOMAIN ui /\ ui[g].revision >= e.revision)
        BY <1>4, <1>8, <2>2, <3>2
      <4> QED
        BY <1>6, <1>7, <2>2, <4>1
    <3> QED
      BY <3>1, <3>2
  <2> QED
    BY <1>1, <1>5, <2>1, <2>2 DEF FinishedOK
<1> QED
  BY <1>1, <1>11, <1>12, <1>13, <1>14, <1>15 DEF CaptionInv, PanelOK

(* The verifier's revision, before or after the worker's own.              *)
LEMMA VerifyCaptions ==
    ASSUME TrackerOK, LogOK, CaptionInv, Verify
    PROVE  CaptionInv'
<1>1. /\ verifying # << >> /\ verifying' = Tail(verifying)
      /\ UNCHANGED <<utterance, revision, log, toEmit>>
      /\ \/ UNCHANGED captions
         \/ mounted /\ Receive([Head(verifying) EXCEPT
                                   !.revision = Head(verifying).revision + 1,
                                   !.speaker = TRUE])
  BY DEF Verify, Receive, tracker
<1>2. verifying \in Seq(Events)
  BY Captions DEF QueueOK
<1>3. PICK n \in Nat : /\ n = Len(verifying) /\ DOMAIN verifying = 1 .. n /\ n >= 1
                       /\ DOMAIN verifying' = 1 .. n - 1
                       /\ \A i \in 1 .. n - 1 : verifying'[i] = verifying[i + 1]
                       /\ verifying' \in Seq(Events)
                       /\ Head(verifying) = verifying[1]
  <2>1. Len(verifying) \in Nat /\ DOMAIN verifying = 1 .. Len(verifying)
        /\ Len(verifying) >= 1 /\ Head(verifying) = verifying[1]
    BY <1>1, <1>2
  <2>2. Tail(verifying) \in Seq(Events) /\ DOMAIN Tail(verifying) = 1 .. Len(verifying) - 1
        /\ \A i \in 1 .. Len(verifying) - 1 : Tail(verifying)[i] = verifying[i + 1]
    BY <1>1, <1>2
  <2> QED
    BY <1>1, <2>1, <2>2
<1>4. \A i \in 1 .. n - 1 : i + 1 \in 1 .. n /\ i + 1 # 1
  OBVIOUS
<1>5. /\ \A s : Finished(s)' <=> Finished(s)
      /\ \A s : InHand(s)' <=> InHand(s)
  BY <1>1 DEF Finished, InHand
<1>6. PICK job \in Events : job = verifying[1]
  BY <1>2, <1>3
<1>7. PICK g : g = job.segment
  OBVIOUS
<1>8. /\ g \in Tracks \X Nat /\ job.revision \in Nat
      /\ Finished(g) /\ g \in DOMAIN log /\ log[g] = job.text /\ g \notin attributed
      /\ InHand(g) => job.revision = toEmit.revision
      /\ g \in DOMAIN ui => ui[g].revision <= job.revision
      /\ \A j \in DOMAIN verifying : verifying[j].segment = g => j = 1
  BY <1>3, <1>6, <1>7, Captions, EventFields DEF QueueOK
<1>9. CASE UNCHANGED captions
  <2>1. QueueOK'
    BY <1>1, <1>3, <1>4, <1>5, <1>9, Captions DEF QueueOK, captions
  <2>2. HandOK' /\ LinesOK' /\ SpeakersOK' /\ FinishedOK' /\ PanelOK'
    BY <1>1, <1>5, <1>9, Captions
    DEF HandOK, LinesOK, SpeakersOK, FinishedOK, PanelOK, captions
  <2> QED
    BY <2>1, <2>2 DEF CaptionInv
<1>10. ASSUME mounted, Receive([Head(verifying) EXCEPT
                                  !.revision = Head(verifying).revision + 1,
                                  !.speaker = TRUE])
       PROVE  CaptionInv'
  <2>1. PICK e : e = [job EXCEPT !.revision = job.revision + 1, !.speaker = TRUE]
    OBVIOUS
  <2>2. /\ e \in Events /\ e.segment = g /\ e.revision = job.revision + 1
        /\ e.text = job.text /\ e.speaker = TRUE
    <3>1. e = [segment |-> job.segment, revision |-> job.revision + 1,
               text |-> job.text, speaker |-> TRUE]
      BY <2>1 DEF Events
    <3>2. job.revision + 1 \in Nat /\ job.segment \in Tracks \X Nat
          /\ job.text \in Texts \cup {Silence}
      BY EventFields
    <3> QED
      BY <1>7, <3>1, <3>2 DEF Events
  <2>3. /\ ui' = Show(e) /\ attributed' = attributed \cup {g}
        /\ finals' \subseteq finals \cup {g} /\ mounted'
    <3>1. Receive(e)
      BY <1>3, <1>6, <1>10, <2>1
    <3> QED
      BY <1>10, <2>2, <3>1 DEF Receive
  <2>4. \A s \in DOMAIN ui :
          /\ s \in Tracks \X Nat /\ s[2] <= utterance[s[1]] /\ ui[s] \in Events
          /\ ui[s].revision > 0 /\ ui[s].revision \in Nat
          /\ ~Finished(s) => ui[s].revision <= revision[s[1]]
          /\ Finished(s) /\ InHand(s) /\ s \notin attributed =>
                ui[s].revision < toEmit.revision
    BY Captions, EventFields DEF LinesOK
  <2>5. e.text # Silence
    BY <1>8, <2>2 DEF LogOK
  <2>6. ~(g \in DOMAIN ui /\ ui[g].revision >= e.revision)
    BY <1>8, <2>2, <2>4
  <2>7. /\ g \in DOMAIN ui' /\ ui'[g] = e
        /\ \A s : s # g => /\ s \in DOMAIN ui' <=> s \in DOMAIN ui
                           /\ s \in DOMAIN ui => ui'[s] = ui[s]
    BY <2>2, <2>3, <2>5, <2>6, ShowIs
  <2>8. HandOK'
    BY <1>1, <1>5, Captions DEF HandOK
  <2>9. LinesOK'
    <3>1. g[2] <= utterance[g[1]]
      BY <1>8 DEF Finished, TrackerOK
    <3>2. e.revision > 0
      BY <1>8, <2>2
    <3> QED
      BY <1>1, <1>5, <1>8, <2>2, <2>3, <2>4, <2>7, <3>1, <3>2 DEF LinesOK
  <2>10. QueueOK'
    <3>1. ASSUME NEW i \in 1 .. n - 1
          PROVE  verifying[i + 1].segment # g
      BY <1>3, <1>4, <1>8
    <3> QED
      BY <1>1, <1>3, <1>4, <1>5, <2>3, <2>7, <3>1, Captions DEF QueueOK
  <2>11. SpeakersOK'
    <3>1. InHand(g) => e.revision > toEmit.revision
      BY <1>8, <2>2
    <3> QED
      BY <1>1, <1>5, <1>8, <2>2, <2>3, <2>7, <3>1, Captions DEF SpeakersOK
  <2>12. FinishedOK'
    BY <1>1, <1>5, <1>8, <2>2, <2>3, <2>7, Captions DEF FinishedOK
  <2> QED
    BY <2>3, <2>8, <2>9, <2>10, <2>11, <2>12 DEF CaptionInv, PanelOK
<1> QED
  BY <1>1, <1>9, <1>10

(* The initial state and every step.                                       *)
LEMMA InitCaptions == Init => CaptionInv
<1> SUFFICES ASSUME Init PROVE CaptionInv
  OBVIOUS
<1>1. \A s \in Tracks \X Nat : ~Finished(s)
  BY DEF Init, Finished
<1>2. /\ toEmit = Nothing /\ verifying = << >> /\ attributed = {} /\ DOMAIN ui = {}
      /\ mounted
  BY DEF Init, Empty
<1>3. verifying \in Seq(Events) /\ DOMAIN verifying = {}
  BY <1>2
<1> QED
  BY <1>1, <1>2, <1>3
  DEF CaptionInv, HandOK, LinesOK, QueueOK, SpeakersOK, FinishedOK, PanelOK

LEMMA NextCaptions ==
    ASSUME IInv, CaptionInv, [Next]_vars
    PROVE  CaptionInv'
<1>1. TrackerOK /\ LogOK /\ CheckpointOK /\ unflushed \in Seq(Tracks)
  BY DEF IInv, FlushOK
<1>2. ASSUME NEW t \in Tracks, NEW text \in Texts, OnPartial(t, text)
      PROVE  CaptionInv'
  BY <1>1, <1>2, PartialCaptions
<1>3. ASSUME NEW t \in Tracks, NEW text \in Texts \cup {Silence}, Endpoint(t, text)
      PROVE  CaptionInv'
  BY <1>1, <1>3, EndpointCaptions DEF Endpoint, Free
<1>4. ASSUME NEW text \in Texts \cup {Silence}, Flush(text)
      PROVE  CaptionInv'
  <2>1. Head(unflushed) \in Tracks
    BY <1>1, <1>4 DEF Flush
  <2> QED
    BY <1>1, <1>4, <2>1, EndpointCaptions DEF Flush, Free
<1>5. CASE Emit \/ Unmount \/ Mount
  BY <1>1, <1>5, EmitCaptions, PanelCaptions
<1>6. CASE Verify
  BY <1>1, <1>6, VerifyCaptions
<1>7. CASE Finish \/ End \/ Checkpoint \/ Stop \/ Crash \/ WriterStep \/ UNCHANGED vars
  <2>1. UNCHANGED <<utterance, revision, log, toEmit, verifying, captions>>
    BY <1>7 DEF Finish, End, Checkpoint, Stop, Crash, WriterStep, WriterTakes,
       WriterSyncs, WriterFails, WriterEnds, vars, tracker, window
  <2> QED
    BY <2>1, CaptionsKept
<1> QED
  BY <1>2, <1>3, <1>4, <1>5, <1>6, <1>7 DEF Next, WorkerStep

(* The captions have what they were sent as the log has it, with every     *)
(* attributed speaker, in whatever order the worker's and the verifier's   *)
(* events arrive (emit, run_verifier and the listener of the window), and  *)
(* however often they are unmounted and mounted again.                     *)
THEOREM CaptionsCorrect == Spec => []WindowFollowsLog
<1>1. Init => CaptionInv
  BY InitCaptions
<1>2. IInv /\ CaptionInv /\ [Next]_vars => CaptionInv'
  BY NextCaptions
<1>3. CaptionInv => WindowFollowsLog
  <2>1. ASSUME CaptionInv, NEW s \in Segments, Finished(s),
               toEmit = Nothing \/ toEmit.segment # s
        PROVE  /\ s \in DOMAIN ui => s \in DOMAIN log /\ ui[s].text = log[s]
               /\ s \in DOMAIN log \cap finals => s \in DOMAIN ui
    <3>1. s \in Tracks \X Nat /\ Finished(s) /\ ~InHand(s)
      BY <2>1, BoundsAreNat DEF Segments, Finished, InHand
    <3> QED
      BY <2>1, <3>1, Captions DEF FinishedOK
  <2>2. CaptionInv => AttributionIsKept
    BY Captions DEF AttributionIsKept, SpeakersOK
  <2> QED
    BY <2>1, <2>2 DEF WindowFollowsLog, WindowAgreesWithLog
<1> QED
  BY <1>1, <1>2, <1>3, Invariance, PTL DEF Spec
=============================================================================
