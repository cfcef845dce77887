-------------------------- MODULE MeetingWatchProofs --------------------------
(***************************************************************************)
(* Proofs about MeetingWatch, for any tracks, thresholds, countdowns and   *)
(* bounds: countdowns and automatic stops belong to the recording they are *)
(* shown for, a Keep grants what it promises, and a recording nobody stops *)
(* ends.                                                                   *)
(***************************************************************************)
EXTENDS MeetingWatch, WellFoundedInduction, TLAPS

Time == Nat \cup {None}

Watch == [baseline : Nat, last : Time, warned : Time, generation : Nat]

Types ==
    /\ count \in Nat
    /\ owner \in {None, count} /\ (owner # None => count \in Meeting)
    /\ count <= MaxMeetings
    /\ main \in {"free", "join_silence", "join_duration", "joined", "cleared"}
    /\ elapsed \in Nat
    /\ quiet \in [Track -> Time]
    /\ watching \subseteq Kind /\ due \subseteq Kind
    /\ watch \in [Kind -> Watch]
    /\ action \in [Kind -> {"none", "warn", "clear", "stop"}]
    /\ keeps \in [Kind -> Nat]
    /\ keptAt \in [Kind -> Time]
    /\ window \in [Kind -> Meeting \cup {None}]

\* The threads run from the start of a recording until they are joined, and a
\* thread that was joined has emitted what it had decided.
Threads ==
    /\ owner = None => main = "free" /\ watching = {}
    /\ owner # None /\ main \in {"free", "join_silence"} => watching = Kind
    /\ main = "join_duration" => watching = {"duration"}
    /\ main \in {"joined", "cleared"} => watching = {}
    /\ \A k \in Kind : action[k] # "none" => k \in watching

\* A countdown is of the recording at hand, and on the screen as long as its
\* thread has warned, unless the recording was asked to stop.
Announced ==
    /\ \A k \in Kind : window[k] # None => window[k] = owner
    /\ main = "cleared" => \A k \in Kind : window[k] = None
    /\ \A k \in watching :
          /\ action[k] = "clear" => watch[k].warned = None
          /\ action[k] = "stop" => watch[k].warned # None
          /\ watch[k].warned # None /\ action[k] # "warn" =>
                window[k] = owner \/ owner \in asked

\* Nobody knows of later recordings; who asked this one to stop is waiting for
\* the main thread; Keeps are counted.
Asked ==
    /\ \A m \in asked : m \in Nat /\ m <= count
    /\ \A c \in calls : c.meeting \in Nat /\ c.meeting <= count
    /\ owner # None /\ owner \in asked => StopCall(owner) \in calls \/ main # "free"
    /\ \A k \in Kind : keeps[k] <= MaxKeeps /\ watch[k].generation <= keeps[k]
    /\ \A k \in Kind : KeepCall(k, owner) \in calls => keeps[k] < MaxKeeps

Limit == Threshold["duration"] + Countdown["duration"]

\* The age the thread that watches it has seen.
Polled == IF "duration" \in due THEN elapsed - 1 ELSE elapsed

\* The age is judged from the last acknowledged one; a whole limit after it the
\* stop is decided, and time stands still until it has run.
Aged ==
    LET w == watch["duration"] IN
    owner # None =>
        /\ "duration" \in due => elapsed >= 1
        /\ w.baseline <= Polled
        /\ w.last # None => w.last <= Polled
        /\ w.warned = None => Polled < w.baseline + Threshold["duration"]
        /\ w.warned # None => w.warned = Threshold["duration"]
        /\ \/ Polled < w.baseline + Limit
           \/ /\ Polled = w.baseline + Limit /\ "duration" \notin due
              /\ action["duration"] = "stop" \/ owner \in asked
        /\ w.baseline <= w.generation * Limit

\* Silence goes on by one poll at a time, or ends.
Silent ==
    LET last == watch["silence"].last
        now  == Measured("silence")
    IN  owner # None =>
        /\ "silence" \notin due => last = now
        /\ "silence" \in due =>
              IF last = None THEN now \in {None, 0} ELSE now \in {0, last, last + 1}

\* What was measured since the baseline is no older than the accepted Keep.
Fresh ==
    \A k \in Kind :
        owner # None =>
        /\ watch[k].warned # None => watch[k].warned >= Threshold[k]
        /\ keptAt[k] # None =>
              /\ keptAt[k] <= elapsed
              /\ watch[k].generation = keeps[k] /\ Measured(k) # None =>
                    Measured(k) + keptAt[k] <= elapsed + watch[k].baseline

IndInv ==
    /\ Types
    /\ Threads
    /\ Announced
    /\ Asked
    /\ Aged
    /\ Silent
    /\ Fresh

-----------------------------------------------------------------------------
LEMMA LeastNumber ==
    ASSUME NEW T \in SUBSET Nat, T # {}
    PROVE  \E x \in T : \A y \in T : x <= y
<1> DEFINE R == OpToRel(<, Nat)
<1>1. IsWellFoundedOn(R, Nat)
  BY NatLessThanWellFounded
<1>2. \A x, y \in Nat : y < x => <<y, x>> \in R
  BY DEF OpToRel
<1> HIDE DEF R
<1>3. PICK x \in T : \A y \in T : ~(<<y, x>> \in R)
  BY <1>1, WFMin
<1>4. ASSUME NEW y \in T PROVE x <= y
  <2>1. ~(y < x)
    BY <1>2, <1>3
  <2> QED BY <2>1
<1> QED BY <1>4

\* What active_meeting_silence_seconds gives of the tracks q.
Least(q) ==
    LET known == {q[t] : t \in Track} \ {None}
    IN  IF known = {} THEN None
        ELSE CHOOSE least \in known : \A other \in known : least <= other

\* It is the shortest silence of a track that was heard, if one was.
LEMMA LeastSilence ==
    ASSUME NEW q \in [Track -> Time]
    PROVE  \/ Least(q) = None /\ \A t \in Track : q[t] = None
           \/ /\ Least(q) \in Nat
              /\ \E t \in Track : q[t] = Least(q)
              /\ \A t \in Track : q[t] # None => Least(q) <= q[t]
<1> DEFINE known == {q[t] : t \in Track} \ {None}
<1>1. known \in SUBSET Nat
  BY DEF Time
<1>2. CASE known = {}
  BY <1>2 DEF Least
<1>3. CASE known # {}
  <2>1. \E x \in known : \A y \in known : x <= y
    <3> HIDE DEF known
    <3> QED BY <1>1, <1>3, LeastNumber
  <2>2. Least(q) = CHOOSE x \in known : \A y \in known : x <= y
    BY <1>3 DEF Least
  <2>3. Least(q) \in known /\ \A y \in known : Least(q) <= y
    <3> HIDE DEF known
    <3> QED BY <2>1, <2>2
  <2> QED BY <1>1, <2>3
<1> QED BY <1>2, <1>3

LEMMA MeasuredTime ==
    ASSUME Types, NEW k \in Kind
    PROVE  /\ Measured(k) \in Time
           /\ Measured("duration") = elapsed
           /\ Measured("silence") = Least(quiet)
<1>1. Measured("duration") = elapsed /\ Measured("silence") = Least(quiet)
  BY DEF Measured, Least
<1>2. Least(quiet) \in Time
  BY LeastSilence, WatchAssumption DEF Types, Time
<1>3. k = "duration" \/ k = "silence"
  BY DEF Kind
<1> QED BY <1>1, <1>2, <1>3 DEF Types, Time

\* The outcomes of SilenceWatchdogState::observe and MaxDurationWatchdogState::observe.
Outcome(k, w, v, n, a) ==
    LET effective == IF v < w.baseline THEN 0 ELSE v - w.baseline IN
    \/ /\ \/ keeps[k] # w.generation \/ v = None
          \/ w.last # None /\ v < w.last
       /\ n.baseline = IF keeps[k] = w.generation \/ v = None THEN 0 ELSE v
       /\ n.warned = None /\ a = IF w.warned = None THEN "none" ELSE "clear"
    \/ /\ keeps[k] = w.generation /\ v # None /\ ~(w.last # None /\ v < w.last)
       /\ n.baseline = w.baseline
       /\ \/ /\ w.warned = None /\ effective >= Threshold[k]
             /\ n.warned = effective /\ a = "warn"
          \/ /\ w.warned = None /\ ~(effective >= Threshold[k])
             /\ n.warned = None /\ a = "none"
          \/ /\ w.warned # None /\ effective >= w.warned + Countdown[k]
             /\ n.warned = w.warned /\ a = "stop"
          \/ /\ w.warned # None /\ ~(effective >= w.warned + Countdown[k])
             /\ n.warned = w.warned /\ a = "none"

LEMMA Observed ==
    ASSUME NEW k \in Kind, watch[k] \in Watch, keeps[k] \in Nat, NEW v \in Time
    PROVE  /\ Observe(k, v).watch \in Watch
           /\ Observe(k, v).action \in {"none", "warn", "clear", "stop"}
           /\ Observe(k, v).watch.last = v
           /\ Observe(k, v).watch.generation = keeps[k]
           /\ Outcome(k, watch[k], v, Observe(k, v).watch, Observe(k, v).action)
<1> DEFINE w == watch[k]
           effective == IF v < w.baseline THEN 0 ELSE v - w.baseline
<1>0. /\ w \in Watch /\ None \notin Nat /\ 0 \in Nat /\ 0 \in Time /\ None \in Time
      /\ w.baseline \in Nat /\ w.warned \in Time /\ w.last \in Time /\ w.generation \in Nat
  BY WatchAssumption DEF Watch, Time
<1> HIDE DEF w
<1>1. ASSUME NEW x \in Watch, NEW b \in Nat, NEW l \in Time
      PROVE  /\ Rearmed(x, b, l).watch \in Watch
             /\ Rearmed(x, b, l).watch.baseline = b
             /\ Rearmed(x, b, l).watch.last = l
             /\ Rearmed(x, b, l).watch.warned = None
             /\ Rearmed(x, b, l).watch.generation = x.generation
             /\ Rearmed(x, b, l).action = IF x.warned = None THEN "none" ELSE "clear"
  BY <1>0 DEF Rearmed, Decision, Watch
<1>2. CASE keeps[k] # w.generation
  <2> DEFINE x == [w EXCEPT !.generation = keeps[k]]
             b == IF v = None THEN 0 ELSE v
  <2>1. x \in Watch /\ x.generation = keeps[k] /\ x.warned = w.warned
    BY <1>0 DEF Watch
  <2>2. b \in Nat
    BY DEF Time
  <2>3. Observe(k, v) = Rearmed(x, b, v)
    BY <1>2 DEF Observe, w
  <2> HIDE DEF x, b
  <2>4. Outcome(k, w, v, Observe(k, v).watch, Observe(k, v).action)
    BY <1>1, <1>2, <2>1, <2>2, <2>3 DEF Outcome, b
  <2> QED BY <1>1, <2>1, <2>2, <2>3, <2>4 DEF w
<1>3. CASE keeps[k] = w.generation /\ v = None
  <2>1. Observe(k, v) = Rearmed(w, 0, v)
    BY <1>3 DEF Observe, w
  <2>2. Outcome(k, w, v, Observe(k, v).watch, Observe(k, v).action)
    BY <1>0, <1>1, <1>3, <2>1 DEF Outcome
  <2> QED BY <1>0, <1>1, <1>3, <2>1, <2>2 DEF w
<1>4. CASE keeps[k] = w.generation /\ v # None /\ w.last # None /\ v < w.last
  <2>1. Observe(k, v) = Rearmed(w, 0, v)
    BY <1>4 DEF Observe, SoundResumed, w
  <2>2. Outcome(k, w, v, Observe(k, v).watch, Observe(k, v).action)
    BY <1>0, <1>1, <1>4, <2>1 DEF Outcome
  <2> QED BY <1>0, <1>1, <1>4, <2>1, <2>2 DEF w
<1>5. CASE keeps[k] = w.generation /\ v # None /\ ~(w.last # None /\ v < w.last)
  <2>1. Observe(k, v) = Judged(k, w, v)
    BY <1>5 DEF Observe, SoundResumed, w
  <2>2. effective \in Nat
    BY <1>0, <1>5 DEF Time
  <2> DEFINE x == [w EXCEPT !.last = v]
             y == [x EXCEPT !.warned = effective]
  <2>3. /\ x \in Watch /\ x.last = v /\ x.baseline = w.baseline
        /\ x.warned = w.warned /\ x.generation = w.generation
    BY <1>0 DEF Watch
  <2>4. /\ y \in Watch /\ y.last = v /\ y.baseline = w.baseline
        /\ y.warned = effective /\ y.generation = w.generation
    BY <1>0, <2>2, <2>3 DEF Watch, Time
  <2>5. Judged(k, w, v) =
          IF w.warned = None
          THEN IF effective >= Threshold[k] THEN Decision(y, "warn") ELSE Decision(x, "none")
          ELSE IF effective >= w.warned + Countdown[k] THEN Decision(x, "stop")
               ELSE Decision(x, "none")
    BY DEF Judged
  <2>6. \A z, a : Decision(z, a).watch = z /\ Decision(z, a).action = a
    BY DEF Decision
  <2> HIDE DEF x, y
  <2>7. Outcome(k, w, v, Observe(k, v).watch, Observe(k, v).action)
    BY <1>5, <2>1, <2>3, <2>4, <2>5, <2>6 DEF Outcome
  <2>8. /\ Observe(k, v).watch \in {x, y}
        /\ Observe(k, v).action \in {"none", "warn", "stop"}
    BY <2>1, <2>5, <2>6
  <2> QED BY <1>5, <2>3, <2>4, <2>7, <2>8 DEF w
<1> QED BY <1>2, <1>3, <1>4, <1>5

-----------------------------------------------------------------------------
LEMMA InitInv == Init => IndInv
<1> SUFFICES ASSUME Init PROVE IndInv
  OBVIOUS
<1> USE WatchAssumption DEF Init, ForEach
<1>1. Types
  BY DEF Types, NewWatch, Watch, Time, Kind
<1>2. Threads /\ Announced
  BY DEF Threads, Announced, NewWatch
<1>3. Asked
  BY DEF Asked, NewWatch, Kind
<1>4. Aged /\ Silent /\ Fresh
  BY DEF Aged, Silent, Fresh
<1> QED BY <1>1, <1>2, <1>3, <1>4 DEF IndInv

\* What does not touch the clocks and the state machines keeps what is said of
\* them, if a stop under way stays under way.
LEMMA ClocksHold ==
    ASSUME IndInv, UNCHANGED <<owner, elapsed, quiet, due, watch, keeps, keptAt>>,
           owner # None /\ (action["duration"] = "stop" \/ owner \in asked) =>
               (action'["duration"] = "stop" \/ owner \in asked')
    PROVE  Aged' /\ Silent' /\ Fresh'
<1>1. Measured("silence")' = Measured("silence")
      /\ \A k \in Kind : Measured(k)' = Measured(k)
  BY DEF Measured
<1>2. Aged'
  BY DEF IndInv, Aged, Polled
<1>3. Silent' /\ Fresh'
  BY <1>1 DEF IndInv, Silent, Fresh
<1> QED BY <1>2, <1>3

\* What leaves the commands, their counters and the recording alone.
LEMMA CallsHold ==
    ASSUME IndInv, UNCHANGED <<count, owner, main, asked, calls, keeps>>,
           \A k \in Kind : watch'[k].generation <= keeps[k]
    PROVE  Asked'
  BY DEF IndInv, Asked

LEMMA Arithmetic ==
    ASSUME NEW g \in Nat, NEW h \in Nat, NEW l \in Nat, g < h
    PROVE  g * l + l <= h * l
<1>1. PICK d \in Nat : h = g + 1 + d
  <2>1. h - g - 1 \in Nat /\ h = g + 1 + (h - g - 1)
    OBVIOUS
  <2> QED BY <2>1
<1>2. h * l = g * l + l + d * l
  BY <1>1
<1>3. d * l \in Nat /\ g * l \in Nat
  OBVIOUS
<1> QED BY <1>2, <1>3

\* A poll of either thread.
LEMMA PollStep ==
    ASSUME IndInv, NEW k \in Kind, Poll(k)
    PROVE  IndInv'
<1> DEFINE v == Measured(k)
           w == watch[k]
           n == Observe(k, v).watch
           a == Observe(k, v).action
<1>1. /\ k \in due /\ k \in watching /\ action[k] = "none"
      /\ due' = due \ {k}
      /\ watch' = [watch EXCEPT ![k] = n] /\ action' = [action EXCEPT ![k] = a]
      /\ UNCHANGED <<count, owner, main, paused, keeps, keptAt, elapsed, quiet, watching,
                     window, asked, calls>>
  BY DEF Poll, mainVars, windowVars
<1>2. Types /\ v \in Time /\ w \in Watch /\ None \notin Nat
  BY MeasuredTime, WatchAssumption DEF IndInv, Types
<1>3. /\ n \in Watch /\ a \in {"none", "warn", "clear", "stop"}
      /\ n.last = v /\ n.generation = keeps[k]
      /\ Outcome(k, w, v, n, a)
  BY <1>2, Observed DEF Types
<1>4. /\ Measured(k) = IF k = "duration" THEN elapsed ELSE Least(quiet)
      /\ \A j \in Kind : Measured(j)' = Measured(j)
      /\ owner # None
      /\ Threshold[k] \in Nat \ {0} /\ Countdown[k] \in Nat \ {0}
  <2>1. Measured(k) = IF k = "duration" THEN elapsed ELSE Least(quiet)
    BY <1>2, MeasuredTime DEF Kind
  <2>2. \A j \in Kind : Measured(j)' = Measured(j)
    BY <1>1 DEF Measured
  <2>3. owner # None
    BY <1>1 DEF IndInv, Threads
  <2>4. Threshold[k] \in Nat \ {0} /\ Countdown[k] \in Nat \ {0}
    BY WatchAssumption
  <2> QED BY <2>1, <2>2, <2>3, <2>4
<1> HIDE DEF v, w, n, a
<1>5. /\ watch'[k] = n /\ action'[k] = a
      /\ \A j \in Kind \ {k} : watch'[j] = watch[j] /\ action'[j] = action[j]
  BY <1>1, <1>2 DEF Types
<1>6. Types'
  BY <1>1, <1>2, <1>3, <1>5 DEF Types
<1>7. Threads'
  BY <1>1, <1>5 DEF IndInv, Threads
<1>8. Announced'
  <2>1. a = "clear" => n.warned = None
    BY <1>3 DEF Outcome
  <2>2. a = "stop" => n.warned # None
    BY <1>3 DEF Outcome
  <2>3. n.warned # None /\ a # "warn" => w.warned # None
    BY <1>3 DEF Outcome
  <2>4. w.warned # None => window[k] = owner \/ owner \in asked
    BY <1>1 DEF IndInv, Announced, w
  <2> QED BY <1>1, <1>5, <2>1, <2>2, <2>3, <2>4 DEF IndInv, Announced
<1>9. Asked'
  BY <1>1, <1>2, <1>3, <1>5, CallsHold DEF IndInv, Types, Asked
<1>10. Fresh'
  <2>0. /\ w.baseline \in Nat /\ w.generation \in Nat /\ w.last \in Time
        /\ w.warned \in Time /\ elapsed \in Nat /\ keptAt[k] \in Time /\ keeps[k] \in Nat
    BY <1>2 DEF Types, Watch
  <2>1. v # None /\ w.last # None /\ v < w.last => k = "silence" /\ v = 0
    <3>1. CASE k = "duration"
      BY <1>1, <1>2, <1>4, <2>0, <3>1 DEF IndInv, Aged, Polled, Time, v, w
    <3>2. CASE k = "silence"
      <4>1. w.last # None => v \in {0, w.last, w.last + 1}
        BY <1>1, <1>4, <3>2 DEF IndInv, Silent, v, w
      <4> QED BY <2>0, <3>2, <4>1 DEF Time
    <3> QED BY <3>1, <3>2 DEF Kind
  <2>2. n.warned # None => n.warned >= Threshold[k]
    BY <1>3, <1>4 DEF Outcome, IndInv, Fresh, w
  <2>3. keptAt[k] # None => keptAt[k] <= elapsed
    BY <1>4 DEF IndInv, Fresh
  <2>4. keptAt[k] # None /\ v # None => v + keptAt[k] <= elapsed + n.baseline
    <3> SUFFICES ASSUME keptAt[k] # None, v # None
                 PROVE  v + keptAt[k] <= elapsed + n.baseline
      OBVIOUS
    <3>1. v \in Nat /\ keptAt[k] \in Nat
      BY <1>2, <2>0 DEF Time
    <3>2. CASE keeps[k] # w.generation
      BY <1>3, <2>0, <2>3, <3>1, <3>2 DEF Outcome
    <3>3. CASE keeps[k] = w.generation /\ w.last # None /\ v < w.last
      BY <1>3, <2>0, <2>1, <2>3, <3>1, <3>3 DEF Outcome
    <3>4. CASE keeps[k] = w.generation /\ ~(w.last # None /\ v < w.last)
      <4>1. n.baseline = w.baseline
        BY <1>3, <3>4 DEF Outcome
      <4>2. v + keptAt[k] <= elapsed + w.baseline
        BY <1>4, <3>4 DEF IndInv, Fresh, v, w
      <4> QED BY <4>1, <4>2
    <3> QED BY <3>2, <3>3, <3>4
  <2> QED BY <1>1, <1>4, <1>5, <2>2, <2>3, <2>4 DEF IndInv, Fresh, v
<1>11. Silent'
  <2>1. CASE k = "silence"
    BY <1>1, <1>3, <1>4, <1>5, <2>1 DEF Silent, v
  <2>2. CASE k = "duration"
    BY <1>1, <1>4, <1>5, <2>2 DEF IndInv, Silent, Kind
  <2> QED BY <2>1, <2>2 DEF Kind
<1>12. Aged'
  <2>1. CASE k = "silence"
    <3>1. /\ watch'["duration"] = watch["duration"]
          /\ action'["duration"] = action["duration"]
          /\ "duration" \in due' <=> "duration" \in due
      BY <1>1, <1>5, <2>1 DEF Kind
    <3> QED BY <1>1, <3>1 DEF IndInv, Aged, Polled
  <2>2. CASE k = "duration"
    <3>0. /\ w.baseline \in Nat /\ w.generation \in Nat /\ w.last \in Time
          /\ w.warned \in Time /\ elapsed \in Nat /\ keeps[k] \in Nat
          /\ Limit = Threshold[k] + Countdown[k] /\ Limit \in Nat /\ Limit > Threshold[k]
      BY <1>2, <1>4, <2>2 DEF Types, Watch, Limit
    <3>1. /\ elapsed >= 1 /\ w.baseline <= elapsed - 1
          /\ w.last # None => w.last <= elapsed - 1
          /\ w.warned = None => elapsed - 1 < w.baseline + Threshold[k]
          /\ w.warned # None => w.warned = Threshold[k]
          /\ elapsed - 1 < w.baseline + Limit
      BY <1>1, <1>4, <2>2 DEF IndInv, Aged, Polled, w
    <3>7. w.baseline <= w.generation * Limit
      BY <1>4, <2>2 DEF IndInv, Aged, w
    <3>2. v = elapsed
      BY <1>4, <2>2 DEF v
    <3>3. \/ /\ keeps[k] # w.generation /\ n.baseline = elapsed /\ n.warned = None
          \/ /\ keeps[k] = w.generation /\ n.baseline = w.baseline
             /\ \/ n.warned = None /\ elapsed < w.baseline + Threshold[k]
                \/ /\ n.warned = Threshold[k]
                   /\ \/ elapsed < w.baseline + Limit
                      \/ elapsed = w.baseline + Limit /\ a = "stop"
      <4>1. ~(w.last # None /\ v < w.last) /\ v # None /\ ~(v < w.baseline)
        BY <1>2, <3>0, <3>1, <3>2 DEF Time
      <4>2. CASE keeps[k] # w.generation
        BY <1>3, <3>2, <4>1, <4>2 DEF Outcome
      <4>3. CASE keeps[k] = w.generation /\ w.warned = None
        <5>1. /\ n.baseline = w.baseline
              /\ \/ v - w.baseline >= Threshold[k] /\ n.warned = v - w.baseline
                 \/ ~(v - w.baseline >= Threshold[k]) /\ n.warned = None
          BY <1>3, <4>1, <4>3 DEF Outcome
        <5>2. v - w.baseline = elapsed - w.baseline
          BY <3>2
        <5>3. Threshold[k] \in Nat /\ Countdown[k] \in Nat
          BY <1>4
        <5>4. CASE n.warned = None /\ ~(v - w.baseline >= Threshold[k])
          BY <3>0, <3>2, <4>3, <5>1, <5>3, <5>4
        <5>5. CASE n.warned = v - w.baseline /\ v - w.baseline >= Threshold[k]
          <6>1. elapsed - w.baseline = Threshold[k]
            BY <3>0, <3>1, <3>2, <4>3, <5>3, <5>5
          <6> QED BY <3>0, <3>2, <4>3, <5>1, <5>3, <5>5, <6>1
        <5> QED BY <5>1, <5>4, <5>5
      <4>4. CASE keeps[k] = w.generation /\ w.warned # None
        <5>1. /\ n.baseline = w.baseline /\ n.warned = w.warned
              /\ \/ v - w.baseline >= w.warned + Countdown[k] /\ a = "stop"
                 \/ ~(v - w.baseline >= w.warned + Countdown[k])
          BY <1>3, <4>1, <4>4 DEF Outcome
        <5>2. Threshold[k] \in Nat /\ Countdown[k] \in Nat
          BY <1>4
        <5>3. w.warned = Threshold[k]
          BY <3>1, <4>4
        <5>4. elapsed - w.baseline >= Limit \/ elapsed < w.baseline + Limit
          BY <3>0
        <5>5. elapsed - w.baseline >= Limit => elapsed = w.baseline + Limit
          BY <3>0, <3>1
        <5> QED BY <3>0, <3>2, <4>4, <5>1, <5>2, <5>3, <5>4, <5>5
      <4> QED BY <4>2, <4>3, <4>4
    <3>4. n.baseline <= keeps[k] * Limit
      <4>1. CASE keeps[k] # w.generation
        <5>1. w.generation < keeps[k]
          BY <3>0, <4>1 DEF IndInv, Asked, w
        <5>2. w.generation * Limit + Limit <= keeps[k] * Limit
          BY <3>0, <5>1, Arithmetic
        <5>3. w.generation * Limit \in Nat /\ keeps[k] * Limit \in Nat
          BY <3>0
        <5> QED BY <3>0, <3>1, <3>3, <3>7, <4>1, <5>2, <5>3
      <4>2. CASE keeps[k] = w.generation
        BY <3>3, <3>7, <4>2
      <4> QED BY <4>1, <4>2
    <3>5. "duration" \notin due' /\ watch'["duration"] = n /\ action'["duration"] = a
          /\ elapsed' = elapsed
      BY <1>1, <1>5, <2>2
    <3>6. Polled' = elapsed
      BY <3>5 DEF Polled
    <3> QED
      BY <1>2, <1>3, <1>4, <2>2, <3>0, <3>1, <3>2, <3>3, <3>4, <3>5, <3>6 DEF Aged
  <2> QED BY <2>1, <2>2 DEF Kind
<1> QED
  BY <1>6, <1>7, <1>8, <1>9, <1>10, <1>11, <1>12 DEF IndInv

\* What Second may do to the silence of the tracks: it goes on for all that are
\* silent, ends, begins for one that was not heard, or stands while paused.
Passes(q, r) ==
    \A t \in Track : r[t] \in IF paused THEN {q[t]}
                              ELSE IF q[t] = None THEN {None, 0}
                              ELSE {0, q[t] + 1}

LEMMA SilencePasses ==
    ASSUME NEW q \in [Track -> Time], NEW r \in [Track -> Time], Passes(q, r)
    PROVE  IF Least(q) = None THEN Least(r) \in {None, 0}
           ELSE Least(r) \in {0, Least(q), Least(q) + 1}
<1>0. None \notin Nat /\ \A t \in Track : q[t] \in Nat \cup {None} /\ r[t] \in Nat \cup {None}
  BY WatchAssumption DEF Time
<1>1. \/ Least(q) = None /\ \A t \in Track : q[t] = None
      \/ /\ Least(q) \in Nat
         /\ \E t \in Track : q[t] = Least(q)
         /\ \A t \in Track : q[t] # None => Least(q) <= q[t]
  BY LeastSilence
<1>2. \/ Least(r) = None /\ \A t \in Track : r[t] = None
      \/ /\ Least(r) \in Nat
         /\ \E t \in Track : r[t] = Least(r)
         /\ \A t \in Track : r[t] # None => Least(r) <= r[t]
  BY LeastSilence
<1> DEFINE m == Least(q)
           n == Least(r)
<1> HIDE DEF m, n
<1>3. CASE paused
  <2>1. \A t \in Track : r[t] = q[t]
    BY <1>3 DEF Passes
  <2>2. q = r
    BY <2>1
  <2> QED BY <1>1, <2>2
<1>4. CASE ~paused /\ n = None
  <2>1. ASSUME NEW t \in Track PROVE q[t] = None
    <3>1. r[t] = None
      BY <1>0, <1>2, <1>4 DEF n
    <3>2. q[t] # None => r[t] \in {0, q[t] + 1} /\ q[t] \in Nat
      BY <1>0, <1>4 DEF Passes
    <3>3. q[t] # None => r[t] \in Nat
      BY <3>2
    <3> QED BY <1>0, <3>1, <3>3
  <2> QED BY <1>0, <1>1, <1>4, <2>1 DEF n
<1>5. CASE ~paused /\ n # None /\ n # 0
  <2>1. n \in Nat /\ \A t \in Track : r[t] # None => n <= r[t]
    BY <1>2, <1>5 DEF n
  <2>2. PICK t \in Track : r[t] = n
    BY <1>2, <1>5 DEF n
  <2>3. q[t] \in Nat /\ n = q[t] + 1
    BY <1>0, <1>5, <2>2 DEF Passes
  <2>4. m \in Nat /\ m <= q[t]
    BY <1>0, <1>1, <2>3 DEF m
  <2>5. PICK u \in Track : q[u] = m
    BY <1>0, <1>1, <2>4 DEF m
  <2>6. r[u] \in {0, m + 1}
    BY <1>0, <1>5, <2>4, <2>5 DEF Passes
  <2>7. n <= m + 1
    BY <1>0, <1>5, <2>1, <2>4, <2>6
  <2>8. n = m + 1
    BY <2>3, <2>4, <2>7
  <2> QED BY <1>0, <2>4, <2>8 DEF m, n
<1>6. CASE n = 0
  BY <1>6 DEF n
<1> QED BY <1>3, <1>4, <1>5, <1>6

LEMMA SecondStep ==
    ASSUME IndInv, Second
    PROVE  IndInv'
<1>1. /\ owner # None /\ main = "free" /\ due = {} /\ calls = {}
      /\ \A k \in Kind : action[k] = "none"
      /\ elapsed' = elapsed + 1 /\ due' = watching
      /\ quiet' \in [Track -> Time] /\ Passes(quiet, quiet')
      /\ UNCHANGED <<count, owner, main, paused, keeps, keptAt, watching, watch, action,
                     window, asked, calls>>
  <2>1. 0 .. MaxTime \cup {None} \subseteq Time
    BY WatchAssumption DEF Time
  <2>2. quiet' \in [Track -> Time]
    BY <2>1 DEF Second
  <2> QED BY <2>2 DEF Second, ForEach, Passes, mainVars, threadVars, windowVars
<1>2. Types /\ watching = Kind /\ owner \notin asked /\ None \notin Nat /\ elapsed \in Nat
  BY <1>1, WatchAssumption DEF IndInv, Threads, Asked, Types
<1>3. Types'
  BY <1>1, <1>2 DEF Types
<1>4. Threads' /\ Announced'
  BY <1>1 DEF IndInv, Threads, Announced
<1>5. Asked'
  BY <1>1, CallsHold DEF IndInv, Asked
<1>6. "duration" \in Kind /\ "silence" \in Kind
  BY DEF Kind
<1>7. Aged'
  <2>1. Polled = elapsed /\ Polled' = elapsed
    BY <1>1, <1>2, <1>6 DEF Polled
  <2> DEFINE w == watch["duration"]
  <2>2. /\ w.baseline <= Polled
        /\ w.last # None => w.last <= Polled
        /\ w.warned = None => Polled < w.baseline + Threshold["duration"]
        /\ w.warned # None => w.warned = Threshold["duration"]
        /\ Polled < w.baseline + Limit
        /\ w.baseline <= w.generation * Limit
    BY <1>1, <1>2, <1>6 DEF IndInv, Aged
  <2>3. w' = w /\ elapsed' >= 1 /\ Polled' = Polled
    BY <1>1, <1>2, <2>1
  <2> HIDE DEF w
  <2> QED BY <2>2, <2>3 DEF Aged, w
<1>8. /\ Measured("duration") = elapsed /\ Measured("duration")' = elapsed + 1
      /\ Measured("silence") = Least(quiet) /\ Measured("silence")' = Least(quiet')
      /\ Measured("silence") \in Time
  <2>1. Measured("duration")' = elapsed' /\ Measured("silence")' = Least(quiet')
    BY DEF Measured, Least
  <2> QED BY <1>1, <1>2, <1>6, <2>1, MeasuredTime
<1>9. IF Measured("silence") = None THEN Measured("silence")' \in {None, 0}
      ELSE Measured("silence")' \in {0, Measured("silence"), Measured("silence") + 1}
  <2>1. IF Least(quiet) = None THEN Least(quiet') \in {None, 0}
        ELSE Least(quiet') \in {0, Least(quiet), Least(quiet) + 1}
    BY <1>1, <1>2, SilencePasses DEF Types
  <2> QED BY <1>8, <2>1
<1>10. Silent'
  <2>1. watch["silence"].last = Measured("silence")
    BY <1>1 DEF IndInv, Silent
  <2> QED BY <1>1, <1>2, <1>6, <1>9, <2>1 DEF Silent
<1>11. Fresh'
  <2> SUFFICES ASSUME NEW k \in Kind
               PROVE  /\ watch[k].warned # None => watch[k].warned >= Threshold[k]
                      /\ keptAt[k] # None =>
                            /\ keptAt[k] <= elapsed + 1
                            /\ watch[k].generation = keeps[k] /\ Measured(k)' # None =>
                                  Measured(k)' + keptAt[k] <= elapsed + 1 + watch[k].baseline
    BY <1>1 DEF Fresh
  <2> DEFINE b == watch[k].baseline
             g == watch[k].generation
             x == keptAt[k]
             v == Measured(k)
             z == Measured(k)'
  <2>1. /\ watch[k].warned # None => watch[k].warned >= Threshold[k]
        /\ x # None => x <= elapsed /\ (g = keeps[k] /\ v # None => v + x <= elapsed + b)
    BY <1>1 DEF IndInv, Fresh
  <2>2. b \in Nat /\ x \in Nat \cup {None}
    BY <1>2 DEF Types, Watch, Time
  <2>3. v \in Nat \cup {None}
        /\ \/ z = None
           \/ z = 0
           \/ v \in Nat /\ z \in {v, v + 1}
    BY <1>2, <1>8, <1>9 DEF Kind, Time
  <2> HIDE DEF b, g, x, v, z
  <2>4. x # None => x <= elapsed + 1
    BY <1>2, <2>1, <2>2
  <2>5. x # None /\ g = keeps[k] /\ z # None => z + x <= elapsed + 1 + b
    BY <1>2, <2>1, <2>2, <2>3
  <2> QED BY <2>1, <2>4, <2>5 DEF b, g, x, v, z
<1> QED
  BY <1>3, <1>4, <1>5, <1>7, <1>10, <1>11 DEF IndInv

\* What every emission leaves alone, and what it knows of the recording.
LEMMA Emitting ==
    ASSUME IndInv, NEW k \in Kind, NEW e \in {"warn", "clear", "stop"}, Emitted(k, e)
    PROVE  /\ Types /\ owner # None /\ owner \in Meeting /\ owner = count
           /\ k \in watching /\ watching \subseteq Kind /\ main # "cleared"
           /\ action[k] = e /\ action'[k] = "none"
           /\ \A j \in Kind \ {k} : action'[j] = action[j]
           /\ action' \in [Kind -> {"none", "warn", "clear", "stop"}]
           /\ UNCHANGED <<count, owner, main, paused, keeps, keptAt, elapsed, quiet, due,
                          watching, watch>>
           /\ Threads'
<1>1. Types /\ Threads
  BY DEF IndInv
<1>2. /\ action[k] = e /\ action' = [action EXCEPT ![k] = "none"]
      /\ UNCHANGED <<count, owner, main, paused, keeps, keptAt, elapsed, quiet, due,
                     watching, watch>>
  BY DEF Emitted, mainVars, clockVars
<1>3. k \in watching
  BY <1>1, <1>2 DEF Threads
<1>4. owner # None /\ main # "cleared"
  BY <1>1, <1>3 DEF Threads
<1>5. owner \in Meeting /\ owner = count
  BY <1>1, <1>4 DEF Types
<1>6. Threads'
  BY <1>1, <1>2 DEF Threads, Types
<1> QED BY <1>1, <1>2, <1>3, <1>4, <1>5, <1>6 DEF Types

LEMMA EmitWarningStep ==
    ASSUME IndInv, NEW k \in Kind, EmitWarning(k)
    PROVE  IndInv'
<1>1. /\ Emitted(k, "warn")
      /\ window' = IF owner \in asked THEN window ELSE [window EXCEPT ![k] = owner]
      /\ UNCHANGED <<asked, calls>>
  BY DEF EmitWarning
<1>2. /\ Types /\ owner # None /\ owner \in Meeting /\ k \in watching
      /\ watching \subseteq Kind /\ main # "cleared"
      /\ action[k] = "warn" /\ action'[k] = "none"
      /\ \A j \in Kind \ {k} : action'[j] = action[j]
      /\ action' \in [Kind -> {"none", "warn", "clear", "stop"}]
      /\ UNCHANGED <<count, owner, main, paused, keeps, keptAt, elapsed, quiet, due,
                     watching, watch>>
      /\ Threads'
  BY <1>1, Emitting
<1>3. Types'
  BY <1>1, <1>2 DEF Types
<1>4. Announced'
  BY <1>1, <1>2 DEF IndInv, Announced, Types
<1>5. Asked'
  BY <1>1, <1>2, CallsHold DEF IndInv, Asked
<1>6. action["duration"] = "stop" => action'["duration"] = "stop"
  BY <1>2 DEF Kind
<1>7. Aged' /\ Silent' /\ Fresh'
  BY <1>1, <1>2, <1>6, ClocksHold
<1> QED BY <1>2, <1>3, <1>4, <1>5, <1>7 DEF IndInv

LEMMA EmitClearedStep ==
    ASSUME IndInv, NEW k \in Kind, EmitCleared(k)
    PROVE  IndInv'
<1>1. /\ Emitted(k, "clear")
      /\ window' = [window EXCEPT ![k] = IF @ = owner THEN None ELSE @]
      /\ UNCHANGED <<asked, calls>>
  BY DEF EmitCleared
<1>2. /\ Types /\ owner # None /\ owner \in Meeting /\ k \in watching
      /\ watching \subseteq Kind /\ main # "cleared"
      /\ action[k] = "clear" /\ action'[k] = "none"
      /\ \A j \in Kind \ {k} : action'[j] = action[j]
      /\ action' \in [Kind -> {"none", "warn", "clear", "stop"}]
      /\ UNCHANGED <<count, owner, main, paused, keeps, keptAt, elapsed, quiet, due,
                     watching, watch>>
      /\ Threads'
  BY <1>1, Emitting
<1>3. /\ window' \in [Kind -> Meeting \cup {None}]
      /\ \A j \in Kind \ {k} : window'[j] = window[j]
      /\ window'[k] \in {window[k], None}
  BY <1>1, <1>2 DEF Types
<1>4. Types'
  BY <1>1, <1>2, <1>3 DEF Types
<1>5. Announced'
  <2>1. watch[k].warned = None
    BY <1>2 DEF IndInv, Announced
  <2> QED BY <1>1, <1>2, <1>3, <2>1 DEF IndInv, Announced
<1>6. Asked'
  BY <1>1, <1>2, CallsHold DEF IndInv, Asked
<1>7. action["duration"] = "stop" => action'["duration"] = "stop"
  BY <1>2 DEF Kind
<1>8. Aged' /\ Silent' /\ Fresh'
  BY <1>1, <1>2, <1>7, ClocksHold
<1> QED BY <1>2, <1>4, <1>5, <1>6, <1>8 DEF IndInv

\* Whoever asks the recording at hand to stop leaves a call or finds one.
LEMMA AskedToStop ==
    ASSUME IndInv, NEW m \in Meeting, m = owner, AskToStop(m),
           UNCHANGED <<count, owner, main, keeps, watch>>
    PROVE  Asked' /\ owner \in asked'
<1>1. /\ asked' = asked \cup {m}
      /\ calls' = IF m \in asked THEN calls ELSE calls \cup {StopCall(m)}
  BY DEF AskToStop
<1>2. Types /\ owner = count /\ None \notin Nat
  BY WatchAssumption DEF IndInv, Types, Meeting
<1>3. m \in Nat /\ m <= count
  BY <1>2 DEF Types
<1>4. StopCall(m).meeting = m /\ \A k \in Kind : KeepCall(k, m) # StopCall(m)
  BY DEF StopCall, KeepCall
<1>5. \A c \in calls' : c \in calls \/ c = StopCall(m)
  BY <1>1
<1>6. StopCall(owner) \in calls' \/ main' # "free"
  BY <1>1, <1>2 DEF IndInv, Asked
<1>7. \A k \in Kind : KeepCall(k, owner) \in calls' => KeepCall(k, owner) \in calls
  BY <1>4, <1>5
<1> QED BY <1>1, <1>2, <1>3, <1>4, <1>5, <1>6, <1>7 DEF IndInv, Asked

LEMMA EmitAutoStopStep ==
    ASSUME IndInv, NEW k \in Kind, EmitAutoStop(k)
    PROVE  IndInv'
<1>1. /\ Emitted(k, "stop")
      /\ window' = IF owner \in asked THEN window ELSE ForEach(None)
      /\ AskToStop(owner)
  BY DEF EmitAutoStop
<1>2. /\ Types /\ owner # None /\ owner \in Meeting /\ k \in watching
      /\ watching \subseteq Kind /\ main # "cleared"
      /\ action[k] = "stop" /\ action'[k] = "none"
      /\ \A j \in Kind \ {k} : action'[j] = action[j]
      /\ action' \in [Kind -> {"none", "warn", "clear", "stop"}]
      /\ UNCHANGED <<count, owner, main, paused, keeps, keptAt, elapsed, quiet, due,
                     watching, watch>>
      /\ Threads'
  BY <1>1, Emitting
<1>3. Asked' /\ owner \in asked'
  BY <1>1, <1>2, AskedToStop
<1>4. Types'
  BY <1>1, <1>2 DEF Types, ForEach
<1>5. Announced'
  BY <1>1, <1>2, <1>3 DEF IndInv, Announced, ForEach
<1>6. Aged' /\ Silent' /\ Fresh'
  BY <1>2, <1>3, ClocksHold
<1> QED BY <1>2, <1>3, <1>4, <1>5, <1>6 DEF IndInv

-----------------------------------------------------------------------------
LEMMA StartStep ==
    ASSUME IndInv, Start
    PROVE  IndInv'
<1> USE WatchAssumption
<1>1. /\ main = "free" /\ owner = None /\ count < MaxMeetings
      /\ count' = count + 1 /\ owner' = count + 1
      /\ elapsed' = 0 /\ quiet' = [t \in Track |-> None] /\ due' = {}
      /\ watching' = Kind /\ watch' = [k \in Kind |-> NewWatch]
      /\ keeps' = [k \in Kind |-> 0] /\ keptAt' = [k \in Kind |-> None]
      /\ UNCHANGED <<main, action, window, asked, calls>>
  BY DEF Start, ForEach, windowVars
<1>2. Types /\ (\A k \in Kind : action[k] = "none")
  BY <1>1 DEF IndInv, Threads, Types
<1>3. count' \in Meeting /\ count' \in Nat /\ owner' # None /\ count' <= MaxMeetings
  BY <1>1, <1>2 DEF Types, Meeting
<1>4. \A k \in Kind : window[k] = None
  BY <1>1 DEF IndInv, Announced
<1>5. Types'
  <2>1. /\ watch' \in [Kind -> Watch] /\ keeps' \in [Kind -> Nat]
        /\ keptAt' \in [Kind -> Time] /\ quiet' \in [Track -> Time]
    BY <1>1 DEF NewWatch, Watch, Time
  <2> QED BY <1>1, <1>2, <1>3, <2>1 DEF Types
<1>6. Threads'
  BY <1>1, <1>2, <1>3 DEF Threads
<1>7. Announced'
  BY <1>1, <1>2, <1>4 DEF Announced, NewWatch
<1>8. Asked'
  <2>1. owner' \notin asked /\ \A c \in calls : c.meeting # owner'
    BY <1>1, <1>2 DEF IndInv, Asked, Types
  <2>2. \A k \in Kind : KeepCall(k, owner').meeting = owner'
    BY DEF KeepCall
  <2>3. \A k \in Kind : KeepCall(k, owner') \notin calls
    BY <2>1, <2>2
  <2>4. (\A m \in asked : m \in Nat /\ m <= count')
        /\ \A c \in calls : c.meeting \in Nat /\ c.meeting <= count'
    BY <1>1, <1>2 DEF IndInv, Asked, Types
  <2> QED BY <1>1, <2>1, <2>3, <2>4 DEF Asked, NewWatch
<1>9. Aged'
  BY <1>1, <1>2 DEF Aged, Polled, NewWatch, Limit, Kind
<1>10. Silent'
  <2>1. Measured("silence")' = None
    BY <1>1 DEF Measured
  <2> QED BY <1>1, <2>1 DEF Silent, NewWatch, Kind
<1>11. Fresh'
  BY <1>1 DEF Fresh, NewWatch
<1> QED
  BY <1>5, <1>6, <1>7, <1>8, <1>9, <1>10, <1>11 DEF IndInv

LEMMA TogglePauseStep ==
    ASSUME IndInv, TogglePause
    PROVE  IndInv'
<1>1. UNCHANGED <<count, owner, main, keeps, keptAt, elapsed, quiet, due, watching, watch,
                  action, window, asked, calls>>
  BY DEF TogglePause, clockVars, threadVars, windowVars
<1>2. Types' /\ Threads' /\ Announced'
  BY <1>1 DEF IndInv, Types, Threads, Announced
<1>3. Asked'
  BY <1>1, CallsHold DEF IndInv, Asked
<1>4. Aged' /\ Silent' /\ Fresh'
  BY <1>1, ClocksHold
<1> QED BY <1>2, <1>3, <1>4 DEF IndInv

LEMMA KeepStep ==
    ASSUME IndInv, NEW k \in Kind, NEW m \in Meeting, Keep(k, m)
    PROVE  IndInv'
<1>1. /\ main = "free" /\ KeepCall(k, m) \in calls /\ calls' = calls \ {KeepCall(k, m)}
      /\ keeps' = [keeps EXCEPT ![k] = IF owner = m THEN @ + 1 ELSE @]
      /\ keptAt' = [keptAt EXCEPT ![k] = IF owner = m THEN elapsed ELSE @]
      /\ UNCHANGED <<count, owner, main, paused, elapsed, quiet, due, watching, watch, action,
                     window, asked>>
  BY DEF Keep, Take, clockVars, threadVars
<1>2. Types /\ None \notin Nat /\ owner \in Nat \cup {None}
  BY WatchAssumption DEF IndInv, Types
<1>3. /\ keeps'[k] = IF owner = m THEN keeps[k] + 1 ELSE keeps[k]
      /\ keptAt'[k] = IF owner = m THEN elapsed ELSE keptAt[k]
      /\ \A j \in Kind \ {k} : keeps'[j] = keeps[j] /\ keptAt'[j] = keptAt[j]
      /\ keeps' \in [Kind -> Nat] /\ keptAt' \in [Kind -> Time]
  BY <1>1, <1>2 DEF Types, Time
<1>4. \A j \in Kind : watch[j].generation \in Nat /\ keeps[j] \in Nat
  BY <1>2 DEF Types, Watch
<1>5. Types'
  BY <1>1, <1>2, <1>3 DEF Types
<1>6. Threads' /\ Announced'
  BY <1>1 DEF IndInv, Threads, Announced
<1>7. Asked'
  <2>1. owner = m => keeps[k] < MaxKeeps
    BY <1>1 DEF IndInv, Asked
  <2>2. \A j \in Kind : keeps'[j] <= MaxKeeps /\ watch[j].generation <= keeps'[j]
    BY <1>3, <1>4, <2>1, WatchAssumption DEF IndInv, Asked
  <2>3. \A j \in Kind : KeepCall(j, owner) \in calls' => keeps'[j] < MaxKeeps
    <3>1. owner = m => KeepCall(k, owner) \notin calls'
      BY <1>1
    <3> QED BY <1>1, <1>3, <3>1 DEF IndInv, Asked
  <2>4. StopCall(owner) # KeepCall(k, m)
    BY DEF StopCall, KeepCall
  <2> QED BY <1>1, <2>2, <2>3, <2>4 DEF IndInv, Asked
<1>8. Measured("silence")' = Measured("silence")
      /\ \A j \in Kind : Measured(j)' = Measured(j)
  BY <1>1 DEF Measured
<1>9. Aged' /\ Silent'
  BY <1>1, <1>8 DEF IndInv, Aged, Silent, Polled
<1>10. Fresh'
  <2> SUFFICES ASSUME NEW j \in Kind, owner # None
               PROVE  /\ watch[j].warned # None => watch[j].warned >= Threshold[j]
                      /\ keptAt'[j] # None =>
                            /\ keptAt'[j] <= elapsed
                            /\ watch[j].generation = keeps'[j] /\ Measured(j) # None =>
                                  Measured(j) + keptAt'[j] <= elapsed + watch[j].baseline
    BY <1>1, <1>8 DEF Fresh
  <2>1. CASE j = k /\ owner = m
    <3>1. watch[j].generation # keeps'[j]
      BY <1>3, <1>4, <2>1 DEF IndInv, Asked
    <3>2. keptAt'[j] <= elapsed
      BY <1>2, <1>3, <2>1 DEF Types
    <3> QED BY <3>1, <3>2 DEF IndInv, Fresh
  <2>2. CASE ~(j = k /\ owner = m)
    BY <1>3, <2>2 DEF IndInv, Fresh
  <2> QED BY <2>1, <2>2
<1> QED BY <1>5, <1>6, <1>7, <1>9, <1>10 DEF IndInv

LEMMA StopAgainStep ==
    ASSUME IndInv, NEW m \in Meeting, StopAgain(m)
    PROVE  IndInv'
<1>1. /\ owner # m /\ calls' = calls \ {StopCall(m)} /\ asked' \in {asked, asked \ {m}}
      /\ UNCHANGED <<count, owner, main, paused, keeps, keptAt, elapsed, quiet, due, watching,
                     watch, action, window>>
  BY DEF StopAgain, Take, clockVars, threadVars
<1>2. owner \in asked' <=> owner \in asked
  BY <1>1
<1>3. Types' /\ Threads'
  BY <1>1 DEF IndInv, Types, Threads
<1>4. Announced'
  BY <1>1, <1>2 DEF IndInv, Announced
<1>5. Asked'
  <2>1. StopCall(owner) # StopCall(m)
    <3>1. StopCall(owner).meeting = owner /\ StopCall(m).meeting = m
      BY DEF StopCall
    <3> QED BY <1>1, <3>1
  <2>2. asked' \subseteq asked
    BY <1>1
  <2>3. \A k \in Kind : KeepCall(k, owner) \in calls' => KeepCall(k, owner) \in calls
    BY <1>1
  <2> QED BY <1>1, <1>2, <2>1, <2>2, <2>3 DEF IndInv, Asked
<1>6. Aged' /\ Silent' /\ Fresh'
  BY <1>1, <1>2, ClocksHold
<1> QED BY <1>3, <1>4, <1>5, <1>6 DEF IndInv

LEMMA StopBeginsStep ==
    ASSUME IndInv, NEW m \in Meeting, StopBegins(m)
    PROVE  IndInv'
<1>1. /\ main = "free" /\ main' = "join_silence" /\ owner = m /\ m \in Nat
      /\ calls' = calls \ {StopCall(m)}
      /\ UNCHANGED <<count, owner, paused, keeps, keptAt, elapsed, quiet, due, watching,
                     watch, action, window, asked>>
  BY DEF StopBegins, Take, clockVars, threadVars, Meeting
<1>2. owner # None
  BY <1>1, WatchAssumption
<1>3. Types' /\ Threads' /\ Announced'
  BY <1>1, <1>2 DEF IndInv, Types, Threads, Announced
<1>4. Asked'
  <2>1. \A k \in Kind : KeepCall(k, owner) \in calls' => KeepCall(k, owner) \in calls
    BY <1>1
  <2> QED BY <1>1, <2>1 DEF IndInv, Asked
<1>5. Aged' /\ Silent' /\ Fresh'
  BY <1>1, ClocksHold
<1> QED BY <1>3, <1>4, <1>5 DEF IndInv

LEMMA JoinStep ==
    ASSUME IndInv, Join
    PROVE  IndInv'
<1>1. /\ \/ /\ main = "join_silence" /\ main' = "join_duration"
            /\ action["silence"] = "none" /\ watching' = watching \ {"silence"}
         \/ /\ main = "join_duration" /\ main' = "joined"
            /\ action["duration"] = "none" /\ watching' = watching \ {"duration"}
      /\ UNCHANGED <<count, owner, paused, keeps, keptAt, elapsed, quiet, due,
                     watch, action, window, asked, calls>>
  BY DEF Join, Joins, clockVars, windowVars
<1>2. owner # None
  BY <1>1 DEF IndInv, Threads
<1>3. Types' /\ watching' \subseteq watching
  BY <1>1 DEF IndInv, Types
<1>4. Threads'
  BY <1>1, <1>2 DEF IndInv, Threads, Kind
<1>5. Announced'
  BY <1>1, <1>3 DEF IndInv, Announced
<1>6. Asked'
  BY <1>1 DEF IndInv, Asked
<1>7. Aged' /\ Silent' /\ Fresh'
  BY <1>1, ClocksHold
<1> QED BY <1>3, <1>4, <1>5, <1>6, <1>7 DEF IndInv

LEMMA ClearStep ==
    ASSUME IndInv, Clear
    PROVE  IndInv'
<1>1. /\ main = "joined" /\ main' = "cleared"
      /\ window' = [k \in Kind |-> IF window[k] = owner THEN None ELSE window[k]]
      /\ UNCHANGED <<count, owner, paused, keeps, keptAt, elapsed, quiet, due, watching,
                     watch, action, asked, calls>>
  BY DEF Clear, clockVars, threadVars
<1>2. \A k \in Kind : window'[k] = None
  BY <1>1 DEF IndInv, Announced
<1>3. Types' /\ Threads'
  BY <1>1 DEF IndInv, Types, Threads
<1>4. Announced'
  BY <1>1, <1>2 DEF IndInv, Announced, Threads
<1>5. Asked'
  BY <1>1 DEF IndInv, Asked
<1>6. Aged' /\ Silent' /\ Fresh'
  BY <1>1, ClocksHold
<1> QED BY <1>3, <1>4, <1>5, <1>6 DEF IndInv

LEMMA StopEndsStep ==
    ASSUME IndInv, StopEnds
    PROVE  IndInv'
<1>1. /\ main = "cleared" /\ main' = "free" /\ owner' = None
      /\ asked' \in {asked, asked \ {owner}}
      /\ UNCHANGED <<count, paused, keeps, keptAt, elapsed, quiet, due, watching,
                     watch, action, window, calls>>
  BY DEF StopEnds, clockVars, threadVars
<1>2. watching = {} /\ \A k \in Kind : window[k] = None
  BY <1>1 DEF IndInv, Threads, Announced
<1>3. Types' /\ Threads' /\ Announced'
  BY <1>1, <1>2 DEF IndInv, Types, Threads, Announced
<1>4. Asked'
  <2>1. \A k \in Kind : KeepCall(k, None).meeting = None
    BY DEF KeepCall
  <2>2. \A k \in Kind : KeepCall(k, None) \notin calls
    BY <2>1, WatchAssumption DEF IndInv, Asked
  <2>3. asked' \subseteq asked
    BY <1>1
  <2> QED BY <1>1, <2>2, <2>3 DEF IndInv, Asked
<1>5. Aged' /\ Silent' /\ Fresh'
  BY <1>1 DEF Aged, Silent, Fresh
<1> QED BY <1>3, <1>4, <1>5 DEF IndInv

-----------------------------------------------------------------------------
LEMMA ClickKeepStep ==
    ASSUME IndInv, NEW k \in Kind, ClickKeep(k)
    PROVE  IndInv'
<1>1. /\ window[k] # None /\ keeps[k] < MaxKeeps
      /\ calls' = calls \cup {KeepCall(k, window[k])}
      /\ UNCHANGED <<count, owner, main, paused, keeps, keptAt, elapsed, quiet, due, watching,
                     watch, action, window, asked>>
  BY DEF ClickKeep, mainVars, clockVars, threadVars
<1>2. Types /\ window[k] = owner /\ owner = count /\ count \in Nat
  BY <1>1 DEF IndInv, Announced, Types
<1>3. Types' /\ Threads' /\ Announced'
  BY <1>1 DEF IndInv, Types, Threads, Announced
<1>4. Asked'
  <2>1. KeepCall(k, window[k]).meeting = count
    BY <1>2 DEF KeepCall
  <2>2. \A j \in Kind : KeepCall(j, owner) \in calls' => j = k \/ KeepCall(j, owner) \in calls
    BY <1>1 DEF KeepCall
  <2> QED BY <1>1, <1>2, <2>1, <2>2 DEF IndInv, Asked
<1>5. Aged' /\ Silent' /\ Fresh'
  BY <1>1, ClocksHold
<1> QED BY <1>3, <1>4, <1>5 DEF IndInv

LEMMA ClickStopStep ==
    ASSUME IndInv, NEW k \in Kind, ClickStop(k)
    PROVE  IndInv'
<1>1. /\ window[k] # None
      /\ window' = [window EXCEPT ![k] = None]
      /\ AskToStop(window[k])
      /\ UNCHANGED <<count, owner, main, paused, keeps, keptAt, elapsed, quiet, due, watching,
                     watch, action>>
  BY DEF ClickStop, mainVars, clockVars, threadVars
<1>2. Types /\ window[k] = owner /\ owner \in Meeting
  BY <1>1 DEF IndInv, Announced, Types
<1>3. Asked' /\ owner \in asked'
  BY <1>1, <1>2, AskedToStop
<1>4. Types' /\ Threads'
  BY <1>1, <1>2 DEF IndInv, Types, Threads
<1>5. Announced'
  BY <1>1, <1>2, <1>3 DEF IndInv, Announced, Types
<1>6. Aged' /\ Silent' /\ Fresh'
  BY <1>1, <1>3, ClocksHold
<1> QED BY <1>3, <1>4, <1>5, <1>6 DEF IndInv

LEMMA ClickStopInPanelStep ==
    ASSUME IndInv, ClickStopInPanel
    PROVE  IndInv'
<1>1. /\ owner # None /\ calls' = calls \cup {StopCall(owner)}
      /\ UNCHANGED <<count, owner, main, paused, keeps, keptAt, elapsed, quiet, due, watching,
                     watch, action, window, asked>>
  BY DEF ClickStopInPanel, mainVars, clockVars, threadVars
<1>2. owner = count /\ count \in Nat
  BY <1>1 DEF IndInv, Types
<1>3. Types' /\ Threads' /\ Announced'
  BY <1>1 DEF IndInv, Types, Threads, Announced
<1>4. Asked'
  <2>1. StopCall(owner).meeting = count /\ \A j \in Kind : KeepCall(j, owner) # StopCall(owner)
    BY <1>2 DEF StopCall, KeepCall
  <2> QED BY <1>1, <1>2, <2>1 DEF IndInv, Asked
<1>5. Aged' /\ Silent' /\ Fresh'
  BY <1>1, ClocksHold
<1> QED BY <1>3, <1>4, <1>5 DEF IndInv

LEMMA NextInv == IndInv /\ [Next]_vars => IndInv'
<1> SUFFICES ASSUME IndInv, [Next]_vars PROVE IndInv'
  OBVIOUS
<1>1. ASSUME NEW k \in Kind, Poll(k) PROVE IndInv'
  BY <1>1, PollStep
<1>2. ASSUME NEW k \in Kind, Emit(k) PROVE IndInv'
  BY <1>2, EmitWarningStep, EmitClearedStep, EmitAutoStopStep DEF Emit
<1>3. ASSUME NEW k \in Kind, ClickKeep(k) \/ ClickStop(k) PROVE IndInv'
  BY <1>3, ClickKeepStep, ClickStopStep
<1>4. CASE MainStep
  <2>1. ASSUME NEW m \in Meeting, StopAgain(m) \/ StopBegins(m) PROVE IndInv'
    BY <2>1, StopAgainStep, StopBeginsStep
  <2>2. ASSUME NEW m \in Meeting, NEW k \in Kind, Keep(k, m) PROVE IndInv'
    BY <2>2, KeepStep
  <2> QED BY <1>4, <2>1, <2>2, JoinStep, ClearStep, StopEndsStep DEF MainStep
<1>5. CASE Start \/ TogglePause \/ ClickStopInPanel \/ Second
  BY <1>5, StartStep, TogglePauseStep, ClickStopInPanelStep, SecondStep
<1>6. CASE UNCHANGED vars
  <2>1. UNCHANGED <<count, owner, main, paused, keeps, keptAt, elapsed, quiet, due, watching,
                    watch, action, window, asked, calls>>
    BY <1>6 DEF vars, mainVars, clockVars, threadVars, windowVars
  <2>2. Types' /\ Threads' /\ Announced' /\ Asked'
    BY <2>1 DEF IndInv, Types, Threads, Announced, Asked
  <2>3. Aged' /\ Silent' /\ Fresh'
    BY <2>1, ClocksHold
  <2> QED BY <2>2, <2>3 DEF IndInv
<1> QED BY <1>1, <1>2, <1>3, <1>4, <1>5, <1>6 DEF Next

-----------------------------------------------------------------------------
\* What the watchdogs, the window and the stop command know of each other, of
\* the age and of the silence holds always.
THEOREM Invariance == Spec => []IndInv
<1> QED BY InitInv, NextInv, PTL DEF Spec

\* No countdown outlives its recording: what the threads emit late comes before
\* the stop command retracts it.
THEOREM CountdownsAreCurrent == Spec => []WarningIsCurrent
<1>1. IndInv => WarningIsCurrent
  BY DEF IndInv, Announced, WarningIsCurrent
<1> QED BY Invariance, <1>1, PTL

\* A watchdog that is about to stop the recording has its countdown on the
\* screen, or the recording was asked to stop already.
THEOREM StopsAreAnnounced == Spec => []AutoStopIsAnnounced
<1>1. IndInv => AutoStopIsAnnounced
  BY DEF IndInv, Threads, Announced, AutoStopIsAnnounced
<1> QED BY Invariance, <1>1, PTL

\* However often it is paused, a recording is no older than a threshold and a
\* countdown for its start and for each accepted Keep.
THEOREM RecordingsEnd == Spec => []RecordingIsCapped
<1>1. ASSUME IndInv, owner # None
      PROVE  elapsed <= (MaxKeeps + 1) * Limit
  <2> DEFINE w == watch["duration"]
             g == w.generation
  <2>1. /\ "duration" \in Kind /\ elapsed \in Nat /\ w \in Watch /\ Limit \in Nat /\ Limit >= 1
        /\ MaxKeeps \in Nat
    BY <1>1, WatchAssumption DEF IndInv, Types, Kind, Limit
  <2>2. w.baseline \in Nat /\ g \in Nat
    BY <2>1 DEF Watch
  <2>3. g <= MaxKeeps
    BY <1>1, <2>1, <2>2 DEF IndInv, Asked, Types
  <2>4. elapsed <= w.baseline + Limit /\ w.baseline <= g * Limit
    <3>1. \/ Polled < w.baseline + Limit
          \/ Polled = w.baseline + Limit /\ "duration" \notin due
      BY <1>1 DEF IndInv, Aged
    <3>2. w.baseline <= g * Limit
      BY <1>1 DEF IndInv, Aged
    <3> QED BY <2>1, <2>2, <3>1, <3>2 DEF Polled
  <2> HIDE DEF w, g
  <2>5. g * Limit + Limit <= (MaxKeeps + 1) * Limit
    BY <2>1, <2>2, <2>3, Arithmetic
  <2>6. g * Limit \in Nat /\ (MaxKeeps + 1) * Limit \in Nat
    BY <2>1, <2>2
  <2> QED BY <2>1, <2>2, <2>4, <2>5, <2>6
<1>2. IndInv => RecordingIsCapped
  BY <1>1 DEF RecordingIsCapped, Limit
<1> QED BY Invariance, <1>2, PTL

\* Only a poll decides to stop, and once a Keep was accepted only a threshold
\* and a countdown after it.
LEMMA KeepHonoured ==
    ASSUME IndInv, [Next]_vars, NEW k \in Kind,
           action[k] # "stop", action'[k] = "stop", keptAt[k] # None
    PROVE  elapsed - keptAt[k] >= Threshold[k] + Countdown[k]
<1>1. Poll(k)
  <2>1. ASSUME NEW j \in Kind, Poll(j), j # k PROVE FALSE
    BY <2>1 DEF Poll, IndInv, Types
  <2>2. ASSUME NEW j \in Kind, Emit(j) PROVE FALSE
    BY <2>2 DEF Emit, EmitWarning, EmitCleared, EmitAutoStop, Emitted, IndInv, Types
  <2>3. ASSUME NEW j \in Kind, ClickKeep(j) \/ ClickStop(j) PROVE FALSE
    BY <2>3 DEF ClickKeep, ClickStop, threadVars
  <2>4. CASE MainStep
    BY <2>4 DEF MainStep, StopAgain, StopBegins, Keep, Take, Join, Joins, Clear, StopEnds,
                threadVars
  <2>5. CASE Start \/ TogglePause \/ ClickStopInPanel \/ Second
    BY <2>5 DEF Start, TogglePause, ClickStopInPanel, Second, threadVars
  <2>6. CASE UNCHANGED vars
    BY <2>6 DEF vars, threadVars
  <2> QED BY <2>1, <2>2, <2>3, <2>4, <2>5, <2>6 DEF Next
<1> DEFINE v == Measured(k)
           w == watch[k]
           n == Observe(k, v).watch
           x == keptAt[k]
<1>2. action'[k] = Observe(k, v).action /\ k \in watching
  BY <1>1 DEF Poll, IndInv, Types
<1>3. Types /\ v \in Time /\ w \in Watch /\ None \notin Nat /\ owner # None
      /\ Threshold[k] \in Nat \ {0} /\ Countdown[k] \in Nat \ {0}
  BY <1>2, MeasuredTime, WatchAssumption DEF IndInv, Types, Threads
<1>4. Outcome(k, w, v, n, "stop")
  BY <1>2, <1>3, Observed DEF Types
<1>5. /\ w.baseline \in Nat /\ w.warned \in Time /\ w.generation \in Nat
      /\ elapsed \in Nat /\ x \in Nat /\ x # None
  BY <1>3 DEF Types, Watch, Time
<1>6. /\ w.warned # None => w.warned >= Threshold[k]
      /\ x <= elapsed
      /\ w.generation = keeps[k] /\ v # None => v + x <= elapsed + w.baseline
  BY <1>3, <1>5 DEF IndInv, Fresh
<1> HIDE DEF v, w, n, x
<1>7. /\ keeps[k] = w.generation /\ v # None /\ w.warned # None
      /\ (IF v < w.baseline THEN 0 ELSE v - w.baseline) >= w.warned + Countdown[k]
  BY <1>4 DEF Outcome
<1>8. v \in Nat /\ w.warned \in Nat
  BY <1>3, <1>5, <1>7 DEF Time
<1>9. v >= w.baseline + Threshold[k] + Countdown[k]
  BY <1>3, <1>5, <1>6, <1>7, <1>8
<1>10. elapsed - x >= Threshold[k] + Countdown[k]
  BY <1>3, <1>5, <1>6, <1>7, <1>8, <1>9
<1> QED BY <1>10 DEF x

\* A Keep grants a whole threshold and a whole countdown, whatever the threads
\* had measured or decided before.
THEOREM KeepsAreHonoured == Spec => KeepIsHonoured
<1>1. IndInv /\ [Next]_vars =>
          [\A k \in Kind :
              action[k] # "stop" /\ action'[k] = "stop" /\ keptAt[k] # None
                 => elapsed - keptAt[k] >= Threshold[k] + Countdown[k]]_vars
  BY KeepHonoured
<1> QED BY Invariance, <1>1, PTL DEF Spec, KeepIsHonoured
=============================================================================
