------------------------ MODULE MeetingDetectionProofs ------------------------
(***************************************************************************)
(* Proofs about MeetingDetection, for any applications, inputs, stability  *)
(* windows and cooldowns: whatever order the two threads send their events *)
(* in, the window, the policy and the recorder agree.                      *)
(***************************************************************************)
EXTENDS MeetingDetection, TLAPS

Policy == [phase : {"idle", "candidate", "prompted", "recording"},
           session : Session \cup {None}, since : Nat, gone : Nat \cup {None},
           asked : BOOLEAN, declined : BOOLEAN]

Output == [kind : {"ShowPrompt", "SuggestStop", "CancelPrompt", "CancelStopPrompt"},
           app : App \cup {None}]

\* A thread has at most one event to send.
Outputs == {<<>>} \cup {<<o>> : o \in Output}

MainAt == {"free", "starting", "sending", "stopping", "stopped", "joining"}

Main == [at : MainAt, then : {"free", "pending", "start"}]

Types ==
    /\ now \in Nat
    /\ live \in SUBSET Session /\ seen \in SUBSET Session /\ known \in SUBSET Session
    /\ policy \in Policy
    /\ policy.phase # "idle" => policy.session \in Session
    /\ policy.phase # "recording" => policy.gone = None /\ policy.asked = FALSE
    /\ policy.asked = TRUE => policy.gone # None
    /\ cooldown \in [App -> Nat]
    /\ detector \in {"off", "asleep", "polling"}
    /\ out \in Outputs /\ mainOut \in Outputs
    /\ main \in Main
    /\ enabled \in BOOLEAN /\ restart \in BOOLEAN /\ active \in BOOLEAN
    /\ catalog \in SUBSET App
    /\ recorder \in {"none", "manual", "detected"}
    /\ window \in [prompt : App \cup {None}, stop : BOOLEAN]
    /\ clicked \in SUBSET {"accept", "dismiss", "stop", "keep"}

\* The main thread only retracts questions, has events only while it sends them,
\* and has ended the recording by then.
MainInHand ==
    /\ mainOut \in {<<>>, <<CancelPrompt>>, <<CancelStopPrompt>>}
    /\ mainOut # <<>> => main.at = "sending"
    /\ main.at = "sending" => policy.phase # "recording"

RecorderInHand ==
    /\ PolicyFollowsRecorder
    /\ policy.phase = "recording" /\ main.at # "starting" => active = TRUE

\* A prompt on its way comes after every cancellation that is.
PromptInHand ==
    policy.phase = "prompted" =>
        \/ out = <<Show(Tracked)>>
        \/ /\ out = <<>> /\ mainOut # <<CancelPrompt>>
           /\ window.prompt = Tracked \/ clicked \cap {"accept", "dismiss"} # {}

SuggestionInHand ==
    policy.asked = TRUE =>
        \/ out = <<SuggestStop(Tracked)>>
        \/ /\ out = <<>>
           /\ \/ window.stop = TRUE
              \/ clicked \cap {"stop", "keep"} # {}
              \/ main.at \in {"stopping", "stopped"}

\* A question is about an application of the catalog, but for the time between
\* a change of the catalog and the restart it leads to.
InCatalog ==
    /\ policy.phase # "idle" /\ restart = FALSE /\ main.at # "joining" => Tracked \in catalog
    /\ policy.phase = "recording" /\ restart = FALSE => Tracked \in catalog

\* Once the tracked input is gone, its application has no input but those it had
\* beside it.
GoneInHand ==
    /\ policy.gone # None => policy.session \notin beside
    /\ policy.gone # None /\ restart = FALSE =>
          \A s \in known : AppOf[s] = Tracked => s \in beside

CooldownIsHistory == cooldown = answered

IndInv ==
    /\ Types
    /\ MainInHand
    /\ RecorderInHand
    /\ PromptInHand
    /\ SuggestionInHand
    /\ InCatalog
    /\ GoneInHand
    /\ CooldownIsHistory

-----------------------------------------------------------------------------
\* What the invariant reads of the state of the policy.
Reads(p, phase, session, gone, asked) ==
    /\ p \in Policy
    /\ p.phase = phase /\ p.session = session /\ p.gone = gone /\ p.asked = asked

LEMMA IdleReads == Reads(Idle, "idle", None, None, FALSE)
  BY DEF Reads, Idle, Policy

\* The three things on_candidate_added may do.
LEMMA AddedReads ==
    ASSUME Types, NEW s \in Session
    PROVE  \/ /\ OnAdded(s) = Ignored
              /\ AppOf[s] \in catalog /\ policy.phase = "recording" => Tracked # AppOf[s]
           \/ /\ policy.phase = "recording" /\ Tracked = AppOf[s] /\ AppOf[s] \in catalog
              /\ Reads(OnAdded(s).policy, "recording", s, None, FALSE)
              /\ OnAdded(s).outputs = IF policy.asked THEN <<CancelStopPrompt>> ELSE <<>>
           \/ /\ policy.phase = "idle" /\ AppOf[s] \in catalog
              /\ Reads(OnAdded(s).policy, "candidate", s, None, FALSE)
              /\ OnAdded(s).outputs = <<>>
<1> DEFINE a == AppOf[s]
<1>1. CASE a \notin catalog
  BY <1>1 DEF OnAdded
<1>2. CASE a \in catalog /\ policy.phase = "recording" /\ Tracked = a
  <2>1. PICK p : p = [policy EXCEPT !.session = s, !.gone = None, !.asked = FALSE]
    OBVIOUS
  <2>2. OnAdded(s) = Result(p, IF policy.asked THEN <<CancelStopPrompt>> ELSE <<>>)
    BY <1>2, <2>1 DEF OnAdded
  <2>3. Reads(p, "recording", s, None, FALSE)
    BY <1>2, <2>1 DEF Reads, Types, Policy
  <2> QED
    BY <1>2, <2>2, <2>3 DEF Result, Reads
<1>3. CASE a \in catalog /\ ~(policy.phase = "recording" /\ Tracked = a)
  <2>1. PICK p : p = [Idle EXCEPT !.phase = "candidate", !.session = s, !.since = now]
    OBVIOUS
  <2>2. OnAdded(s) = IF InCooldown(a) \/ policy.phase # "idle" THEN Ignored
                                                               ELSE Result(p, <<>>)
    BY <1>3, <2>1 DEF OnAdded
  <2>3. Reads(p, "candidate", s, None, FALSE)
    BY <2>1 DEF Reads, Types, Policy, Idle
  <2> QED
    BY <1>3, <2>2, <2>3 DEF Result, Reads
<1> QED
  BY <1>1, <1>2, <1>3

\* on_candidate_removed: only the input that is asked about matters.
LEMMA RemovedReads ==
    ASSUME Types, NEW s \in Session
    PROVE  \/ policy.session # s /\ OnRemoved(s) = Ignored
           \/ /\ policy.phase = "recording" /\ policy.session = s
              /\ \E g \in Nat : Reads(OnRemoved(s).policy, "recording", s, g, policy.asked)
              /\ OnRemoved(s).outputs = <<>>
           \/ /\ policy.phase # "recording"
              /\ Reads(OnRemoved(s).policy, "idle", None, None, FALSE)
              /\ OnRemoved(s).outputs \in {<<>>, <<CancelPrompt>>}
<1>1. CASE policy.session # s
  BY <1>1 DEF OnRemoved
<1>2. CASE policy.session = s /\ policy.phase = "recording"
  <2> DEFINE g == IF policy.gone = None THEN now ELSE policy.gone
  <2>1. PICK p : p = [policy EXCEPT !.gone = IF @ = None THEN now ELSE @]
    OBVIOUS
  <2>2. OnRemoved(s) = Result(p, <<>>)
    BY <1>2, <2>1 DEF OnRemoved
  <2>3. g \in Nat /\ Reads(p, "recording", s, g, policy.asked)
    BY <1>2, <2>1 DEF Reads, Types, Policy
  <2> QED
    BY <1>2, <2>2, <2>3 DEF Result, Reads
<1>3. CASE policy.session = s /\ policy.phase # "recording"
  BY <1>3, IdleReads DEF OnRemoved, Result
<1> QED
  BY <1>1, <1>2, <1>3

\* on_tick: the only step that asks a question, and what it has checked.
LEMMA TickReads ==
    ASSUME Types
    PROVE  \/ OnTick = Ignored
           \/ /\ policy.phase = "recording" /\ policy.gone # None
              /\ Reads(OnTick.policy, "recording", policy.session, policy.gone, TRUE)
              /\ OnTick.outputs = <<SuggestStop(Tracked)>>
           \/ /\ policy.phase = "candidate"
              /\ Reads(OnTick.policy, "idle", None, None, FALSE)
              /\ OnTick.outputs = <<>>
           \/ /\ policy.phase = "candidate" /\ ~InCooldown(Tracked)
              /\ Reads(OnTick.policy, "prompted", policy.session, policy.gone, policy.asked)
              /\ OnTick.outputs = <<Show(Tracked)>>
<1>1. CASE policy.phase = "recording"
  <2>1. PICK p : p = [policy EXCEPT !.asked = TRUE]
    OBVIOUS
  <2>2. \/ OnTick = Ignored
        \/ policy.gone # None /\ OnTick = Result(p, <<SuggestStop(Tracked)>>)
    BY <1>1, <2>1 DEF OnTick
  <2>3. Reads(p, "recording", policy.session, policy.gone, TRUE)
    BY <1>1, <2>1 DEF Reads, Types, Policy
  <2> QED
    BY <1>1, <2>2, <2>3 DEF Result, Reads
<1>2. CASE policy.phase = "candidate"
  <2>1. PICK p : p = [policy EXCEPT !.phase = "prompted", !.since = 0]
    OBVIOUS
  <2>2. \/ OnTick = Ignored
        \/ OnTick = Result(Idle, <<>>)
        \/ ~InCooldown(Tracked) /\ OnTick = Result(p, <<Show(Tracked)>>)
    BY <1>2, <2>1 DEF OnTick
  <2>3. Reads(p, "prompted", policy.session, policy.gone, policy.asked)
    BY <1>2, <2>1 DEF Reads, Types, Policy
  <2> QED
    BY <1>2, <2>2, <2>3, IdleReads DEF Result, Reads
<1>3. CASE policy.phase \notin {"recording", "candidate"}
  BY <1>3 DEF OnTick
<1> QED
  BY <1>1, <1>2, <1>3

\* What the history of the other inputs becomes.
LEMMA BesideIs ==
    ASSUME NotesBeside
    PROVE  policy'.gone # None =>
              beside' = IF policy.gone = None THEN {s \in known' : AppOf[s] = Tracked}
                                              ELSE beside
  BY DEF NotesBeside

-----------------------------------------------------------------------------
(* The poller thread *)

LEMMA ReportAddedStep ==
    ASSUME IndInv, NEW s \in Session, ReportAdded(s)
    PROVE  IndInv'
<1> USE DEF IndInv
<1>1. /\ out = <<>> /\ known \subseteq seen /\ s \in seen /\ known' = known \cup {s}
      /\ policy' = OnAdded(s).policy /\ out' = OnAdded(s).outputs
      /\ UNCHANGED <<now, live, cooldown, answered, mainVars, windowVars, detector, seen>>
      /\ policy'.gone # None =>
            beside' = IF policy.gone = None THEN {x \in known' : AppOf[x] = Tracked}
                                            ELSE beside
  BY BesideIs DEF ReportAdded, Signal
<1> USE <1>1 DEF mainVars, windowVars
<1>3. CASE /\ OnAdded(s) = Ignored
           /\ AppOf[s] \in catalog /\ policy.phase = "recording" => Tracked # AppOf[s]
  <2>1. policy' = policy /\ out' = <<>>
    BY <1>3 DEF Ignored, Result
  <2> USE <2>1
  <2>2. Types' /\ MainInHand' /\ RecorderInHand'
    BY DEF Types, MainInHand, RecorderInHand, PolicyFollowsRecorder
  <2>3. PromptInHand' /\ SuggestionInHand' /\ CooldownIsHistory'
    BY DEF PromptInHand, SuggestionInHand, Tracked, Types, CooldownIsHistory
  <2>4. InCatalog' /\ GoneInHand'
    BY <1>3 DEF InCatalog, Tracked, GoneInHand, Types
  <2> QED
    BY <2>2, <2>3, <2>4
<1>4. CASE /\ policy.phase = "recording" /\ Tracked = AppOf[s] /\ AppOf[s] \in catalog
           /\ Reads(OnAdded(s).policy, "recording", s, None, FALSE)
           /\ OnAdded(s).outputs = IF policy.asked THEN <<CancelStopPrompt>> ELSE <<>>
  <2>1. Reads(policy', "recording", s, None, FALSE) /\ out' \in {<<>>, <<CancelStopPrompt>>}
    BY <1>4
  <2> USE <1>4, <2>1 DEF Reads
  <2>2. out' \in Outputs
    BY DEF Outputs, Output, CancelStopPrompt
  <2>3. Types' /\ MainInHand' /\ RecorderInHand'
    BY <2>2 DEF Types, MainInHand, RecorderInHand, PolicyFollowsRecorder
  <2>4. PromptInHand' /\ SuggestionInHand' /\ CooldownIsHistory'
    BY DEF PromptInHand, SuggestionInHand, CooldownIsHistory
  <2>5. InCatalog' /\ GoneInHand'
    BY DEF InCatalog, Tracked, GoneInHand
  <2> QED
    BY <2>3, <2>4, <2>5
<1>5. CASE /\ policy.phase = "idle" /\ AppOf[s] \in catalog
           /\ Reads(OnAdded(s).policy, "candidate", s, None, FALSE)
           /\ OnAdded(s).outputs = <<>>
  <2>1. Reads(policy', "candidate", s, None, FALSE) /\ out' = <<>>
    BY <1>5
  <2> USE <1>5, <2>1 DEF Reads
  <2>2. Types' /\ MainInHand' /\ RecorderInHand'
    BY DEF Types, MainInHand, RecorderInHand, PolicyFollowsRecorder
  <2>3. PromptInHand' /\ SuggestionInHand' /\ CooldownIsHistory'
    BY DEF PromptInHand, SuggestionInHand, CooldownIsHistory
  <2>4. InCatalog' /\ GoneInHand'
    BY DEF InCatalog, Tracked, GoneInHand
  <2> QED
    BY <2>2, <2>3, <2>4
<1> QED
  BY <1>3, <1>4, <1>5, AddedReads

LEMMA ReportRemovedStep ==
    ASSUME IndInv, NEW s \in Session, ReportRemoved(s)
    PROVE  IndInv'
<1> USE DEF IndInv
<1>1. /\ out = <<>> /\ s \in known /\ known' = known \ {s}
      /\ policy' = OnRemoved(s).policy /\ out' = OnRemoved(s).outputs
      /\ UNCHANGED <<now, live, cooldown, answered, mainVars, windowVars, detector, seen>>
      /\ policy'.gone # None =>
            beside' = IF policy.gone = None THEN {x \in known' : AppOf[x] = Tracked}
                                            ELSE beside
  BY BesideIs DEF ReportRemoved, Signal
<1> USE <1>1 DEF mainVars, windowVars
<1>3. CASE policy.session # s /\ OnRemoved(s) = Ignored
  <2>1. policy' = policy /\ out' = <<>>
    BY <1>3 DEF Ignored, Result
  <2> USE <2>1
  <2>2. Types' /\ MainInHand' /\ RecorderInHand'
    BY DEF Types, MainInHand, RecorderInHand, PolicyFollowsRecorder
  <2>3. PromptInHand' /\ SuggestionInHand' /\ CooldownIsHistory'
    BY DEF PromptInHand, SuggestionInHand, Tracked, Types, CooldownIsHistory
  <2>4. InCatalog' /\ GoneInHand'
    BY <1>1 DEF InCatalog, Tracked, GoneInHand, Types
  <2> QED
    BY <2>2, <2>3, <2>4
<1>4. CASE /\ policy.phase = "recording" /\ policy.session = s
           /\ \E g \in Nat : Reads(OnRemoved(s).policy, "recording", s, g, policy.asked)
           /\ OnRemoved(s).outputs = <<>>
  <2>1. PICK g \in Nat : Reads(policy', "recording", s, g, policy.asked) /\ out' = <<>>
    BY <1>4
  <2>2. g # None
    BY DetectionAssumption
  <2> USE <1>4, <2>1, <2>2 DEF Reads
  <2>3. Types' /\ MainInHand' /\ RecorderInHand'
    BY DEF Types, MainInHand, RecorderInHand, PolicyFollowsRecorder
  <2>4. PromptInHand' /\ SuggestionInHand' /\ CooldownIsHistory'
    BY DEF PromptInHand, SuggestionInHand, CooldownIsHistory
  <2>5. InCatalog' /\ GoneInHand'
    BY DEF InCatalog, Tracked, GoneInHand
  <2> QED
    BY <2>3, <2>4, <2>5
<1>5. CASE /\ policy.phase # "recording"
           /\ Reads(OnRemoved(s).policy, "idle", None, None, FALSE)
           /\ OnRemoved(s).outputs \in {<<>>, <<CancelPrompt>>}
  <2>1. Reads(policy', "idle", None, None, FALSE) /\ out' \in {<<>>, <<CancelPrompt>>}
    BY <1>5
  <2> USE <1>5, <2>1 DEF Reads
  <2>2. out' \in Outputs
    BY DEF Outputs, Output, CancelPrompt
  <2>3. Types' /\ MainInHand' /\ RecorderInHand'
    BY <2>2 DEF Types, MainInHand, RecorderInHand, PolicyFollowsRecorder
  <2>4. PromptInHand' /\ SuggestionInHand' /\ CooldownIsHistory'
    BY DEF PromptInHand, SuggestionInHand, CooldownIsHistory
  <2>5. InCatalog' /\ GoneInHand'
    BY DEF InCatalog, GoneInHand
  <2> QED
    BY <2>3, <2>4, <2>5
<1> QED
  BY <1>3, <1>4, <1>5, RemovedReads

LEMMA TickStep ==
    ASSUME IndInv, Tick
    PROVE  IndInv'
<1> USE DEF IndInv
<1>1. /\ out = <<>> /\ detector' = "asleep"
      /\ policy' = OnTick.policy /\ out' = OnTick.outputs
      /\ UNCHANGED <<now, live, cooldown, answered, mainVars, windowVars, known, seen>>
      /\ policy'.gone # None =>
            beside' = IF policy.gone = None THEN {x \in known' : AppOf[x] = Tracked}
                                            ELSE beside
  BY BesideIs DEF Tick, Signal
<1> USE <1>1 DEF mainVars, windowVars
<1>2. CASE OnTick = Ignored
  <2>1. policy' = policy /\ out' = <<>>
    BY <1>2 DEF Ignored, Result
  <2> USE <2>1
  <2>2. Types' /\ MainInHand' /\ RecorderInHand'
    BY DEF Types, MainInHand, RecorderInHand, PolicyFollowsRecorder
  <2>3. PromptInHand' /\ SuggestionInHand' /\ CooldownIsHistory'
    BY DEF PromptInHand, SuggestionInHand, Tracked, Types, CooldownIsHistory
  <2>4. InCatalog' /\ GoneInHand'
    BY DEF InCatalog, Tracked, GoneInHand, Types
  <2> QED
    BY <2>2, <2>3, <2>4
<1>3. CASE /\ policy.phase = "recording" /\ policy.gone # None
           /\ Reads(OnTick.policy, "recording", policy.session, policy.gone, TRUE)
           /\ OnTick.outputs = <<SuggestStop(Tracked)>>
  <2>1. /\ Reads(policy', "recording", policy.session, policy.gone, TRUE)
        /\ out' = <<SuggestStop(Tracked)>>
    BY <1>3
  <2>2. Tracked \in App
    BY <1>3, DetectionAssumption DEF Tracked, Types
  <2>3. out' \in Outputs
    BY <2>1, <2>2 DEF Outputs, Output, SuggestStop
  <2> USE <1>3, <2>1 DEF Reads
  <2>4. Types' /\ MainInHand' /\ RecorderInHand'
    BY <2>3 DEF Types, MainInHand, RecorderInHand, PolicyFollowsRecorder
  <2>5. PromptInHand' /\ SuggestionInHand' /\ CooldownIsHistory'
    BY DEF PromptInHand, SuggestionInHand, Tracked, CooldownIsHistory
  <2>6. InCatalog' /\ GoneInHand'
    BY DEF InCatalog, Tracked, GoneInHand
  <2> QED
    BY <2>4, <2>5, <2>6
<1>4. CASE /\ policy.phase = "candidate"
           /\ Reads(OnTick.policy, "idle", None, None, FALSE)
           /\ OnTick.outputs = <<>>
  <2>1. Reads(policy', "idle", None, None, FALSE) /\ out' = <<>>
    BY <1>4
  <2> USE <1>4, <2>1 DEF Reads
  <2>2. Types' /\ MainInHand' /\ RecorderInHand'
    BY DEF Types, MainInHand, RecorderInHand, PolicyFollowsRecorder
  <2>3. PromptInHand' /\ SuggestionInHand' /\ CooldownIsHistory'
    BY DEF PromptInHand, SuggestionInHand, CooldownIsHistory
  <2>4. InCatalog' /\ GoneInHand'
    BY DEF InCatalog, GoneInHand
  <2> QED
    BY <2>2, <2>3, <2>4
<1>5. CASE /\ policy.phase = "candidate" /\ ~InCooldown(Tracked)
           /\ Reads(OnTick.policy, "prompted", policy.session, policy.gone, policy.asked)
           /\ OnTick.outputs = <<Show(Tracked)>>
  <2>1. /\ Reads(policy', "prompted", policy.session, policy.gone, policy.asked)
        /\ out' = <<Show(Tracked)>>
    BY <1>5
  <2>2. Tracked \in App
    BY <1>5, DetectionAssumption DEF Tracked, Types
  <2>3. out' \in Outputs
    BY <2>1, <2>2 DEF Outputs, Output, Show
  <2> USE <1>5, <2>1 DEF Reads
  <2>4. Types' /\ MainInHand' /\ RecorderInHand'
    BY <2>3 DEF Types, MainInHand, RecorderInHand, PolicyFollowsRecorder
  <2>5. PromptInHand' /\ SuggestionInHand' /\ CooldownIsHistory'
    BY DEF PromptInHand, SuggestionInHand, Tracked, CooldownIsHistory, Types
  <2>6. InCatalog' /\ GoneInHand'
    BY DEF InCatalog, Tracked, GoneInHand
  <2> QED
    BY <2>4, <2>5, <2>6
<1> QED
  BY <1>2, <1>3, <1>4, <1>5, TickReads

\* A queue of events of a thread, and the window once its head is sent.
LEMMA OutputHead ==
    ASSUME NEW q \in Outputs, q # <<>>
    PROVE  Head(q) \in Output /\ q = <<Head(q)>> /\ Tail(q) = <<>>
<1>1. PICK o \in Output : q = <<o>>
  BY DEF Outputs
<1> QED
  BY <1>1

LEMMA ShownWindow ==
    ASSUME NEW o \in Output, NEW w \in [prompt : App \cup {None}, stop : BOOLEAN]
    PROVE  /\ Shown(w, o) \in [prompt : App \cup {None}, stop : BOOLEAN]
           /\ o.kind = "ShowPrompt" => Shown(w, o).prompt = o.app
           /\ o.kind \notin {"ShowPrompt", "CancelPrompt"} => Shown(w, o).prompt = w.prompt
           /\ o.kind = "SuggestStop" => Shown(w, o).stop = TRUE
           /\ o.kind \notin {"SuggestStop", "CancelStopPrompt"} => Shown(w, o).stop = w.stop
<1> USE DEF Output
<1>1. CASE o.kind = "ShowPrompt"
  <2>1. Shown(w, o) = [w EXCEPT !.prompt = o.app]
    BY <1>1 DEF Shown
  <2> QED
    BY <1>1, <2>1
<1>2. CASE o.kind = "CancelPrompt"
  <2>1. Shown(w, o) = [w EXCEPT !.prompt = None]
    BY <1>2 DEF Shown
  <2> QED
    BY <1>2, <2>1
<1>3. CASE o.kind = "SuggestStop"
  <2>1. Shown(w, o) = [w EXCEPT !.stop = TRUE]
    BY <1>3 DEF Shown
  <2> QED
    BY <1>3, <2>1
<1>4. CASE o.kind = "CancelStopPrompt"
  <2>1. Shown(w, o) = [w EXCEPT !.stop = FALSE]
    BY <1>4 DEF Shown
  <2> QED
    BY <1>4, <2>1
<1> QED
  BY <1>1, <1>2, <1>3, <1>4

\* A question that is sent arrives after every retraction the main thread had
\* begun, for the poller waits for the main thread with it.
LEMMA PollerSendsStep ==
    ASSUME IndInv, PollerSends
    PROVE  IndInv'
<1> USE DEF IndInv
<1>1. PICK o \in Output : /\ out = <<o>> /\ out' = <<>>
                          /\ NeedsMainThread(o) => main.at = "free"
                          /\ window' = Shown(window, o)
  BY OutputHead DEF PollerSends, Types
<1>2. UNCHANGED <<now, live, policyVars, detector, seen, known, mainVars, clicked>>
  BY DEF PollerSends
<1>3. /\ window' \in [prompt : App \cup {None}, stop : BOOLEAN]
      /\ o.kind = "ShowPrompt" => window'.prompt = o.app
      /\ o.kind = "SuggestStop" => window'.stop = TRUE
  BY <1>1, ShownWindow DEF Types
<1> USE <1>2 DEF policyVars, mainVars
<1>4. Types' /\ MainInHand'
  BY <1>1, <1>3 DEF Types, MainInHand, Outputs
<1>5. PromptInHand'
  <2>1. SUFFICES ASSUME policy.phase = "prompted"
                 PROVE  /\ window'.prompt = Tracked /\ mainOut # <<CancelPrompt>>
    BY <1>1 DEF PromptInHand, Tracked
  <2>2. o = Show(Tracked)
    BY <1>1, <2>1 DEF PromptInHand
  <2>3. main.at = "free"
    BY <1>1, <2>2 DEF NeedsMainThread, Show
  <2> QED
    BY <1>3, <2>2, <2>3 DEF Show, MainInHand
<1>6. SuggestionInHand'
  <2>1. SUFFICES ASSUME policy.asked = TRUE
                 PROVE  window'.stop = TRUE
    BY <1>1 DEF SuggestionInHand
  <2>2. o = SuggestStop(Tracked)
    BY <1>1, <2>1 DEF SuggestionInHand
  <2> QED
    BY <1>3, <2>2 DEF SuggestStop
<1>7. RecorderInHand' /\ InCatalog' /\ GoneInHand' /\ CooldownIsHistory'
  BY DEF RecorderInHand, PolicyFollowsRecorder, InCatalog, Tracked, GoneInHand,
         CooldownIsHistory
<1> QED
  BY <1>4, <1>5, <1>6, <1>7

-----------------------------------------------------------------------------
(* The main thread *)

LEMMA MainSendsStep ==
    ASSUME IndInv, MainSends
    PROVE  IndInv'
<1> USE DEF IndInv
<1>1. PICK o \in Output : /\ mainOut = <<o>> /\ mainOut' = <<>>
                          /\ window' = Shown(window, o)
  BY OutputHead DEF MainSends, Types
<1>2. /\ main.at = "sending"
      /\ UNCHANGED <<now, live, policyVars, detectorVars, main, enabled, catalog,
                     restart, active, recorder, clicked>>
  BY DEF MainSends
<1>3. /\ window' \in [prompt : App \cup {None}, stop : BOOLEAN]
      /\ o.kind \notin {"ShowPrompt", "CancelPrompt"} => window'.prompt = window.prompt
  BY <1>1, ShownWindow DEF Types
<1> USE <1>2 DEF policyVars, detectorVars
<1>4. Types' /\ MainInHand'
  BY <1>1, <1>3 DEF Types, MainInHand, Outputs
<1>5. PromptInHand'
  <2>1. SUFFICES ASSUME policy.phase = "prompted", out # <<Show(Tracked)>>
                 PROVE  o.kind \notin {"ShowPrompt", "CancelPrompt"}
    BY <1>1, <1>3 DEF PromptInHand, Tracked, Types
  <2>2. mainOut = <<CancelStopPrompt>>
    BY <1>1, <2>1 DEF MainInHand, PromptInHand
  <2> QED
    BY <1>1, <2>2 DEF CancelStopPrompt
<1>6. SuggestionInHand'
  BY DEF MainInHand, SuggestionInHand, Types
<1>7. RecorderInHand' /\ InCatalog' /\ GoneInHand' /\ CooldownIsHistory'
  BY DEF RecorderInHand, PolicyFollowsRecorder, InCatalog, Tracked, GoneInHand,
         CooldownIsHistory
<1> QED
  BY <1>4, <1>5, <1>6, <1>7

LEMMA SentStep ==
    ASSUME IndInv, Sent
    PROVE  IndInv'
<1> USE DEF IndInv
<1>1. /\ main.at = "sending" /\ mainOut = <<>>
      /\ UNCHANGED <<now, live, policyVars, seen, known, out, mainOut, enabled,
                     catalog, active, recorder, windowVars>>
      /\ \/ main' = [at |-> "joining", then |-> "start"] /\ restart' = FALSE /\ UNCHANGED detector
         \/ main' = Free /\ UNCHANGED restart /\ detector' \in {"asleep", detector}
  BY DEF Sent
<1> USE <1>1 DEF policyVars, windowVars, Free
<1>2. policy.phase # "recording" /\ policy.gone = None /\ policy.asked = FALSE
  BY DEF MainInHand, Types
<1>3. main' \in Main /\ main'.at # "sending"
  BY DEF Main, MainAt
<1>4. Types' /\ MainInHand'
  BY <1>3, ZenonT(40) DEF Types, MainInHand
<1>5. RecorderInHand' /\ PromptInHand' /\ SuggestionInHand'
  BY <1>2 DEF RecorderInHand, PolicyFollowsRecorder, PromptInHand, SuggestionInHand, Tracked
<1>6. InCatalog' /\ GoneInHand' /\ CooldownIsHistory'
  BY <1>2 DEF InCatalog, Tracked, GoneInHand, CooldownIsHistory
<1> QED
  BY <1>4, <1>5, <1>6

LEMMA ClickStep ==
    ASSUME IndInv, NEW answer \in {"accept", "dismiss", "stop", "keep"}, Click(answer)
    PROVE  IndInv'
<1> USE DEF IndInv
<1>1. /\ UNCHANGED <<now, live, policyVars, detectorVars, mainVars>>
      /\ clicked' = clicked \cup {answer}
      /\ window' \in [prompt : App \cup {None}, stop : BOOLEAN]
      /\ window'.prompt # window.prompt => answer \in {"accept", "dismiss"}
      /\ window'.stop # window.stop => answer \in {"stop", "keep"}
  BY DEF Click, Types
<1> USE <1>1 DEF policyVars, detectorVars, mainVars
<1>2. Types' /\ MainInHand'
  BY DEF Types, MainInHand
<1>3. PromptInHand' /\ SuggestionInHand'
  BY DEF PromptInHand, SuggestionInHand, Tracked, Types
<1>4. RecorderInHand' /\ InCatalog' /\ GoneInHand' /\ CooldownIsHistory'
  BY DEF RecorderInHand, PolicyFollowsRecorder, InCatalog, Tracked, GoneInHand,
         CooldownIsHistory
<1> QED
  BY <1>2, <1>3, <1>4

\* An answer is remembered as the history has it.
LEMMA Armed ==
    ASSUME Types, CooldownIsHistory, ArmCooldown
    PROVE  cooldown' \in [App -> Nat] /\ CooldownIsHistory'
<1>1. now + Cooldown \in Nat
  BY DetectionAssumption DEF Types
<1>2. cooldown' \in [App -> Nat]
  BY <1>1 DEF Types, ArmCooldown
<1>3. CooldownIsHistory'
  BY DEF ArmCooldown, CooldownIsHistory
<1> QED
  BY <1>2, <1>3

LEMMA AcceptStep ==
    ASSUME IndInv, Accept
    PROVE  IndInv'
<1> USE DEF IndInv
<1>1. /\ main.at = "free" /\ clicked' = clicked \ {"accept"}
      /\ UNCHANGED <<now, live, detectorVars, window, enabled, catalog, restart, active,
                     mainOut, recorder>>
  BY DEF Accept, Command
<1> USE <1>1 DEF detectorVars
<1>2. CASE policy.phase # "prompted"
  <2>1. UNCHANGED <<policyVars, main>>
    BY <1>2 DEF Accept
  <2> USE <2>1 DEF policyVars
  <2>2. Types' /\ MainInHand' /\ RecorderInHand'
    BY DEF Types, MainInHand, RecorderInHand, PolicyFollowsRecorder
  <2>3. PromptInHand' /\ SuggestionInHand'
    BY <1>2 DEF PromptInHand, SuggestionInHand, Tracked, Types
  <2>4. InCatalog' /\ GoneInHand' /\ CooldownIsHistory'
    BY DEF InCatalog, Tracked, GoneInHand, CooldownIsHistory
  <2> QED
    BY <2>2, <2>3, <2>4
<1>3. CASE policy.phase = "prompted"
  <2>1. /\ Reads(policy', "recording", policy.session, None, FALSE)
        /\ main' \in Main /\ main'.at = "starting"
        /\ policy.session \in Session
    BY <1>3 DEF Accept, Reads, Types, Policy, Main, MainAt
  <2>2. cooldown' \in [App -> Nat] /\ CooldownIsHistory'
    BY <1>3, Armed DEF Accept
  <2> USE <2>1, <2>2 DEF Reads
  <2>3. Types' /\ MainInHand' /\ RecorderInHand'
    BY DEF Types, Main, MainInHand, RecorderInHand, PolicyFollowsRecorder
  <2>4. PromptInHand' /\ SuggestionInHand'
    BY DEF PromptInHand, SuggestionInHand
  <2>5. InCatalog' /\ GoneInHand'
    BY <1>3 DEF InCatalog, Tracked, GoneInHand
  <2> QED
    BY <2>3, <2>4, <2>5
<1> QED
  BY <1>2, <1>3

LEMMA DeclineStopStep ==
    ASSUME IndInv, DeclineStop
    PROVE  IndInv'
<1> USE DEF IndInv
<1>1. /\ main.at = "free" /\ clicked' = clicked \ {"keep"}
      /\ UNCHANGED <<now, live, detectorVars, window, enabled, catalog, restart, active,
                     cooldown, answered, main, mainOut, recorder>>
      /\ policy' = IF policy.asked
                   THEN [policy EXCEPT !.asked = FALSE, !.declined = TRUE, !.gone = None]
                   ELSE policy
      /\ policy'.gone # None =>
            beside' = IF policy.gone = None THEN {x \in known' : AppOf[x] = Tracked}
                                            ELSE beside
  BY BesideIs DEF DeclineStop, Command
<1>2. /\ policy' \in Policy /\ policy'.phase = policy.phase
      /\ policy'.session = policy.session /\ policy'.asked = FALSE
      /\ policy'.gone \in {None, policy.gone}
  BY <1>1 DEF Types, Policy
<1> USE <1>1, <1>2 DEF detectorVars
<1>3. Types' /\ MainInHand' /\ RecorderInHand'
  BY DEF Types, MainInHand, RecorderInHand, PolicyFollowsRecorder
<1>4. PromptInHand' /\ SuggestionInHand'
  BY DEF PromptInHand, SuggestionInHand, Tracked, Types
<1>5. InCatalog' /\ GoneInHand' /\ CooldownIsHistory'
  BY DEF InCatalog, Tracked, GoneInHand, CooldownIsHistory
<1> QED
  BY <1>3, <1>4, <1>5

LEMMA SwitchStep ==
    ASSUME IndInv, Disable \/ \E c \in SUBSET App : SaveCatalog(c)
    PROVE  IndInv'
<1> USE DEF IndInv
<1>1. /\ main.at = "free" /\ enabled' \in BOOLEAN
      /\ catalog' \in SUBSET App /\ restart' \in BOOLEAN
      /\ \/ catalog' = catalog /\ restart' = restart
         \/ restart' = active
      /\ main' \in Main /\ main'.at \in {"free", "joining"}
      /\ restart' = FALSE => main'.at = "joining"
      /\ UNCHANGED <<now, live, policyVars, detectorVars, mainOut, active, recorder,
                     windowVars>>
  <2>1. CASE Disable
    BY <2>1 DEF Disable, Types, Main, MainAt, windowVars
  <2>2. CASE \E c \in SUBSET App : SaveCatalog(c)
    <3>1. PICK c \in SUBSET App : SaveCatalog(c)
      BY <2>2
    <3> QED
      BY <3>1 DEF SaveCatalog, Types, Main, MainAt, windowVars
  <2> QED
    BY <2>1, <2>2
<1> USE <1>1 DEF policyVars, detectorVars, windowVars
<1>2. Types' /\ MainInHand' /\ RecorderInHand'
  BY DEF Types, Main, MainInHand, RecorderInHand, PolicyFollowsRecorder
<1>3. PromptInHand' /\ SuggestionInHand'
  BY DEF PromptInHand, SuggestionInHand, Tracked, Types, RecorderInHand
<1>4. InCatalog' /\ GoneInHand' /\ CooldownIsHistory'
  BY DEF InCatalog, Tracked, GoneInHand, CooldownIsHistory, RecorderInHand, Types
<1> QED
  BY <1>2, <1>3, <1>4

\* The policy goes back to idle in the hands of the main thread.
LEMMA MainRetracts ==
    ASSUME IndInv,
           Reads(policy', "idle", None, None, FALSE),
           mainOut' \in {<<>>, <<CancelPrompt>>, <<CancelStopPrompt>>},
           main' \in Main, main'.at = "sending",
           cooldown' \in [App -> Nat], CooldownIsHistory',
           active' \in BOOLEAN, active' = TRUE => recorder = "detected",
           clicked' \in SUBSET clicked,
           UNCHANGED <<now, live, detectorVars, enabled, catalog, restart, recorder, window>>
    PROVE  IndInv'
<1> USE DEF IndInv, Reads, detectorVars
<1>1. mainOut' \in Outputs
  BY DEF Outputs, Output, CancelPrompt, CancelStopPrompt
<1>2. Types' /\ MainInHand' /\ RecorderInHand'
  BY <1>1 DEF Types, Main, MainInHand, RecorderInHand, PolicyFollowsRecorder
<1>3. PromptInHand' /\ SuggestionInHand' /\ InCatalog' /\ GoneInHand'
  BY DEF PromptInHand, SuggestionInHand, InCatalog, GoneInHand
<1> QED
  BY <1>2, <1>3

LEMMA ToIdleReads ==
    /\ Reads(ToIdle.policy, "idle", None, None, FALSE)
    /\ ToIdle.outputs \in {<<>>, <<CancelStopPrompt>>}
    /\ Reads(Reset.policy, "idle", None, None, FALSE)
    /\ Reset.outputs \in {<<>>, <<CancelPrompt>>, <<CancelStopPrompt>>}
  BY IdleReads DEF ToIdle, Reset, Result

LEMMA MainSignalStep ==
    ASSUME IndInv, AcceptedFails \/ Joined \/ Dismiss \/ Finished
    PROVE  IndInv'
<1>1. CASE AcceptedFails
  BY <1>1, MainRetracts, ToIdleReads
  DEF AcceptedFails, MainSignal, Main, MainAt, IndInv, Types, windowVars,
      CooldownIsHistory
<1>2. CASE Joined
  BY <1>2, MainRetracts, ToIdleReads
  DEF Joined, MainSignal, Main, MainAt, IndInv, Types, windowVars, CooldownIsHistory,
      RecorderInHand, PolicyFollowsRecorder
<1>3. CASE Dismiss /\ policy.phase = "prompted"
  <2>1. cooldown' \in [App -> Nat] /\ CooldownIsHistory'
    BY <1>3, Armed DEF Dismiss, IndInv
  <2>2. /\ Reads(policy', "idle", None, None, FALSE) /\ mainOut' = <<CancelPrompt>>
    BY <1>3, IdleReads DEF Dismiss, MainSignal, Result
  <2>3. main' \in Main /\ main'.at = "sending"
    BY <1>3 DEF Dismiss, MainSignal, Main, MainAt
  <2>4. /\ clicked' \in SUBSET clicked /\ active' = active /\ main.at = "free"
        /\ UNCHANGED <<now, live, detectorVars, enabled, catalog, restart, recorder, window>>
    BY <1>3 DEF Dismiss, Command
  <2>5. active \in BOOLEAN /\ (active = TRUE => recorder = "detected")
    BY <2>4 DEF IndInv, Types, RecorderInHand, PolicyFollowsRecorder
  <2> QED
    BY <2>1, <2>2, <2>3, <2>4, <2>5, MainRetracts
<1>4. CASE Dismiss /\ policy.phase # "prompted"
  <2>1. /\ clicked' = clicked \ {"dismiss"}
        /\ UNCHANGED <<now, live, policyVars, detectorVars, mainVars, window>>
    BY <1>4 DEF Dismiss, Command, policyVars, mainVars
  <2> USE <1>4, <2>1 DEF IndInv, policyVars, detectorVars, mainVars, vars, windowVars
  <2>2. Types' /\ MainInHand' /\ RecorderInHand'
    BY DEF Types, MainInHand, RecorderInHand, PolicyFollowsRecorder
  <2>3. PromptInHand' /\ SuggestionInHand'
    BY DEF PromptInHand, SuggestionInHand, Tracked, Types
  <2>4. InCatalog' /\ GoneInHand' /\ CooldownIsHistory'
    BY DEF InCatalog, Tracked, GoneInHand, CooldownIsHistory
  <2> QED
    BY <2>2, <2>3, <2>4
<1>5. CASE Finished /\ policy.phase = "recording"
  <2>1. MainSignal(ToIdle, "pending")
    BY <1>5 DEF Finished
  <2>2. /\ Reads(policy', "idle", None, None, FALSE)
        /\ mainOut' \in {<<>>, <<CancelStopPrompt>>}
        /\ main' \in Main /\ main'.at = "sending"
    BY <2>1, ToIdleReads DEF MainSignal, Main, MainAt
  <2> QED
    BY <1>5, <2>2, MainRetracts DEF Finished, IndInv, Types, windowVars, CooldownIsHistory
<1>6. CASE Finished /\ policy.phase # "recording"
  <2>1. /\ policy' = policy /\ mainOut' = <<>> /\ main' \in Main /\ main'.at = "sending"
        /\ active' = FALSE /\ main.at = "stopped"
        /\ UNCHANGED <<now, live, cooldown, answered, detectorVars, enabled, catalog, restart,
                   recorder, windowVars>>
    BY <1>6 DEF Finished, MainSignal, Ignored, Result, Main, MainAt
  <2> USE <1>6, <2>1 DEF IndInv, detectorVars, windowVars
  <2>2. Types' /\ MainInHand' /\ RecorderInHand'
    BY ZenonT(40) DEF Types, Main, MainInHand, RecorderInHand, PolicyFollowsRecorder, Outputs
  <2>3. PromptInHand' /\ SuggestionInHand'
    BY DEF PromptInHand, SuggestionInHand, Tracked, Types, CancelPrompt
  <2>4. InCatalog' /\ GoneInHand' /\ CooldownIsHistory'
    BY DEF InCatalog, Tracked, GoneInHand, CooldownIsHistory, MainInHand, Types
  <2> QED
    BY <2>2, <2>3, <2>4
<1> QED
  BY <1>1, <1>2, <1>3, <1>4, <1>5, <1>6

-----------------------------------------------------------------------------
(* Everything else, and the theorems *)

\* What neither asks nor retracts a question.
LEMMA QuietStep ==
    ASSUME IndInv,
           \/ Poll \/ PollerEnds \/ AcceptedStarts \/ AcceptStop \/ ManualStart
           \/ Stop \/ RecorderStops \/ Enable \/ Pass \/ UNCHANGED vars
           \/ \E s \in Session : InputChanges(s)
    PROVE  IndInv'
<1> USE DEF IndInv, policyVars, detectorVars, mainVars, windowVars
<1>1. CASE Poll
  <2> USE <1>1 DEF Poll
  <2>1. Types' /\ MainInHand' /\ RecorderInHand'
    BY DEF Types, Main, MainAt, MainInHand, RecorderInHand, PolicyFollowsRecorder
  <2>2. PromptInHand' /\ SuggestionInHand'
    BY DEF PromptInHand, SuggestionInHand, Tracked, Types, MainInHand, RecorderInHand
  <2>3. InCatalog' /\ GoneInHand' /\ CooldownIsHistory'
    BY DEF InCatalog, Tracked, GoneInHand, CooldownIsHistory
  <2> QED
    BY <2>1, <2>2, <2>3
<1>2. CASE PollerEnds
  <2> USE <1>2 DEF PollerEnds
  <2>1. Types' /\ MainInHand' /\ RecorderInHand'
    BY DEF Types, Main, MainAt, MainInHand, RecorderInHand, PolicyFollowsRecorder
  <2>2. PromptInHand' /\ SuggestionInHand'
    BY DEF PromptInHand, SuggestionInHand, Tracked, Types, MainInHand, RecorderInHand
  <2>3. InCatalog' /\ GoneInHand' /\ CooldownIsHistory'
    BY DEF InCatalog, Tracked, GoneInHand, CooldownIsHistory
  <2> QED
    BY <2>1, <2>2, <2>3
<1>3. CASE AcceptedStarts
  <2> USE <1>3 DEF AcceptedStarts, Free
  <2>1. Types' /\ MainInHand' /\ RecorderInHand'
    BY DEF Types, Main, MainAt, MainInHand, RecorderInHand, PolicyFollowsRecorder
  <2>2. PromptInHand' /\ SuggestionInHand'
    BY DEF PromptInHand, SuggestionInHand, Tracked, Types, MainInHand, RecorderInHand
  <2>3. InCatalog' /\ GoneInHand' /\ CooldownIsHistory'
    BY DEF InCatalog, Tracked, GoneInHand, CooldownIsHistory
  <2> QED
    BY <2>1, <2>2, <2>3
<1>4. CASE AcceptStop
  <2> USE <1>4 DEF AcceptStop, Command
  <2>1. Types' /\ MainInHand' /\ RecorderInHand'
    BY DEF Types, Main, MainAt, MainInHand, RecorderInHand, PolicyFollowsRecorder
  <2>2. PromptInHand' /\ SuggestionInHand'
    BY DEF PromptInHand, SuggestionInHand, Tracked, Types, MainInHand, RecorderInHand
  <2>3. InCatalog' /\ GoneInHand' /\ CooldownIsHistory'
    BY DEF InCatalog, Tracked, GoneInHand, CooldownIsHistory
  <2> QED
    BY <2>1, <2>2, <2>3
<1>5. CASE ManualStart
  <2> USE <1>5 DEF ManualStart
  <2>1. Types' /\ MainInHand' /\ RecorderInHand'
    BY DEF Types, Main, MainAt, MainInHand, RecorderInHand, PolicyFollowsRecorder
  <2>2. PromptInHand' /\ SuggestionInHand'
    BY DEF PromptInHand, SuggestionInHand, Tracked, Types, MainInHand, RecorderInHand
  <2>3. InCatalog' /\ GoneInHand' /\ CooldownIsHistory'
    BY DEF InCatalog, Tracked, GoneInHand, CooldownIsHistory
  <2> QED
    BY <2>1, <2>2, <2>3
<1>6. CASE Stop
  <2> USE <1>6 DEF Stop
  <2>1. Types' /\ MainInHand' /\ RecorderInHand'
    BY DEF Types, Main, MainAt, MainInHand, RecorderInHand, PolicyFollowsRecorder
  <2>2. PromptInHand' /\ SuggestionInHand'
    BY DEF PromptInHand, SuggestionInHand, Tracked, Types, MainInHand, RecorderInHand
  <2>3. InCatalog' /\ GoneInHand' /\ CooldownIsHistory'
    BY DEF InCatalog, Tracked, GoneInHand, CooldownIsHistory
  <2> QED
    BY <2>1, <2>2, <2>3
<1>7. CASE RecorderStops
  <2> USE <1>7 DEF RecorderStops
  <2>1. Types' /\ MainInHand' /\ RecorderInHand'
    BY DEF Types, Main, MainAt, MainInHand, RecorderInHand, PolicyFollowsRecorder
  <2>2. PromptInHand' /\ SuggestionInHand'
    BY DEF PromptInHand, SuggestionInHand, Tracked, Types, MainInHand, RecorderInHand
  <2>3. InCatalog' /\ GoneInHand' /\ CooldownIsHistory'
    BY DEF InCatalog, Tracked, GoneInHand, CooldownIsHistory
  <2> QED
    BY <2>1, <2>2, <2>3
<1>8. CASE Enable
  <2> USE <1>8 DEF Enable
  <2>1. Types' /\ MainInHand' /\ RecorderInHand'
    BY DEF Types, Main, MainAt, MainInHand, RecorderInHand, PolicyFollowsRecorder
  <2>2. PromptInHand' /\ SuggestionInHand'
    BY DEF PromptInHand, SuggestionInHand, Tracked, Types, MainInHand, RecorderInHand
  <2>3. InCatalog' /\ GoneInHand' /\ CooldownIsHistory'
    BY DEF InCatalog, Tracked, GoneInHand, CooldownIsHistory
  <2> QED
    BY <2>1, <2>2, <2>3
<1>9. CASE Pass
  <2> USE <1>9 DEF Pass
  <2>1. Types' /\ MainInHand' /\ RecorderInHand'
    BY DEF Types, Main, MainAt, MainInHand, RecorderInHand, PolicyFollowsRecorder
  <2>2. PromptInHand' /\ SuggestionInHand'
    BY DEF PromptInHand, SuggestionInHand, Tracked, Types, MainInHand, RecorderInHand
  <2>3. InCatalog' /\ GoneInHand' /\ CooldownIsHistory'
    BY DEF InCatalog, Tracked, GoneInHand, CooldownIsHistory
  <2> QED
    BY <2>1, <2>2, <2>3
<1>10. CASE UNCHANGED vars
  <2> USE <1>10 DEF vars
  <2>1. Types' /\ MainInHand' /\ RecorderInHand'
    BY DEF Types, Main, MainAt, MainInHand, RecorderInHand, PolicyFollowsRecorder
  <2>2. PromptInHand' /\ SuggestionInHand'
    BY DEF PromptInHand, SuggestionInHand, Tracked, Types, MainInHand, RecorderInHand
  <2>3. InCatalog' /\ GoneInHand' /\ CooldownIsHistory'
    BY DEF InCatalog, Tracked, GoneInHand, CooldownIsHistory
  <2> QED
    BY <2>1, <2>2, <2>3
<1>11. CASE \E s \in Session : InputChanges(s)
  <2>0. PICK s \in Session : InputChanges(s)
    BY <1>11
  <2> USE <2>0 DEF InputChanges
  <2>1. Types' /\ MainInHand' /\ RecorderInHand'
    BY DEF Types, Main, MainAt, MainInHand, RecorderInHand, PolicyFollowsRecorder
  <2>2. PromptInHand' /\ SuggestionInHand'
    BY DEF PromptInHand, SuggestionInHand, Tracked, Types, MainInHand, RecorderInHand
  <2>3. InCatalog' /\ GoneInHand' /\ CooldownIsHistory'
    BY DEF InCatalog, Tracked, GoneInHand, CooldownIsHistory
  <2> QED
    BY <2>1, <2>2, <2>3
<1> QED
  BY <1>1, <1>2, <1>3, <1>4, <1>5, <1>6, <1>7, <1>8, <1>9, <1>10, <1>11

LEMMA NextInv ==
    ASSUME IndInv, [Next]_vars
    PROVE  IndInv'
<1>1. CASE \E s \in Session : ReportRemoved(s) \/ ReportAdded(s)
  BY <1>1, ReportRemovedStep, ReportAddedStep
<1>2. CASE Tick \/ PollerSends \/ MainSends \/ Sent
  BY <1>2, TickStep, PollerSendsStep, MainSendsStep, SentStep
<1>3. CASE \E answer \in {"accept", "dismiss", "stop", "keep"} : Click(answer)
  BY <1>3, ClickStep
<1>4. CASE Accept \/ DeclineStop \/ Disable \/ \E c \in SUBSET App : SaveCatalog(c)
  BY <1>4, AcceptStep, DeclineStopStep, SwitchStep
<1>5. CASE AcceptedFails \/ Joined \/ Dismiss \/ Finished
  BY <1>5, MainSignalStep
<1>6. CASE \/ Poll \/ PollerEnds \/ AcceptedStarts \/ AcceptStop \/ ManualStart
           \/ Stop \/ RecorderStops \/ Enable \/ Pass \/ UNCHANGED vars
           \/ \E s \in Session : InputChanges(s)
  BY <1>6, QuietStep
<1> QED
  BY <1>1, <1>2, <1>3, <1>4, <1>5, <1>6 DEF Next

LEMMA InitInv == Init => IndInv
<1> SUFFICES ASSUME Init PROVE IndInv
  OBVIOUS
<1>1. Reads(policy, "idle", None, None, FALSE)
  BY IdleReads DEF Init
<1> USE <1>1 DEF Init, Free, Reads
<1>2. Types
  BY DEF Types, Main, MainAt, Outputs
<1>3. MainInHand /\ RecorderInHand /\ PromptInHand /\ SuggestionInHand
  BY DEF MainInHand, RecorderInHand, PolicyFollowsRecorder, PromptInHand, SuggestionInHand
<1>4. InCatalog /\ GoneInHand /\ CooldownIsHistory
  BY DEF InCatalog, GoneInHand, CooldownIsHistory
<1> QED
  BY <1>2, <1>3, <1>4 DEF IndInv

\* The invariant holds whatever order the poller and the main thread step the
\* policy and send its outputs in.
THEOREM Invariance == Spec => []IndInv
  BY InitInv, NextInv, PTL DEF Spec

\* A prompt or a suggestion the policy waits for is on the screen or answered:
\* it is never lost between the two threads.
THEOREM QuestionsAreOnScreen == Spec => []QuestionIsOnScreen
<1>1. IndInv => QuestionIsOnScreen
  BY DEF IndInv, Types, Policy, PromptInHand, SuggestionInHand, QuestionIsOnScreen
<1> QED
  BY Invariance, <1>1, PTL

\* The policy records while the recording it asked for does, however the start
\* or the stop of it ends.
THEOREM PolicyCorrect == Spec => []PolicyFollowsRecorder
<1>1. IndInv => PolicyFollowsRecorder
  BY DEF IndInv, RecorderInHand
<1> QED
  BY Invariance, <1>1, PTL

\* A stop is suggested only while the input of the meeting is gone and its
\* application has taken no other since, under whatever pid and however many it
\* holds (on_candidate_added runs before the cooldown is looked at).
THEOREM SuggestionsAreRight == Spec => []SuggestionMeansGone
<1>1. IndInv => SuggestionMeansGone
  <2> SUFFICES ASSUME IndInv, policy.asked, ~restart PROVE SuggestionMeansGone
    BY DEF SuggestionMeansGone
  <2>1. policy.gone # None /\ policy.phase = "recording" /\ restart = FALSE
    BY DEF IndInv, Types, Policy
  <2>2. policy.session \notin known
    BY <2>1 DEF IndInv, GoneInHand, Tracked
  <2> QED
    BY <2>1, <2>2 DEF IndInv, GoneInHand, SuggestionMeansGone
<1> QED
  BY Invariance, <1>1, PTL

\* Only a tick of the poller asks a new question.
LEMMA OnlyTickPrompts ==
    ASSUME IndInv, [Next]_vars, policy.phase # "prompted", policy'.phase = "prompted"
    PROVE  /\ ~InCooldown(Tracked) /\ policy.phase = "candidate"
           /\ policy'.session = policy.session
<1> USE DEF IndInv
<1>1. ASSUME NEW s \in Session, ReportAdded(s) PROVE FALSE
  <2>1. policy' = OnAdded(s).policy
    BY <1>1 DEF ReportAdded, Signal
  <2>2. CASE OnAdded(s) = Ignored
    BY <2>1, <2>2 DEF Ignored, Result
  <2>3. CASE \/ Reads(OnAdded(s).policy, "recording", s, None, FALSE)
             \/ Reads(OnAdded(s).policy, "candidate", s, None, FALSE)
    BY <2>1, <2>3 DEF Reads
  <2> QED
    BY <2>2, <2>3, AddedReads
<1>2. ASSUME NEW s \in Session, ReportRemoved(s) PROVE FALSE
  <2>1. policy' = OnRemoved(s).policy
    BY <1>2 DEF ReportRemoved, Signal
  <2>2. CASE OnRemoved(s) = Ignored
    BY <2>1, <2>2 DEF Ignored, Result
  <2>3. CASE \E g \in Nat : Reads(OnRemoved(s).policy, "recording", s, g, policy.asked)
    BY <2>1, <2>3 DEF Reads
  <2>4. CASE Reads(OnRemoved(s).policy, "idle", None, None, FALSE)
    BY <2>1, <2>4 DEF Reads
  <2> QED
    BY <2>2, <2>3, <2>4, RemovedReads
<1>3. ASSUME Tick
      PROVE  /\ ~InCooldown(Tracked) /\ policy.phase = "candidate"
             /\ policy'.session = policy.session
  <2>1. policy' = OnTick.policy
    BY <1>3 DEF Tick, Signal
  <2>2. CASE OnTick = Ignored
    BY <2>1, <2>2 DEF Ignored, Result
  <2>3. CASE \/ Reads(OnTick.policy, "recording", policy.session, policy.gone, TRUE)
             \/ Reads(OnTick.policy, "idle", None, None, FALSE)
    BY <2>1, <2>3 DEF Reads
  <2>4. CASE /\ policy.phase = "candidate" /\ ~InCooldown(Tracked)
             /\ Reads(OnTick.policy, "prompted", policy.session, policy.gone, policy.asked)
    BY <2>1, <2>4 DEF Reads
  <2> QED
    BY <2>2, <2>3, <2>4, TickReads
<1>4. CASE AcceptedFails \/ Joined \/ Dismiss \/ Finished
  <2>1. policy' = policy \/ policy' = ToIdle.policy \/ policy' = Reset.policy \/ policy' = Idle
    BY <1>4 DEF AcceptedFails, Joined, Dismiss, Finished, MainSignal, Ignored, Result, policyVars
  <2> QED
    BY <2>1, ToIdleReads, IdleReads DEF Reads
<1>5. CASE Accept
  BY <1>5 DEF Accept, Types, Policy, policyVars
<1>6. CASE DeclineStop
  BY <1>6 DEF DeclineStop, Types, Policy
<1>7. CASE UNCHANGED policyVars
  BY <1>7 DEF policyVars
<1>8. CASE UNCHANGED vars
  BY <1>8 DEF vars, policyVars
<1>9. CASE \/ Poll \/ PollerEnds \/ PollerSends \/ MainSends \/ Sent
           \/ \E s \in Session : InputChanges(s)
           \/ \E answer \in {"accept", "dismiss", "stop", "keep"} : Click(answer)
           \/ AcceptedStarts \/ AcceptStop \/ ManualStart \/ Stop \/ RecorderStops
           \/ Enable \/ Disable \/ Pass
           \/ \E c \in SUBSET App : SaveCatalog(c)
  BY <1>7, <1>9 DEF Poll, PollerEnds, PollerSends, MainSends, Sent, InputChanges, Click,
     AcceptedStarts, AcceptStop, ManualStart, Stop, RecorderStops, Enable, Disable, Pass,
     SaveCatalog
<1> QED
  BY <1>1, <1>2, <1>3, <1>4, <1>5, <1>6, <1>8, <1>9 DEF Next

\* An application the user has answered about stays quiet for its cooldown:
\* neither a reset nor a new catalog forgets the answer.
THEOREM AnsweredAppsAreQuiet == Spec => AnsweredAppIsQuiet
<1>1. ASSUME IndInv, [Next]_vars, policy.phase # "prompted", policy'.phase = "prompted"
      PROVE  now >= answered[AppOf[policy'.session]]
  <2>1. /\ ~(now < cooldown[Tracked]) /\ policy.session \in Session
        /\ policy'.session = policy.session
    BY <1>1, OnlyTickPrompts DEF InCooldown, IndInv, Types
  <2>2. now \in Nat /\ cooldown[Tracked] \in Nat /\ cooldown = answered
    BY <1>1, <2>1, DetectionAssumption DEF IndInv, Types, Tracked, CooldownIsHistory
  <2> QED
    BY <2>1, <2>2 DEF Tracked
<1>2. IndInv /\ [Next]_vars =>
          [policy.phase # "prompted" /\ policy'.phase = "prompted"
              => now >= answered[AppOf[policy'.session]]]_vars
  BY <1>1
<1> QED
  BY Invariance, <1>2, PTL DEF Spec, AnsweredAppIsQuiet
=============================================================================
