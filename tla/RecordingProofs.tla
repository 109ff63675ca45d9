-------------------------- MODULE RecordingProofs --------------------------
(***************************************************************************)
(* Theorems about Recording for any number of clients, monitors, sessions  *)
(* and places in the frame channel, and about the functions of the encoder *)
(* that FrameConversion has.                                               *)
(***************************************************************************)
EXTENDS Recording, FrameConversion, TLAPS

(* The inductive invariant *)

\* A handler has a session to stop exactly while it is not idle, and the handler of a
\* StartRecording holds the lock meanwhile, with no session in RECORDING_STATE.
HandlerInv ==
  /\ \A c \in Clients : joins[c] # NoSession <=> pc[c] # "idle"
  /\ \A c \in Clients : lock = c <=> pc[c] \in Starting
  /\ lock # NoClient => rec.session = NoSession

\* A session that was never started has no frames and nobody knows of it.
UnusedInv ==
  \A s \in Sessions : enc[s] = "unused" =>
    /\ rec.session # s
    /\ \A c \in Clients : joins[c] # s
    /\ chan[s] = <<>> /\ sent[s] = 0 /\ handled[s] = 0 /\ lost[s] = 0
    /\ ~ready[s] /\ ~panicked[s]
    /\ \A m \in Monitors : strays[s][m] = 0

\* A frame that was sent was encoded or refused, or is queued, but for what a thread
\* without an encoder throws away when it ends, and for what is lost by a panic.
FramesOf(s) ==
  /\ \/ ready[s] /\ ~panicked[s]
     \/ enc[s] \in {"unused", "check", "receive"}
     => handled[s] + lost[s] + Len(chan[s]) = sent[s]
  /\ enc[s] = "done" => chan[s] = <<>>

FramesInv == \A s \in Sessions : FramesOf(s)

\* A stray frame in hand counts as one of the session's: with it there is at most one.
StraysOf(s, m) ==
  /\ strays[s][m] <= 1
  /\ rec.session = s /\ cap[m] = "captured" /\ ~Covers(want[s], m) => strays[s][m] = 0

StraysInv == \A s \in Sessions : \A m \in Monitors : StraysOf(s, m)

RecordingInv ==
  /\ TypeOK
  /\ HandlerInv
  /\ UnusedInv
  /\ FramesInv
  /\ StraysInv
  /\ SessionIsActive
  /\ NoEncoderForgotten
-----------------------------------------------------------------------------
(* Lemmas about the operators *)

\* What starting a recording does: with a path it takes a session never used before.
LEMMA BeginEffect ==
  ASSUME TypeOK, NEW r \in Requests, Begin(r)
  PROVE  /\ rec' \in [active : BOOLEAN, ids : IdLists,
                      session : Sessions \cup {NoSession}]
         /\ enc' \in [Sessions -> EncLabels]
         /\ want' \in [Sessions -> IdLists]
         /\ rec'.active /\ rec'.ids = r.ids
         /\ rec'.session # NoSession =>
              /\ enc[rec'.session] = "unused"
              /\ enc'[rec'.session] = "check"
              /\ want'[rec'.session] = r.ids
         /\ \A s \in Sessions : s # rec'.session =>
              enc'[s] = enc[s] /\ want'[s] = want[s]
<1>1. CASE ~r.path
  <2>1. /\ rec' = [active |-> TRUE, ids |-> r.ids, session |-> NoSession]
        /\ enc' = enc /\ want' = want
    BY <1>1 DEF Begin
  <2>2. rec'.active /\ rec'.ids = r.ids /\ rec'.session = NoSession
    BY <2>1
  <2>3. QED
    BY <2>1, <2>2 DEF TypeOK, Requests
<1>2. CASE r.path
  <2>1. PICK s \in Sessions :
          /\ enc[s] = "unused"
          /\ rec' = [active |-> TRUE, ids |-> r.ids, session |-> s]
          /\ enc' = [enc EXCEPT ![s] = "check"]
          /\ want' = [want EXCEPT ![s] = r.ids]
    BY <1>2, RecordingAssumption DEF Begin
  <2>2. rec'.active /\ rec'.ids = r.ids /\ rec'.session = s
    BY <2>1
  <2>3. enc' \in [Sessions -> EncLabels] /\ want' \in [Sessions -> IdLists]
    BY <2>1 DEF TypeOK, EncLabels, Requests
  <2>4. QED
    BY <2>1, <2>2, <2>3 DEF TypeOK, Requests
<1>3. QED
  BY <1>1, <1>2 DEF Requests

\* Receiving takes one frame out of a channel that has one.
LEMMA TailOfChannel ==
  ASSUME NEW q \in Seq(Monitors), q # <<>>
  PROVE  /\ Tail(q) \in Seq(Monitors) /\ Len(Tail(q)) \in Nat
         /\ Len(Tail(q)) = Len(q) - 1 /\ Len(q) \in Nat \ {0}
OBVIOUS

\* Swap-chain and encoder threads leave the handlers' state alone.
LEMMA OtherThreads ==
  /\ \A m \in Monitors :
       AcquireFrame(m) \/ CaptureFails(m) \/ SkipFrame(m) \/ SendFrame(m)
         => UNCHANGED <<rec, lock, pc, joins, want, enc, fileVars>>
  /\ \A s \in Sessions :
       EncoderStep(s) => UNCHANGED <<rec, lock, pc, joins, cap, want, sent, strays>>
<1>1. ASSUME NEW m \in Monitors,
             AcquireFrame(m) \/ CaptureFails(m) \/ SkipFrame(m) \/ SendFrame(m)
      PROVE  UNCHANGED <<rec, lock, pc, joins, want, enc, fileVars>>
  BY <1>1 DEF AcquireFrame, CaptureFails, SkipFrame, SendFrame, sessionVars, threadVars
<1>2. ASSUME NEW s \in Sessions, EncoderStep(s)
      PROVE  UNCHANGED <<rec, lock, pc, joins, cap, want, sent, strays>>
  BY <1>2 DEF EncoderStep, EncoderChecks, EncoderTimesOut, EncoderReceives,
              EncoderInitFails, EncoderDrains, EncoderPanics, EncoderFinishes, encoderFrame
<1>3. QED
  BY <1>1, <1>2
-----------------------------------------------------------------------------
(* Type correctness *)

LEMMA TypeInit == Init => TypeOK
BY RecordingAssumption DEF Init, TypeOK, Labels, EncLabels, Requests, NoRequest

LEMMA TypeStep ==
  ASSUME TypeOK, HandlerInv, [Next]_vars
  PROVE  TypeOK'
<1> USE DEF fileVars, threadVars
<1>1. ASSUME NEW c \in Clients, NEW r \in Requests, StartRecording(c, r)
      PROVE  TypeOK'
  <2>1. CASE rec.session = NoSession
    <3>1. Begin(r) /\ UNCHANGED <<lock, pc, request, joins>>
      BY <1>1, <2>1 DEF StartRecording
    <3>2. QED
      BY <1>1, <3>1, BeginEffect DEF StartRecording, TypeOK
  <2>2. CASE rec.session # NoSession
    <3>1. /\ rec' = [rec EXCEPT !.session = NoSession]
          /\ lock' = c
          /\ joins' = [joins EXCEPT ![c] = rec.session]
          /\ request' = [request EXCEPT ![c] = r]
          /\ pc' = [pc EXCEPT ![c] = "signalStart"]
          /\ UNCHANGED <<enc, want, cap, stop, chan, fileVars, sent, strays>>
      BY <1>1, <2>2 DEF StartRecording, Goto
    <3>2. rec' \in [active : BOOLEAN, ids : IdLists, session : Sessions \cup {NoSession}]
      BY <3>1 DEF TypeOK
    <3>3. /\ pc' \in [Clients -> Labels]
          /\ request' \in [Clients -> Requests]
          /\ joins' \in [Clients -> Sessions \cup {NoSession}]
      BY <3>1 DEF TypeOK, Labels
    <3>4. QED
      BY <3>1, <3>2, <3>3 DEF TypeOK
  <2>3. QED
    BY <2>1, <2>2
<1>2. ASSUME NEW c \in Clients, StopRecording(c)
      PROVE  TypeOK'
  BY <1>2, RecordingAssumption DEF StopRecording, TypeOK, Goto, Labels, sessionVars
<1>3. ASSUME NEW c \in Clients, SignalStop(c)
      PROVE  TypeOK'
  BY <1>3 DEF SignalStop, TypeOK, Goto, Labels, threadVars
<1>4. ASSUME NEW c \in Clients, FinishStart(c)
      PROVE  TypeOK'
  <2>1. request[c] \in Requests /\ NoRequest \in Requests
    BY RecordingAssumption DEF TypeOK, Requests, NoRequest
  <2>2. Begin(request[c])
    BY <1>4 DEF FinishStart
  <2>3. QED
    BY <1>4, <2>1, <2>2, BeginEffect DEF FinishStart, TypeOK, Goto, Labels
<1>5. ASSUME NEW c \in Clients, FinishStop(c)
      PROVE  TypeOK'
  BY <1>5 DEF FinishStop, TypeOK, Goto, Labels, sessionVars
<1>6. ASSUME NEW m \in Monitors, AcquireFrame(m) \/ CaptureFails(m) \/ SkipFrame(m)
      PROVE  TypeOK'
  BY <1>6 DEF AcquireFrame, CaptureFails, SkipFrame, TypeOK, sessionVars
<1>7. ASSUME NEW m \in Monitors, SendFrame(m)
      PROVE  TypeOK'
  <2>1. rec.session \in Sessions
    BY <1>7 DEF SendFrame, TypeOK
  <2>2. /\ chan' \in [Sessions -> Seq(Monitors)]
        /\ sent' \in [Sessions -> Nat]
        /\ strays' \in [Sessions -> [Monitors -> Nat]]
    BY <1>7, <2>1 DEF SendFrame, TypeOK
  <2>3. QED
    BY <1>7, <2>2 DEF SendFrame, TypeOK
<1>8. ASSUME NEW s \in Sessions, EncoderStep(s)
      PROVE  TypeOK'
  <2>1. CASE EncoderChecks(s) \/ EncoderTimesOut(s) \/ EncoderFinishes(s)
    BY <2>1 DEF EncoderChecks, EncoderTimesOut, EncoderFinishes, EncoderGoto,
                TypeOK, EncLabels, encoderFrame
  <2>2. CASE EncoderInitFails(s)
    BY <2>2 DEF EncoderInitFails, EncoderGoto, TypeOK, EncLabels, encoderFrame
  <2>3. CASE EncoderPanics(s)
    <3>1. /\ chan' = [chan EXCEPT ![s] = <<>>]
          /\ ready' = [ready EXCEPT ![s] = TRUE]
          /\ panicked' = [panicked EXCEPT ![s] = TRUE]
          /\ enc' = [enc EXCEPT ![s] = "done"]
          /\ UNCHANGED <<encoderFrame, handled, lost>>
      BY <2>3 DEF EncoderPanics, EncoderGoto
    <3>2. chan' \in [Sessions -> Seq(Monitors)]
      <4>1. <<>> \in Seq(Monitors)
        OBVIOUS
      <4>2. QED
        BY <3>1, <4>1 DEF TypeOK
    <3>3. /\ ready' \in [Sessions -> BOOLEAN]
          /\ panicked' \in [Sessions -> BOOLEAN]
      BY <3>1 DEF TypeOK
    <3>4. enc' \in [Sessions -> EncLabels]
      BY <3>1 DEF TypeOK, EncLabels
    <3>5. QED
      BY <3>1, <3>2, <3>3, <3>4 DEF TypeOK, encoderFrame
  <2>4. CASE EncoderReceives(s) \/ EncoderDrains(s)
    <3>1. chan[s] \in Seq(Monitors) /\ chan[s] # <<>>
      BY <2>4 DEF EncoderReceives, EncoderDrains, TypeOK
    <3>2. Tail(chan[s]) \in Seq(Monitors)
      BY <3>1, TailOfChannel
    <3>3. chan' \in [Sessions -> Seq(Monitors)]
      BY <2>4, <3>2 DEF EncoderReceives, EncoderDrains, TypeOK
    <3> DEFINE Counted == handled' \in [Sessions -> Nat] /\ lost' \in [Sessions -> Nat]
    <3>4. Encodes(s) => Counted
      <4>1. \A f \in [Sessions -> Nat] : [f EXCEPT ![s] = @ + 1] \in [Sessions -> Nat]
        OBVIOUS
      <4>2. handled \in [Sessions -> Nat] /\ lost \in [Sessions -> Nat]
        BY DEF TypeOK
      <4>3. QED
        BY <4>1, <4>2 DEF Encodes
    <3>5. UNCHANGED <<handled, lost>> => Counted
      BY DEF TypeOK
    <3> HIDE DEF Counted
    <3>6. CASE EncoderReceives(s)
      <4>1. Counted
        BY <3>4, <3>6 DEF EncoderReceives
      <4>2. QED
        BY <3>3, <3>6, <4>1 DEF EncoderReceives, EncoderGoto, TypeOK, EncLabels, encoderFrame,
                                Counted
    <3>7. CASE EncoderDrains(s)
      <4>1. Counted
        BY <3>4, <3>5, <3>7 DEF EncoderDrains
      <4>2. QED
        BY <3>3, <3>7, <4>1 DEF EncoderDrains, TypeOK, encoderFrame, Counted
    <3>8. QED
      BY <2>4, <3>6, <3>7
  <2>5. QED
    BY <1>8, <2>1, <2>2, <2>3, <2>4 DEF EncoderStep
<1>9. CASE UNCHANGED vars
  BY <1>9 DEF vars, TypeOK
<1>10. QED
  BY <1>1, <1>2, <1>3, <1>4, <1>5, <1>6, <1>7, <1>8, <1>9 DEF Next, Finish
-----------------------------------------------------------------------------
(* Handlers and the lock *)

LEMMA HandlerStep ==
  ASSUME TypeOK, HandlerInv, [Next]_vars
  PROVE  HandlerInv'
<1> USE RecordingAssumption DEF Starting
<1>1. ASSUME NEW c \in Clients, NEW r \in Requests, StartRecording(c, r)
      PROVE  HandlerInv'
  <2>1. CASE rec.session = NoSession
    BY <1>1, <2>1 DEF StartRecording, HandlerInv
  <2>2. CASE rec.session # NoSession
    <3>1. /\ pc[c] = "idle" /\ lock = NoClient
          /\ rec'.session = NoSession
          /\ lock' = c
          /\ joins' = [joins EXCEPT ![c] = rec.session]
          /\ pc' = [pc EXCEPT ![c] = "signalStart"]
      BY <1>1, <2>2 DEF StartRecording, Goto, TypeOK
    <3>2. QED
      BY <2>2, <3>1 DEF HandlerInv, TypeOK
  <2>3. QED
    BY <2>1, <2>2
<1>2. ASSUME NEW c \in Clients, StopRecording(c)
      PROVE  HandlerInv'
  <2>1. /\ pc[c] = "idle" /\ lock = NoClient /\ lock' = lock
        /\ joins' = [joins EXCEPT ![c] = rec.session]
        /\ IF rec.session = NoSession THEN pc' = pc
           ELSE pc' = [pc EXCEPT ![c] = "signalStop"]
    BY <1>2 DEF StopRecording, Goto
  <2>2. QED
    BY <2>1 DEF HandlerInv, TypeOK
<1>3. ASSUME NEW c \in Clients, SignalStop(c)
      PROVE  HandlerInv'
  BY <1>3 DEF SignalStop, Goto, HandlerInv, TypeOK
<1>4. ASSUME NEW c \in Clients, FinishStart(c)
      PROVE  HandlerInv'
  BY <1>4 DEF FinishStart, Goto, HandlerInv, TypeOK
<1>5. ASSUME NEW c \in Clients, FinishStop(c)
      PROVE  HandlerInv'
  BY <1>5 DEF FinishStop, Goto, HandlerInv, TypeOK
<1>6. ASSUME UNCHANGED <<rec, lock, pc, joins>>
      PROVE  HandlerInv'
  BY <1>6 DEF HandlerInv
<1>7. QED
  BY <1>1, <1>2, <1>3, <1>4, <1>5, <1>6, OtherThreads DEF Next, Finish, vars
-----------------------------------------------------------------------------
(* Sessions *)

\* Both ways a recording starts: at once, or after the old encoder was joined.
StartsWith(c, r) ==
  \/ StartRecording(c, r) /\ rec.session = NoSession
  \/ FinishStart(c) /\ r = request[c]

\* Both ways a session is taken out of RECORDING_STATE, to be stopped.
Takes(c) ==
  \/ StopRecording(c)
  \/ \E r \in Requests : StartRecording(c, r) /\ rec.session # NoSession

LEMMA Starts ==
  ASSUME TypeOK, NEW c \in Clients, NEW r \in Requests, StartsWith(c, r)
  PROVE  /\ Begin(r)
         /\ UNCHANGED <<stop, chan, fileVars, sent, strays>>
         /\ \A d \in Clients :
              \/ joins'[d] = joins[d]
              \/ joins'[d] = NoSession /\ enc[joins[d]] = "done"
<1>1. CASE StartRecording(c, r) /\ rec.session = NoSession
  BY <1>1 DEF StartRecording
<1>2. CASE FinishStart(c) /\ r = request[c]
  <2>1. joins' = [joins EXCEPT ![c] = NoSession] /\ enc[joins[c]] = "done"
    BY <1>2 DEF FinishStart
  <2>2. QED
    BY <1>2, <2>1 DEF FinishStart, TypeOK
<1>3. QED
  BY <1>1, <1>2 DEF StartsWith

LEMMA Taken ==
  ASSUME TypeOK, NEW c \in Clients, Takes(c)
  PROVE  /\ rec'.session = NoSession
         /\ joins' = [joins EXCEPT ![c] = rec.session]
         /\ pc[c] = "idle"
         /\ UNCHANGED <<enc, stop, chan, fileVars, sent, want, strays>>
<1>1. CASE StopRecording(c)
  BY <1>1 DEF StopRecording, sessionVars, threadVars
<1>2. ASSUME NEW r \in Requests, StartRecording(c, r), rec.session # NoSession
      PROVE  /\ rec'.session = NoSession
             /\ joins' = [joins EXCEPT ![c] = rec.session]
             /\ pc[c] = "idle"
             /\ UNCHANGED <<enc, stop, chan, fileVars, sent, want, strays>>
  BY <1>2 DEF StartRecording, TypeOK
<1>3. QED
  BY <1>1, <1>2 DEF Takes

\* Every step of a handler starts a recording, takes a session, or only goes on.
LEMMA HandlerSteps ==
  ASSUME TypeOK, NEW c \in Clients,
         Finish(c) \/ StopRecording(c) \/ \E r \in Requests : StartRecording(c, r)
  PROVE  \/ Takes(c) \/ SignalStop(c) \/ FinishStop(c)
         \/ \E r \in Requests : StartsWith(c, r)
<1>1. FinishStart(c) => StartsWith(c, request[c]) /\ request[c] \in Requests
  BY DEF StartsWith, TypeOK
<1>2. QED
  BY <1>1 DEF Finish, Takes, StartsWith

\* What an encoder thread does to its own session and to no other.
LEMMA EncoderEffect ==
  ASSUME TypeOK, NEW s \in Sessions, EncoderStep(s)
  PROVE  /\ enc[s] \notin {"unused", "done"} /\ enc'[s] # "unused"
         /\ \A t \in Sessions \ {s} :
              /\ enc'[t] = enc[t] /\ chan'[t] = chan[t] /\ ready'[t] = ready[t]
              /\ handled'[t] = handled[t] /\ lost'[t] = lost[t]
              /\ panicked'[t] = panicked[t]
<1> USE DEF EncoderGoto, TypeOK, fileVars
<1>1. enc[s] \notin {"unused", "done"} /\ enc'[s] # "unused"
  BY DEF EncoderStep, EncoderChecks, EncoderTimesOut, EncoderReceives,
         EncoderInitFails, EncoderDrains, EncoderPanics, EncoderFinishes
<1>2. ASSUME NEW t \in Sessions \ {s}
      PROVE  /\ enc'[t] = enc[t] /\ chan'[t] = chan[t] /\ ready'[t] = ready[t]
             /\ handled'[t] = handled[t] /\ lost'[t] = lost[t]
             /\ panicked'[t] = panicked[t]
  <2>1. CASE EncoderChecks(s) \/ EncoderTimesOut(s) \/ EncoderFinishes(s)
    BY <2>1 DEF EncoderChecks, EncoderTimesOut, EncoderFinishes
  <2>2. CASE EncoderReceives(s)
    BY <2>2 DEF EncoderReceives, Encodes
  <2>3. CASE EncoderDrains(s)
    BY <2>3 DEF EncoderDrains, Encodes
  <2>4. CASE EncoderInitFails(s) \/ EncoderPanics(s)
    BY <2>4 DEF EncoderInitFails, EncoderPanics
  <2>5. QED
    BY <2>1, <2>2, <2>3, <2>4 DEF EncoderStep
<1>3. QED
  BY <1>1, <1>2

LEMMA UnusedStep ==
  ASSUME TypeOK, HandlerInv, UnusedInv, [Next]_vars
  PROVE  UnusedInv'
<1> USE RecordingAssumption DEF fileVars
<1>1. ASSUME NEW c \in Clients, NEW r \in Requests, StartsWith(c, r)
      PROVE  UnusedInv'
  <2>1. Begin(r) /\ UNCHANGED <<chan, fileVars, sent, strays>>
    BY <1>1, Starts
  <2>2. \A d \in Clients : joins'[d] = joins[d] \/ joins'[d] = NoSession
    BY <1>1, Starts
  <2>3. ASSUME NEW s \in Sessions, enc'[s] = "unused"
        PROVE  s # rec'.session /\ enc[s] = "unused"
    BY <2>1, <2>3, BeginEffect
  <2>4. QED
    BY <2>1, <2>2, <2>3 DEF UnusedInv
<1>2. ASSUME NEW c \in Clients, Takes(c)
      PROVE  UnusedInv'
  <2>1. /\ rec'.session = NoSession
        /\ joins' = [joins EXCEPT ![c] = rec.session]
        /\ UNCHANGED <<enc, chan, fileVars, sent, strays>>
    BY <1>2, Taken
  <2>2. QED
    BY <2>1 DEF UnusedInv, TypeOK
<1>3. ASSUME NEW c \in Clients, SignalStop(c) \/ FinishStop(c)
      PROVE  UnusedInv'
  <2>1. /\ \A d \in Clients : joins'[d] = joins[d] \/ joins'[d] = NoSession
        /\ UNCHANGED <<rec, enc, chan, fileVars, sent, strays>>
    BY <1>3 DEF SignalStop, FinishStop, threadVars, sessionVars, TypeOK
  <2>2. QED
    BY <2>1 DEF UnusedInv
<1>4. ASSUME NEW m \in Monitors, SendFrame(m)
      PROVE  UnusedInv'
  <2>1. rec.session \in Sessions /\ UNCHANGED <<rec, joins, enc, fileVars>>
    BY <1>4 DEF SendFrame, TypeOK
  <2>2. \A s \in Sessions : s # rec.session =>
          chan'[s] = chan[s] /\ sent'[s] = sent[s] /\ strays'[s] = strays[s]
    BY <1>4 DEF SendFrame, TypeOK
  <2>3. QED
    BY <2>1, <2>2 DEF UnusedInv
<1>5. ASSUME NEW m \in Monitors, AcquireFrame(m) \/ CaptureFails(m) \/ SkipFrame(m)
      PROVE  UnusedInv'
  BY <1>5 DEF AcquireFrame, CaptureFails, SkipFrame, sessionVars, threadVars, UnusedInv
<1>6. ASSUME NEW s \in Sessions, EncoderStep(s)
      PROVE  UnusedInv'
  <2>1. UNCHANGED <<rec, joins, sent, strays>>
    BY <1>6, OtherThreads
  <2>2. QED
    BY <1>6, <2>1, EncoderEffect DEF UnusedInv
<1>7. CASE UNCHANGED vars
  BY <1>7 DEF vars, UnusedInv
<1>8. QED
  BY <1>1, <1>2, <1>3, <1>4, <1>5, <1>6, <1>7, HandlerSteps DEF Next

LEMMA SessionStep ==
  ASSUME TypeOK, SessionIsActive, UnusedInv, [Next]_vars
  PROVE  SessionIsActive'
<1> USE RecordingAssumption
<1>1. ASSUME NEW r \in Requests, Begin(r)
      PROVE  SessionIsActive'
  BY <1>1, BeginEffect DEF SessionIsActive
<1>2. ASSUME rec'.session = NoSession
      PROVE  SessionIsActive'
  BY <1>2 DEF SessionIsActive
<1>3. ASSUME UNCHANGED <<rec, want>>
      PROVE  SessionIsActive'
  BY <1>3 DEF SessionIsActive
<1>4. ASSUME NEW c \in Clients, SignalStop(c) \/ FinishStop(c)
      PROVE  SessionIsActive'
  BY <1>3, <1>4 DEF SignalStop, FinishStop, sessionVars
<1>5. QED
  BY <1>1, <1>2, <1>3, <1>4, HandlerSteps, Starts, Taken, OtherThreads DEF Next, vars

LEMMA ForgottenStep ==
  ASSUME TypeOK, HandlerInv, UnusedInv, NoEncoderForgotten, [Next]_vars
  PROVE  NoEncoderForgotten'
<1> USE RecordingAssumption
<1> DEFINE Runs(s) == enc[s] \notin {"unused", "done"}
<1>1. ASSUME NEW c \in Clients, NEW r \in Requests, StartsWith(c, r)
      PROVE  NoEncoderForgotten'
  <2>1. Begin(r) /\ \A d \in Clients :
          \/ joins'[d] = joins[d]
          \/ joins'[d] = NoSession /\ enc[joins[d]] = "done"
    BY <1>1, Starts
  <2>2. rec.session = NoSession
    BY <1>1 DEF StartsWith, FinishStart, HandlerInv, Starting, TypeOK
  <2>3. ASSUME NEW s \in Sessions, Runs(s)', s # rec'.session
        PROVE  \E d \in Clients : joins'[d] = s
    <3>1. Runs(s)
      BY <2>1, <2>3, BeginEffect
    <3>2. PICK d \in Clients : joins[d] = s
      BY <2>2, <3>1 DEF NoEncoderForgotten
    <3>3. QED
      BY <2>1, <3>1, <3>2
  <2>4. ASSUME NEW d \in Clients, joins'[d] # NoSession
        PROVE  joins'[d] = joins[d] /\ rec'.session # joins'[d]
    BY <2>1, <2>4, BeginEffect DEF UnusedInv, TypeOK
  <2>5. QED
    BY <2>3, <2>4 DEF NoEncoderForgotten
<1>2. ASSUME NEW c \in Clients, Takes(c)
      PROVE  NoEncoderForgotten'
  <2>1. /\ rec'.session = NoSession
        /\ joins' = [joins EXCEPT ![c] = rec.session]
        /\ enc' = enc /\ pc[c] = "idle"
    BY <1>2, Taken
  <2>2. joins[c] = NoSession
    BY <2>1 DEF HandlerInv
  <2>3. QED
    BY <2>1, <2>2 DEF NoEncoderForgotten, TypeOK
<1>3. ASSUME NEW c \in Clients, FinishStop(c)
      PROVE  NoEncoderForgotten'
  <2>1. /\ joins' = [joins EXCEPT ![c] = NoSession]
        /\ enc[joins[c]] = "done"
        /\ UNCHANGED <<rec, enc>>
    BY <1>3 DEF FinishStop, sessionVars, threadVars
  <2>2. QED
    BY <2>1 DEF NoEncoderForgotten, TypeOK
<1>4. ASSUME UNCHANGED <<rec, joins, enc>>
      PROVE  NoEncoderForgotten'
  BY <1>4 DEF NoEncoderForgotten
<1>5. ASSUME NEW s \in Sessions, EncoderStep(s)
      PROVE  NoEncoderForgotten'
  <2>1. \A t \in Sessions : Runs(t)' => Runs(t)
    BY <1>5, EncoderEffect
  <2>2. UNCHANGED <<rec, joins>>
    BY <1>5, OtherThreads
  <2>3. QED
    BY <2>1, <2>2 DEF NoEncoderForgotten
<1>6. ASSUME NEW c \in Clients, SignalStop(c)
      PROVE  NoEncoderForgotten'
  BY <1>4, <1>6 DEF SignalStop, threadVars
<1>7. QED
  BY <1>1, <1>2, <1>3, <1>4, <1>5, <1>6, HandlerSteps, OtherThreads DEF Next, vars
-----------------------------------------------------------------------------
(* Frames *)

\* A frame that encode_frame returned from was encoded or refused.
LEMMA EncodesCounts ==
  ASSUME TypeOK, NEW s \in Sessions, Encodes(s)
  PROVE  /\ handled'[s] + lost'[s] = handled[s] + lost[s] + 1
         /\ handled'[s] \in Nat /\ lost'[s] \in Nat
<1>1. handled[s] \in Nat /\ lost[s] \in Nat
  BY DEF TypeOK
<1>2. \/ handled'[s] = handled[s] + 1 /\ lost'[s] = lost[s]
      \/ handled'[s] = handled[s] /\ lost'[s] = lost[s] + 1
  BY DEF Encodes, TypeOK
<1>3. QED
  BY <1>1, <1>2

\* A frame goes from the channel to the counters.
LEMMA OneCounted ==
  ASSUME NEW a \in Nat, NEW b \in Nat, NEW c \in Nat, NEW d \in Nat, NEW k \in Nat, NEW l \in Nat,
         c + d = a + b + 1, l = k - 1
  PROVE  c + d + l = a + b + k
OBVIOUS

LEMMA EncoderFrames ==
  ASSUME TypeOK, NEW s \in Sessions, FramesOf(s), EncoderStep(s)
  PROVE  FramesOf(s)'
<1> USE DEF fileVars
<1>1. sent' = sent
  BY OtherThreads
<1>2. /\ chan[s] \in Seq(Monitors) /\ sent[s] \in Nat
      /\ handled[s] \in Nat /\ lost[s] \in Nat
  BY DEF TypeOK
<1>3. CASE EncoderChecks(s) \/ EncoderTimesOut(s)
  BY <1>1, <1>3 DEF EncoderChecks, EncoderTimesOut, EncoderGoto, FramesOf, TypeOK
<1>4. CASE EncoderReceives(s)
  <2>1. /\ chan[s] # <<>> /\ chan'[s] = Tail(chan[s])
        /\ enc[s] = "receive" /\ enc'[s] = "check"
    BY <1>4 DEF EncoderReceives, EncoderGoto, TypeOK
  <2>2. /\ handled'[s] + lost'[s] = handled[s] + lost[s] + 1
        /\ handled'[s] \in Nat /\ lost'[s] \in Nat
    BY <1>4, EncodesCounts DEF EncoderReceives
  <2>3. Len(chan'[s]) = Len(chan[s]) - 1 /\ Len(chan'[s]) \in Nat /\ Len(chan[s]) \in Nat
    BY <1>2, <2>1, TailOfChannel
  <2>4. handled[s] + lost[s] + Len(chan[s]) = sent[s]
    BY <2>1 DEF FramesOf
  <2>5. handled'[s] + lost'[s] + Len(chan'[s]) = sent'[s]
    BY <1>1, <1>2, <2>2, <2>3, <2>4, OneCounted
  <2>6. QED
    BY <2>1, <2>5 DEF FramesOf
<1>5. CASE EncoderInitFails(s)
  BY <1>5 DEF EncoderInitFails, EncoderGoto, FramesOf, TypeOK
<1>6. CASE EncoderDrains(s) /\ ready[s]
  <2>1. /\ chan[s] # <<>> /\ chan'[s] = Tail(chan[s])
        /\ enc[s] = "drain" /\ enc'[s] = "drain" /\ ready'[s] = ready[s]
        /\ panicked'[s] = panicked[s]
    BY <1>6 DEF EncoderDrains, TypeOK
  <2>2. /\ handled'[s] + lost'[s] = handled[s] + lost[s] + 1
        /\ handled'[s] \in Nat /\ lost'[s] \in Nat
    BY <1>6, EncodesCounts DEF EncoderDrains
  <2>3. Len(chan'[s]) = Len(chan[s]) - 1 /\ Len(chan'[s]) \in Nat /\ Len(chan[s]) \in Nat
    BY <1>2, <2>1, TailOfChannel
  <2>4. ASSUME ~panicked[s]
        PROVE  handled'[s] + lost'[s] + Len(chan'[s]) = sent'[s]
    <3>1. handled[s] + lost[s] + Len(chan[s]) = sent[s]
      BY <1>6, <2>4 DEF FramesOf
    <3>2. QED
      BY <1>1, <1>2, <2>2, <2>3, <3>1, OneCounted
  <2>5. QED
    BY <2>1, <2>4 DEF FramesOf
<1>7. CASE EncoderDrains(s) /\ ~ready[s]
  BY <1>7 DEF EncoderDrains, FramesOf, TypeOK
<1>8. CASE EncoderPanics(s)
  BY <1>8 DEF EncoderPanics, EncoderGoto, FramesOf, TypeOK
<1>9. CASE EncoderFinishes(s)
  BY <1>1, <1>9 DEF EncoderFinishes, EncoderGoto, FramesOf, TypeOK
<1>10. QED
  BY <1>3, <1>4, <1>5, <1>6, <1>7, <1>8, <1>9 DEF EncoderStep

LEMMA FramesStep ==
  ASSUME TypeOK, UnusedInv, \A s \in Sessions : FramesOf(s), [Next]_vars,
         NEW s \in Sessions
  PROVE  FramesOf(s)'
<1> USE RecordingAssumption DEF fileVars
<1>1. ASSUME NEW r \in Requests, Begin(r), UNCHANGED <<chan, fileVars, sent>>
      PROVE  FramesOf(s)'
  BY <1>1, BeginEffect DEF FramesOf
<1>2. ASSUME UNCHANGED <<enc, chan, fileVars, sent>>
      PROVE  FramesOf(s)'
  BY <1>2 DEF FramesOf
<1>3. ASSUME NEW c \in Clients, SignalStop(c) \/ FinishStop(c)
      PROVE  FramesOf(s)'
  BY <1>2, <1>3 DEF SignalStop, FinishStop, threadVars, sessionVars
<1>4. ASSUME NEW c \in Clients, Takes(c)
      PROVE  FramesOf(s)'
  BY <1>2, <1>4, Taken
<1>5. ASSUME NEW c \in Clients, NEW r \in Requests, StartsWith(c, r)
      PROVE  FramesOf(s)'
  BY <1>1, <1>5, Starts
<1>6. ASSUME NEW m \in Monitors, SendFrame(m)
      PROVE  FramesOf(s)'
  <2>1. UNCHANGED <<enc, fileVars>>
    BY <1>6 DEF SendFrame
  <2>2. CASE s # rec.session
    BY <1>6, <2>1, <2>2 DEF SendFrame, FramesOf, TypeOK
  <2>3. CASE s = rec.session
    <3>1. /\ enc[s] # "done"
          /\ chan'[s] = Append(chan[s], m)
          /\ sent'[s] = sent[s] + 1
      BY <1>6, <2>3 DEF SendFrame, TypeOK
    <3>2. /\ chan[s] \in Seq(Monitors) /\ sent[s] \in Nat
          /\ handled[s] \in Nat /\ lost[s] \in Nat
      BY DEF TypeOK
    <3>3. Len(Append(chan[s], m)) = Len(chan[s]) + 1 /\ Len(chan[s]) \in Nat
      BY <3>2
    <3>4. Len(chan'[s]) = Len(chan[s]) + 1 /\ enc'[s] # "done" /\ sent'[s] = sent[s] + 1
      BY <2>1, <3>1, <3>3
    <3>5. /\ enc'[s] = enc[s] /\ ready'[s] = ready[s] /\ handled'[s] = handled[s]
          /\ lost'[s] = lost[s] /\ panicked'[s] = panicked[s]
      BY <2>1
    <3>6. handled[s] + lost[s] + Len(chan[s]) = sent[s]
            => handled'[s] + lost'[s] + Len(chan'[s]) = sent'[s]
      BY <3>2, <3>3, <3>4, <3>5
    <3>7. QED
      BY <3>4, <3>5, <3>6 DEF FramesOf
  <2>4. QED
    BY <2>2, <2>3
<1>7. ASSUME NEW m \in Monitors, AcquireFrame(m) \/ CaptureFails(m) \/ SkipFrame(m)
      PROVE  FramesOf(s)'
  BY <1>2, <1>7 DEF AcquireFrame, CaptureFails, SkipFrame, sessionVars, threadVars
<1>8. ASSUME NEW t \in Sessions, EncoderStep(t)
      PROVE  FramesOf(s)'
  <2>1. CASE t = s
    BY <1>8, <2>1, EncoderFrames
  <2>2. CASE t # s
    BY <1>8, <2>2, EncoderEffect, OtherThreads DEF FramesOf
  <2>3. QED
    BY <2>1, <2>2
<1>9. QED
  BY <1>2, <1>3, <1>4, <1>5, <1>6, <1>7, <1>8, HandlerSteps DEF Next, vars
-----------------------------------------------------------------------------
(* Stray frames *)

LEMMA StraysStep ==
  ASSUME TypeOK, UnusedInv, SessionIsActive, StraysInv, [Next]_vars,
         NEW s \in Sessions, NEW n \in Monitors
  PROVE  StraysOf(s, n)'
<1> USE RecordingAssumption DEF fileVars, threadVars
<1>1. StraysOf(s, n) /\ strays[s][n] \in Nat
  BY DEF StraysInv, TypeOK
<1>2. ASSUME UNCHANGED <<want, cap, strays>>, rec'.session # s \/ rec' = rec
      PROVE  StraysOf(s, n)'
  BY <1>1, <1>2 DEF StraysOf, Covers
<1>3. ASSUME NEW c \in Clients, NEW r \in Requests, StartsWith(c, r)
      PROVE  StraysOf(s, n)'
  <2>1. Begin(r) /\ strays' = strays
    BY <1>3, Starts
  <2>2. CASE rec'.session = s
    <3>1. enc[s] = "unused"
      BY <2>1, <2>2, BeginEffect
    <3>2. strays[s][n] = 0
      BY <3>1 DEF UnusedInv
    <3>3. QED
      BY <2>1, <3>2 DEF StraysOf
  <2>3. CASE rec'.session # s
    BY <1>1, <2>1, <2>3 DEF StraysOf
  <2>4. QED
    BY <2>2, <2>3
<1>4. ASSUME NEW c \in Clients, Takes(c)
      PROVE  StraysOf(s, n)'
  <2>1. rec'.session # s /\ strays' = strays
    BY <1>4, Taken
  <2>2. QED
    BY <1>1, <2>1 DEF StraysOf
<1>5. ASSUME NEW c \in Clients, SignalStop(c) \/ FinishStop(c)
      PROVE  StraysOf(s, n)'
  BY <1>2, <1>5 DEF SignalStop, FinishStop, sessionVars
<1>6. ASSUME NEW m \in Monitors, AcquireFrame(m)
      PROVE  StraysOf(s, n)'
  <2>1. /\ UNCHANGED <<rec, want, strays>>
        /\ IsRecording(m)
        /\ m # n => cap'[n] = cap[n]
    BY <1>6 DEF AcquireFrame, sessionVars, TypeOK
  <2>2. m = n /\ rec.session = s => Covers(want[s], n)
    BY <2>1 DEF IsRecording, SessionIsActive
  <2>3. QED
    BY <1>1, <2>1, <2>2 DEF StraysOf, Covers
<1>7. ASSUME NEW m \in Monitors, CaptureFails(m) \/ SkipFrame(m)
      PROVE  StraysOf(s, n)'
  <2>1. /\ UNCHANGED <<rec, want, strays>>
        /\ cap'[n] = cap[n] \/ cap'[n] = "acquire"
    BY <1>7 DEF CaptureFails, SkipFrame, sessionVars, TypeOK
  <2>2. QED
    BY <1>1, <2>1 DEF StraysOf, Covers
<1>8. ASSUME NEW m \in Monitors, SendFrame(m)
      PROVE  StraysOf(s, n)'
  <2>1. /\ rec.session \in Sessions
        /\ UNCHANGED <<rec, want>>
        /\ cap[m] = "captured" /\ cap'[m] = "acquire"
        /\ m # n => cap'[n] = cap[n]
    BY <1>8 DEF SendFrame, TypeOK
  <2>2. CASE rec.session = s /\ m = n /\ ~Covers(want[s], n)
    <3>1. strays[s][n] = 0
      BY <1>1, <2>1, <2>2 DEF StraysOf
    <3>2. strays' = [strays EXCEPT ![s][n] = @ + 1]
      BY <1>8, <2>2 DEF SendFrame
    <3>3. strays'[s][n] = 1
      BY <3>1, <3>2 DEF TypeOK
    <3>4. QED
      BY <2>1, <2>2, <3>3 DEF StraysOf
  <2>3. CASE ~(rec.session = s /\ m = n /\ ~Covers(want[s], n))
    <3>1. strays'[s][n] = strays[s][n]
      BY <1>8, <2>1, <2>3 DEF SendFrame, TypeOK
    <3>2. QED
      BY <1>1, <2>1, <3>1 DEF StraysOf, Covers
  <2>4. QED
    BY <2>2, <2>3
<1>9. ASSUME NEW t \in Sessions, EncoderStep(t)
      PROVE  StraysOf(s, n)'
  BY <1>2, <1>9, OtherThreads
<1>10. QED
  BY <1>2, <1>3, <1>4, <1>5, <1>6, <1>7, <1>8, <1>9, HandlerSteps DEF Next, vars
-----------------------------------------------------------------------------
(* Theorems *)

LEMMA InvInit == Init => RecordingInv
<1>1. Init => HandlerInv /\ SessionIsActive /\ NoEncoderForgotten
  BY RecordingAssumption
     DEF Init, HandlerInv, Starting, SessionIsActive, NoEncoderForgotten
<1>2. Init => UnusedInv
  BY RecordingAssumption DEF Init, UnusedInv
<1>3. Init => FramesInv
  BY DEF Init, FramesInv, FramesOf
<1>4. Init => StraysInv
  BY DEF Init, StraysInv, StraysOf
<1>5. QED
  BY <1>1, <1>2, <1>3, <1>4, TypeInit DEF RecordingInv

LEMMA InvStep == RecordingInv /\ [Next]_vars => RecordingInv'
<1> SUFFICES ASSUME RecordingInv, [Next]_vars
             PROVE  RecordingInv'
  OBVIOUS
<1>1. TypeOK' /\ HandlerInv' /\ UnusedInv'
  BY TypeStep, HandlerStep, UnusedStep DEF RecordingInv
<1>2. SessionIsActive' /\ NoEncoderForgotten'
  BY SessionStep, ForgottenStep DEF RecordingInv
<1>3. FramesInv'
  BY FramesStep DEF RecordingInv, FramesInv
<1>4. StraysInv'
  BY StraysStep DEF RecordingInv, StraysInv
<1>5. QED
  BY <1>1, <1>2, <1>3, <1>4 DEF RecordingInv

\* RecordingInv is an inductive invariant of the recording protocol.
THEOREM RecordingInvariant == Spec => []RecordingInv
BY InvInit, InvStep, PTL DEF Spec

\* Every variable of the protocol keeps its type: the base of the other proofs.
THEOREM TypeCorrect == Spec => []TypeOK
<1>1. RecordingInv => TypeOK
  BY DEF RecordingInv
<1>2. QED
  BY <1>1, RecordingInvariant, PTL

\* A session in RECORDING_STATE belongs to an active recording with the monitors it
\* was started for: StopRecording and StartRecording never leave half a state.
THEOREM SessionAlwaysActive == Spec => []SessionIsActive
<1>1. RecordingInv => SessionIsActive
  BY DEF RecordingInv
<1>2. QED
  BY <1>1, RecordingInvariant, PTL

\* However StartRecording and StopRecording of any number of clients interleave, each
\* encoder thread is the current session's or is joined by exactly one handler.
THEOREM EncoderNeverForgotten == Spec => []NoEncoderForgotten
<1>1. RecordingInv => NoEncoderForgotten
  BY DEF RecordingInv
<1>2. QED
  BY <1>1, RecordingInvariant, PTL

\* An encoder thread that created its file and ended without a panic has given every frame
\* it was sent to the encoder, which encoded it or refused it with an error: for every
\* channel capacity.
THEOREM EncoderAlwaysDrained == Spec => []EncoderDrained
<1>1. RecordingInv => EncoderDrained
  <2> SUFFICES ASSUME RecordingInv, NEW s \in Sessions,
                      enc[s] = "done", ready[s], ~panicked[s]
               PROVE  handled[s] + lost[s] = sent[s]
    BY DEF EncoderDrained
  <2>1. /\ chan[s] = <<>> /\ handled[s] + lost[s] + Len(chan[s]) = sent[s]
        /\ handled[s] \in Nat /\ lost[s] \in Nat
    BY DEF RecordingInv, FramesInv, FramesOf, TypeOK
  <2>2. QED
    BY <2>1
<1>2. QED
  BY <1>1, RecordingInvariant, PTL

\* However starts fall between is_recording and the frame's being sent, a recording gets at
\* most one frame of each monitor that it was not asked to record.
THEOREM StraysAlwaysFew == Spec => []AtMostOneStray
<1>1. RecordingInv => AtMostOneStray
  BY DEF RecordingInv, StraysInv, StraysOf, AtMostOneStray
<1>2. QED
  BY <1>1, RecordingInvariant, PTL

\* Once StartRecording or StopRecording has taken a session, no swap-chain thread
\* sends it another frame.
THEOREM NothingSentAfterStop == Spec => NoFrameAfterStop
<1>1. ASSUME RecordingInv, [Next]_vars, NEW c \in Clients, joins[c] # NoSession
      PROVE  sent'[joins[c]] = sent[joins[c]]
  <2>1. rec.session # joins[c] /\ TypeOK
    BY <1>1 DEF RecordingInv, NoEncoderForgotten
  <2>2. ASSUME NEW m \in Monitors, SendFrame(m)
        PROVE  sent'[joins[c]] = sent[joins[c]]
    BY <1>1, <2>1, <2>2 DEF SendFrame, TypeOK
  <2>3. ASSUME NEW m \in Monitors, AcquireFrame(m) \/ CaptureFails(m) \/ SkipFrame(m)
        PROVE  sent' = sent
    BY <2>3 DEF AcquireFrame, CaptureFails, SkipFrame, sessionVars
  <2>4. ASSUME NEW d \in Clients, SignalStop(d) \/ FinishStop(d)
        PROVE  sent' = sent
    BY <2>4 DEF SignalStop, FinishStop, sessionVars
  <2>5. QED
    BY <1>1, <2>1, <2>2, <2>3, <2>4, HandlerSteps, Starts, Taken, OtherThreads
       DEF Next, vars
<1>2. RecordingInv /\ [Next]_vars =>
        [\A c \in Clients : joins[c] # NoSession => sent'[joins[c]] = sent[joins[c]]]_vars
  BY <1>1
<1>3. QED
  BY <1>2, RecordingInvariant, PTL DEF Spec, NoFrameAfterStop
-----------------------------------------------------------------------------
(* FrameConversion *)

(* The conversion *)

\* No pixel's luma or chroma leaves a byte, so the clamps never change a value: what is
\* written is the formula of convert's doc comment, in the ranges a decoder expects.
THEOREM ClampsNeverAct ==
  ASSUME NEW r \in Byte, NEW g \in Byte, NEW b \in Byte
  PROVE  /\ Luma(r, g, b) \in 16 .. 235 /\ Clamp(Luma(r, g, b)) = Luma(r, g, b)
         /\ Cb(r, g, b) \in 16 .. 240   /\ Clamp(Cb(r, g, b)) = Cb(r, g, b)
         /\ Cr(r, g, b) \in 16 .. 240   /\ Clamp(Cr(r, g, b)) = Cr(r, g, b)
<1>1. Luma(r, g, b) \in 16 .. 235
  BY DEF Byte, Luma
<1>2. Cb(r, g, b) \in 16 .. 240
  BY DEF Byte, Cb
<1>3. Cr(r, g, b) \in 16 .. 240
  BY DEF Byte, Cr
<1>4. ASSUME NEW v \in 16 .. 240  PROVE Clamp(v) = v
  BY DEF Clamp
<1> QED
  BY <1>1, <1>2, <1>3, <1>4

\* A product of two naturals is a natural, at least the product of lesser ones.
LEMMA ProductMonotonic ==
  ASSUME NEW a \in Nat, NEW b \in Nat, NEW c \in Nat, a <= b
  PROVE  a * c \in Nat /\ a * c <= b * c
<1>1. PICK d \in Nat : b = a + d
  <2>1. b - a \in Nat
    OBVIOUS
  <2> QED
    BY <2>1
<1>2. b * c = a * c + d * c /\ a * c \in Nat /\ d * c \in Nat
  BY <1>1
<1> QED
  BY <1>2

\* The place of (x, y) in a plane of rows w long is in the plane.
LEMMA IndexInPlane ==
  ASSUME NEW w \in Nat, NEW h \in Nat, NEW x \in 0 .. w - 1, NEW y \in 0 .. h - 1
  PROVE  y * w + x \in 0 .. w * h - 1
<1>1. y + 1 \in Nat /\ y + 1 <= h /\ y \in Nat /\ x \in Nat
  OBVIOUS
<1>2. (y + 1) * w \in Nat /\ (y + 1) * w <= h * w
  BY <1>1, ProductMonotonic
<1>3. (y + 1) * w = y * w + w /\ y * w \in Nat /\ h * w = w * h /\ h * w \in Nat
  BY <1>1
<1> QED
  BY <1>1, <1>2, <1>3

\* A number whose remainder is known is twice its half, and the remainder.
LEMMA Halved ==
  ASSUME NEW n \in Nat
  PROVE  n \div 2 \in Nat /\ n = 2 * (n \div 2) + (n % 2) /\ n % 2 \in {0, 1}
OBVIOUS

\* Whatever the frame's size, convert reads a frame that encode_frame accepted, and writes
\* its plane of lumas, inside their bounds: the four bytes of a pixel and its luma.
THEOREM PixelsInFrame ==
  ASSUME NEW w \in Size, NEW h \in Size, NEW length \in Nat, Accepts(w, h, length),
         NEW x \in 0 .. w - 1, NEW y \in 0 .. h - 1
  PROVE  /\ PixelIndex(w, x, y) + 3 \in 3 .. length - 1
         /\ LumaIndex(w, x, y) \in 0 .. PlaneSize(w, h) - 1
<1>1. y * w + x \in 0 .. w * h - 1 /\ w * h \in Nat
  BY IndexInPlane DEF Size
<1>2. length = (w * h) * 4
  BY DEF Accepts, FrameSize, PlaneSize
<1> QED
  BY <1>1, <1>2 DEF PixelIndex, LumaIndex, PlaneSize

\* With an even width and height, as the doc of YuvConverter::new asks, every chroma that
\* convert writes is inside its plane.
THEOREM ChromaInPlane ==
  ASSUME NEW w \in Size, NEW h \in Size, w % 2 = 0, h % 2 = 0,
         NEW x \in 0 .. w - 1, NEW y \in 0 .. h - 1
  PROVE  ChromaIndex(w, x, y) \in 0 .. ChromaSize(w, h) - 1
<1> DEFINE a == w \div 2
           b == h \div 2
<1>1. a \in Nat /\ b \in Nat /\ w = 2 * a /\ h = 2 * b
  BY Halved DEF Size
<1>2. x \div 2 \in 0 .. a - 1 /\ y \div 2 \in 0 .. b - 1
  BY <1>1 DEF Size
<1>3. (y \div 2) * a + (x \div 2) \in 0 .. a * b - 1
  <2> HIDE DEF a, b
  <2> QED
    BY <1>1, <1>2, IndexInPlane
<1>4. w * h = 4 * (a * b) /\ a * b \in Nat
  <2> HIDE DEF a, b
  <2> QED
    BY <1>1
<1>5. ChromaSize(w, h) = a * b
  <2> DEFINE n == a * b
  <2>1. n \in Nat /\ w * h = 4 * n
    BY <1>4
  <2>2. (4 * n) \div 4 = n
    <3> HIDE DEF n
    <3> QED
      BY <2>1
  <2> QED
    BY <2>1, <2>2 DEF ChromaSize, PlaneSize
<1> QED
  BY <1>3, <1>5 DEF ChromaIndex

\* With an odd height, which a mode may have and nothing refuses, the last row has a chroma
\* for which there is no place: the encoder's thread panics on the first frame.
THEOREM OddHeightOverruns ==
  ASSUME NEW w \in Size, NEW h \in Size, w % 2 = 0, h % 2 = 1
  PROVE  \E x \in 0 .. w - 1, y \in 0 .. h - 1 :
           HasChroma(x, y) /\ ChromaIndex(w, x, y) >= ChromaSize(w, h)
<1> DEFINE a == w \div 2
           b == h \div 2
<1>1. a \in Nat /\ b \in Nat /\ w = 2 * a /\ h = 2 * b + 1 /\ a >= 1
  BY Halved DEF Size
<1>2. w - 2 \in 0 .. w - 1 /\ h - 1 \in 0 .. h - 1 /\ HasChroma(w - 2, h - 1)
  <2> HIDE DEF a, b
  <2> QED
    BY <1>1 DEF HasChroma
<1>3. (w - 2) \div 2 = a - 1 /\ (h - 1) \div 2 = b
  <2> HIDE DEF a, b
  <2> QED
    BY <1>1
<1>4. ChromaIndex(w, w - 2, h - 1) = b * a + (a - 1)
  BY <1>3 DEF ChromaIndex
<1>5. ChromaSize(w, h) <= b * a + (a - 1)
  <2> DEFINE n == b * a
  <2>1. n \in Nat /\ w * h = 4 * n + 2 * a
    <3> HIDE DEF a, b
    <3> QED
      BY <1>1
  <2>2. (4 * n + 2 * a) \div 4 <= n + (a - 1)
    <3> HIDE DEF n, a
    <3> QED
      BY <1>1, <2>1
  <2> QED
    BY <2>1, <2>2 DEF ChromaSize, PlaneSize
<1>6. b * a + (a - 1) \in Int /\ ChromaSize(w, h) \in Int
  <2>1. w * h \in Nat
    BY DEF Size
  <2> QED
    BY <1>1, <2>1 DEF ChromaSize, PlaneSize
<1> QED
  BY <1>2, <1>4, <1>5, <1>6

\* What a quotient is.
LEMMA Quotient ==
  ASSUME NEW n \in Nat, NEW d \in Nat \ {0}
  PROVE  /\ n \div d \in Nat
         /\ (n \div d) * d \in Nat /\ (n \div d) * d <= n /\ n < (n \div d) * d + d
OBVIOUS

\* The time stamps of a file never go back, at any frame rate but the 0 at which encode_frame
\* divides by zero; at 1000 frames a second and less no two are equal.
THEOREM TimeStampsGrow ==
  ASSUME NEW count \in Nat, NEW fps \in Nat \ {0}
  PROVE  /\ TimeStamp(count, fps) <= TimeStamp(count + 1, fps)
         /\ fps <= 1000 => TimeStamp(count, fps) < TimeStamp(count + 1, fps)
<1> DEFINE p == TimeStamp(count, fps)
           q == TimeStamp(count + 1, fps)
<1>1. /\ p \in Nat /\ q \in Nat /\ fps \in Nat
      /\ p * fps <= count * 1000
      /\ (count + 1) * 1000 < q * fps + fps
      /\ p * fps \in Nat /\ q * fps \in Nat
  BY Quotient DEF TimeStamp
<1> HIDE DEF p, q
<1>2. p <= q
  <2>1. SUFFICES ASSUME q + 1 <= p  PROVE FALSE
    BY <1>1
  <2>2. (q + 1) * fps <= p * fps
    BY <1>1, <2>1, ProductMonotonic
  <2>3. (q + 1) * fps = q * fps + fps
    BY <1>1
  <2> QED
    BY <1>1, <2>2, <2>3
<1>3. ASSUME fps <= 1000  PROVE p < q
  <2>1. SUFFICES ASSUME q <= p  PROVE FALSE
    BY <1>1
  <2>2. q * fps <= p * fps
    BY <1>1, <2>1, ProductMonotonic
  <2> QED
    BY <1>1, <1>3, <2>2
<1> QED
  BY <1>2, <1>3 DEF p, q

\* No frame that the throttle lets pass gets a time stamp that is later than the recording's
\* clock, though the two are computed by two threads; at a rate of 0 no frame passes, so
\* encode_frame never divides by it.
THEOREM NotInTheFuture ==
  ASSUME NEW passed \in Nat, NEW count \in 0 .. passed, NEW elapsed \in Nat, NEW fps \in Nat,
         Passes(passed, elapsed, fps)
  PROVE  fps # 0 /\ TimeStamp(count, fps) <= elapsed
<1>1. fps # 0
  BY DEF Passes
<1>2. elapsed * fps \in Nat /\ (passed + 1) * 1000 <= elapsed * fps
  <2>1. elapsed * fps \in Nat
    OBVIOUS
  <2> QED
    BY <2>1 DEF Passes
<1>3. (count * 1000) \div fps <= elapsed
  <2> DEFINE q == (count * 1000) \div fps
  <2>1. q \in Nat /\ q * fps \in Nat /\ q * fps <= count * 1000
    BY <1>1, Quotient
  <2> HIDE DEF q
  <2>2. SUFFICES ASSUME elapsed <= q  PROVE elapsed = q
    BY <2>1 DEF q
  <2>3. elapsed * fps <= q * fps
    BY <2>1, <2>2, ProductMonotonic
  <2> QED
    BY <1>2, <2>1, <2>3
<1> QED
  BY <1>1, <1>3 DEF TimeStamp
=============================================================================
