----------------------------- MODULE Recording -----------------------------
(***************************************************************************)
(* Recording: RECORDING_STATE and the StartRecording and StopRecording     *)
(* handlers of rust/virtual-display-driver/src/ipc.rs, the session and its *)
(* encoder thread (recording.rs), and the swap-chain threads that feed it  *)
(* (swap_chain_processor.rs).                                              *)
(*                                                                         *)
(* A handler, a swap-chain thread per monitor and an encoder thread per    *)
(* session run concurrently.  StartRecording keeps RECORDING_STATE locked  *)
(* while it waits for the old session's encoder; every other use of the    *)
(* lock is short and part of one action.                                   *)
(***************************************************************************)
EXTENDS Integers, Sequences, FiniteSets

CONSTANTS
  Clients,        \* pipe clients, one handler each
  Monitors,       \* monitors with a swap-chain thread
  IdLists,        \* bound: lists of monitor ids a StartRecording asks for, as sets
  Sessions,       \* bound: sessions that are ever started
  Capacity,       \* CHANNEL_CAPACITY
  MaxSent,        \* bound: frames a session is ever sent
  EncoderFails,   \* may Mp4Encoder::new and encode_frame fail, or panic?
  NoSession, NoClient

ASSUME RecordingAssumption ==
  /\ {} \in IdLists
  /\ Capacity \in Nat \ {0}
  /\ MaxSent \in Nat
  /\ EncoderFails \in BOOLEAN
  /\ NoSession \notin Sessions
  /\ NoClient \notin Clients

VARIABLES
  rec,       \* RECORDING_STATE
  lock,      \* the client that holds it across actions
  pc,        \* where each handler is
  request,   \* the StartRecording it serves: monitor ids, and if there is a path
  joins,     \* the session it stops
  cap,       \* where each swap-chain thread is
  enc,       \* where each session's encoder thread is
  stop,      \* stop_signal
  chan,      \* frame channel, each frame named by its monitor
  ready,     \* the encoder exists (it is created on the first frame)
  sent,      \* frames_sent
  handled,   \* frames that were encoded
  lost,      \* frames encode_frame refused with an error, which is only logged
  panicked,  \* the thread ended by a panic in encode_frame
  want,      \* monitor_ids of the StartRecording that made the session
  strays     \* frames it was sent of monitors that are not among them

vars == <<rec, lock, pc, request, joins, cap, enc, stop, chan, ready, sent,
          handled, lost, panicked, want, strays>>

fileVars    == <<ready, handled, lost, panicked>>
threadVars  == <<enc, chan, fileVars>>
sessionVars == <<threadVars, stop, sent, want, strays>>

NoRequest == [ids |-> {}, path |-> FALSE]

Init ==
  /\ rec     = [active |-> FALSE, ids |-> {}, session |-> NoSession]
  /\ lock    = NoClient
  /\ pc      = [c \in Clients |-> "idle"]
  /\ request = [c \in Clients |-> NoRequest]
  /\ joins   = [c \in Clients |-> NoSession]
  /\ cap     = [m \in Monitors |-> "acquire"]
  /\ enc     = [s \in Sessions |-> "unused"]
  /\ stop    = [s \in Sessions |-> FALSE]
  /\ chan    = [s \in Sessions |-> <<>>]
  /\ ready   = [s \in Sessions |-> FALSE]
  /\ sent    = [s \in Sessions |-> 0]
  /\ handled = [s \in Sessions |-> 0]
  /\ lost    = [s \in Sessions |-> 0]
  /\ panicked = [s \in Sessions |-> FALSE]
  /\ want    = [s \in Sessions |-> {}]
  /\ strays  = [s \in Sessions |-> [m \in Monitors |-> 0]]

Goto(c, label) == pc' = [pc EXCEPT ![c] = label]

\* RecordingState::is_recording; no ids means every monitor.
Covers(ids, m) == ids = {} \/ m \in ids
IsRecording(m) == rec.active /\ Covers(rec.ids, m)
-----------------------------------------------------------------------------
(* Handlers *)

\* active, monitor_ids and, with an output path, RecordingSession::start.
Begin(r) ==
  \/ /\ ~r.path
     /\ rec' = [active |-> TRUE, ids |-> r.ids, session |-> NoSession]
     /\ UNCHANGED <<enc, want>>
  \/ /\ r.path
     /\ \E s \in Sessions :
          /\ enc[s] = "unused"
          /\ rec' = [active |-> TRUE, ids |-> r.ids, session |-> s]
          /\ enc' = [enc EXCEPT ![s] = "check"]
          /\ want' = [want EXCEPT ![s] = r.ids]

\* Faulty variant: the running session is overwritten, not stopped.
StartOverwrites(c, r) ==
  /\ pc[c] = "idle"
  /\ lock = NoClient
  /\ Begin(r)
  /\ UNCHANGED <<lock, pc, request, joins, cap, stop, chan, fileVars, sent, strays>>

\* The bound on sessions: a recording to a file is asked for while one is left.
WithinSessions(r) == r.path => \E s \in Sessions : enc[s] = "unused"

\* StartRecording: with no session to stop it is done in one go; otherwise it takes
\* the session and keeps the lock.
StartRecording(c, r) ==
  /\ pc[c] = "idle"
  /\ lock = NoClient
  /\ WithinSessions(r)
  /\ IF rec.session = NoSession
     THEN /\ Begin(r)
          /\ UNCHANGED <<lock, pc, request, joins>>
     ELSE /\ rec' = [rec EXCEPT !.session = NoSession]
          /\ lock' = c
          /\ joins' = [joins EXCEPT ![c] = rec.session]
          /\ request' = [request EXCEPT ![c] = r]
          /\ Goto(c, "signalStart")
          /\ UNCHANGED <<enc, want>>
  /\ UNCHANGED <<cap, stop, chan, fileVars, sent, strays>>

\* Faulty variant: the session stays in RECORDING_STATE while it is stopped.
StopKeepsSession(c) ==
  /\ pc[c] = "idle"
  /\ lock = NoClient
  /\ rec' = [rec EXCEPT !.active = FALSE, !.ids = {}]
  /\ joins' = [joins EXCEPT ![c] = rec.session]
  /\ IF rec.session = NoSession THEN UNCHANGED pc ELSE Goto(c, "signalStop")
  /\ UNCHANGED <<lock, request, cap, sessionVars>>

\* StopRecording: the state is cleared and the session taken under the lock, which
\* is released before the session is stopped.  Without one the reply is immediate.
StopRecording(c) ==
  /\ pc[c] = "idle"
  /\ lock = NoClient
  /\ rec' = [active |-> FALSE, ids |-> {}, session |-> NoSession]
  /\ joins' = [joins EXCEPT ![c] = rec.session]
  /\ IF rec.session = NoSession THEN UNCHANGED pc ELSE Goto(c, "signalStop")
  /\ UNCHANGED <<lock, request, cap, sessionVars>>

\* Faulty variant: the encoder is joined without being told to stop.
JoinUnsignalled(c) ==
  /\ pc[c] \in {"signalStart", "signalStop"}
  /\ Goto(c, IF pc[c] = "signalStart" THEN "joinStart" ELSE "joinStop")
  /\ UNCHANGED <<rec, lock, request, joins, cap, sessionVars>>

\* shutdown(): set stop_signal, then join.
SignalStop(c) ==
  /\ pc[c] \in {"signalStart", "signalStop"}
  /\ stop' = [stop EXCEPT ![joins[c]] = TRUE]
  /\ Goto(c, IF pc[c] = "signalStart" THEN "joinStart" ELSE "joinStop")
  /\ UNCHANGED <<rec, lock, request, joins, cap, threadVars, sent, want, strays>>

\* The old encoder is joined: StartRecording goes on and releases the lock.
FinishStart(c) ==
  /\ pc[c] = "joinStart"
  /\ enc[joins[c]] = "done"
  /\ Begin(request[c])
  /\ lock' = NoClient
  /\ joins' = [joins EXCEPT ![c] = NoSession]
  /\ request' = [request EXCEPT ![c] = NoRequest]
  /\ Goto(c, "idle")
  /\ UNCHANGED <<cap, stop, chan, fileVars, sent, strays>>

\* The encoder is joined: RecordingFinished is sent.
FinishStop(c) ==
  /\ pc[c] = "joinStop"
  /\ enc[joins[c]] = "done"
  /\ joins' = [joins EXCEPT ![c] = NoSession]
  /\ Goto(c, "idle")
  /\ UNCHANGED <<rec, lock, request, cap, sessionVars>>
-----------------------------------------------------------------------------
(* Swap-chain threads *)

\* Faulty variant: only whether there is a recording is asked, not of which monitors.
AcquireWhileActive(m) ==
  /\ cap[m] = "acquire"
  /\ lock = NoClient
  /\ rec.active
  /\ cap' = [cap EXCEPT ![m] = "captured"]
  /\ UNCHANGED <<rec, lock, pc, request, joins, sessionVars>>

\* run_core acquired a buffer: is_recording is asked under the lock, and the lock
\* released.  A monitor that is not recorded has its frame released at once.
AcquireFrame(m) ==
  /\ cap[m] = "acquire"
  /\ lock = NoClient
  /\ IsRecording(m)
  /\ cap' = [cap EXCEPT ![m] = "captured"]
  /\ UNCHANGED <<rec, lock, pc, request, joins, sessionVars>>

\* capture_frame gives up: no surface, no staging texture, or it cannot be mapped.
CaptureFails(m) ==
  /\ cap[m] = "captured"
  /\ cap' = [cap EXCEPT ![m] = "acquire"]
  /\ UNCHANGED <<rec, lock, pc, request, joins, sessionVars>>

\* No session, or try_send_frame refuses: too early for the throttle, the channel is
\* full, or the encoder thread has ended.
SkipFrame(m) ==
  /\ cap[m] = "captured"
  /\ lock = NoClient
  /\ cap' = [cap EXCEPT ![m] = "acquire"]
  /\ UNCHANGED <<rec, lock, pc, request, joins, sessionVars>>

\* The frame goes to whatever session there is by now.
SendFrame(m) ==
  /\ cap[m] = "captured"
  /\ lock = NoClient
  /\ rec.session # NoSession
  /\ enc[rec.session] # "done"
  /\ sent[rec.session] < MaxSent
  /\ Len(chan[rec.session]) < Capacity
  /\ chan' = [chan EXCEPT ![rec.session] = Append(@, m)]
  /\ sent' = [sent EXCEPT ![rec.session] = @ + 1]
  /\ strays' = IF Covers(want[rec.session], m) THEN strays
                ELSE [strays EXCEPT ![rec.session][m] = @ + 1]
  /\ cap' = [cap EXCEPT ![m] = "acquire"]
  /\ UNCHANGED <<rec, lock, pc, request, joins, enc, stop, fileVars, want>>
-----------------------------------------------------------------------------
(* Encoder threads *)

EncoderGoto(s, label) == enc' = [enc EXCEPT ![s] = label]

encoderFrame == <<rec, lock, pc, request, joins, cap, stop, sent, want, strays>>

\* Faulty variant: on a stop signal the loop is left without draining the channel.
EncoderChecksNoDrain(s) ==
  /\ enc[s] = "check"
  /\ EncoderGoto(s, IF stop[s] THEN "done" ELSE "receive")
  /\ UNCHANGED <<encoderFrame, chan, fileVars>>

EncoderChecks(s) ==
  /\ enc[s] = "check"
  /\ EncoderGoto(s, IF stop[s] THEN "drain" ELSE "receive")
  /\ UNCHANGED <<encoderFrame, chan, fileVars>>

\* recv_timeout: 100 ms passed and the channel is empty.
EncoderTimesOut(s) ==
  /\ enc[s] = "receive"
  /\ chan[s] = <<>>
  /\ EncoderGoto(s, "check")
  /\ UNCHANGED <<encoderFrame, chan, fileVars>>

\* encode_frame: the frame is encoded, or refused with an error that is only logged:
\* its size is not the file's, OpenH264 or the muxer fails.
Encodes(s) ==
  \/ /\ handled' = [handled EXCEPT ![s] = @ + 1]
     /\ UNCHANGED lost
  \/ /\ EncoderFails
     /\ lost' = [lost EXCEPT ![s] = @ + 1]
     /\ UNCHANGED handled

\* A frame: the encoder is created for the first one, and encodes it.
EncoderReceives(s) ==
  /\ enc[s] = "receive"
  /\ chan[s] # <<>>
  /\ chan' = [chan EXCEPT ![s] = Tail(@)]
  /\ ready' = [ready EXCEPT ![s] = TRUE]
  /\ Encodes(s)
  /\ EncoderGoto(s, "check")
  /\ UNCHANGED <<encoderFrame, panicked>>

\* The encoder cannot be created: the thread returns None, and the frames still in
\* the channel go with its receiver.
EncoderInitFails(s) ==
  /\ EncoderFails
  /\ enc[s] = "receive"
  /\ chan[s] # <<>>
  /\ ~ready[s]
  /\ chan' = [chan EXCEPT ![s] = <<>>]
  /\ EncoderGoto(s, "done")
  /\ UNCHANGED <<encoderFrame, fileVars>>

\* The drain after the stop signal: without an encoder the frames are thrown away.
EncoderDrains(s) ==
  /\ enc[s] = "drain"
  /\ chan[s] # <<>>
  /\ chan' = [chan EXCEPT ![s] = Tail(@)]
  /\ IF ready[s] THEN Encodes(s) ELSE UNCHANGED <<handled, lost>>
  /\ UNCHANGED <<encoderFrame, enc, ready, panicked>>

\* encode_frame panics, as convert does on a frame of odd height: the file exists, but
\* the thread is gone, and with it this frame and those still in the channel.
EncoderPanics(s) ==
  /\ EncoderFails
  /\ enc[s] = "receive" \/ (enc[s] = "drain" /\ ready[s])
  /\ chan[s] # <<>>
  /\ chan' = [chan EXCEPT ![s] = <<>>]
  /\ ready' = [ready EXCEPT ![s] = TRUE]
  /\ panicked' = [panicked EXCEPT ![s] = TRUE]
  /\ EncoderGoto(s, "done")
  /\ UNCHANGED <<encoderFrame, handled, lost>>

\* The channel is empty: the file is finalised, or not, and the thread ends.
EncoderFinishes(s) ==
  /\ enc[s] = "drain"
  /\ chan[s] = <<>>
  /\ EncoderGoto(s, "done")
  /\ UNCHANGED <<encoderFrame, chan, fileVars>>

EncoderStep(s) ==
  \/ EncoderChecks(s)
  \/ EncoderTimesOut(s)
  \/ EncoderReceives(s)
  \/ EncoderInitFails(s)
  \/ EncoderDrains(s)
  \/ EncoderPanics(s)
  \/ EncoderFinishes(s)
-----------------------------------------------------------------------------
Requests == [ids : IdLists, path : BOOLEAN]

Finish(c) == SignalStop(c) \/ FinishStart(c) \/ FinishStop(c)

Next ==
  \/ \E c \in Clients :
       \/ \E r \in Requests : StartRecording(c, r)
       \/ StopRecording(c)
       \/ Finish(c)
  \/ \E m \in Monitors :
       AcquireFrame(m) \/ CaptureFails(m) \/ SkipFrame(m) \/ SendFrame(m)
  \/ \E s \in Sessions : EncoderStep(s)

Spec == Init /\ [][Next]_vars

\* Threads run; recv_timeout returns, so an encoder looks at the stop signal again
\* and again.  Nobody owes a command or a frame.
Fairness ==
  /\ \A c \in Clients : WF_vars(Finish(c))
  /\ \A s \in Sessions : WF_vars(EncoderStep(s))

FairSpec == Spec /\ Fairness
-----------------------------------------------------------------------------
(* Properties *)

Labels    == {"idle", "signalStart", "joinStart", "signalStop", "joinStop"}
Stopping  == {"signalStop", "joinStop"}
Starting  == {"signalStart", "joinStart"}
EncLabels == {"unused", "check", "receive", "drain", "done"}

\* Every variable keeps its type.  No run has it: the proofs need it.
TypeOK ==
  /\ rec     \in [active : BOOLEAN, ids : IdLists, session : Sessions \cup {NoSession}]
  /\ lock    \in Clients \cup {NoClient}
  /\ pc      \in [Clients -> Labels]
  /\ request \in [Clients -> Requests]
  /\ joins   \in [Clients -> Sessions \cup {NoSession}]
  /\ cap     \in [Monitors -> {"acquire", "captured"}]
  /\ enc     \in [Sessions -> EncLabels]
  /\ stop    \in [Sessions -> BOOLEAN]
  /\ chan    \in [Sessions -> Seq(Monitors)]
  /\ ready   \in [Sessions -> BOOLEAN]
  /\ sent    \in [Sessions -> Nat]
  /\ handled \in [Sessions -> Nat]
  /\ lost    \in [Sessions -> Nat]
  /\ panicked \in [Sessions -> BOOLEAN]
  /\ want    \in [Sessions -> IdLists]
  /\ strays  \in [Sessions -> [Monitors -> Nat]]

\* A session in RECORDING_STATE belongs to an active recording, with the monitors
\* that recording was started for: otherwise it would be fed nothing for ever.
SessionIsActive ==
  rec.session # NoSession => rec.active /\ want[rec.session] = rec.ids

\* No encoder thread is forgotten: one that runs is the current session's, or some
\* handler is about to join it, and no two handlers join the same one.
NoEncoderForgotten ==
  /\ \A s \in Sessions : enc[s] \notin {"unused", "done"} =>
       rec.session = s \/ \E c \in Clients : joins[c] = s
  /\ \A c, d \in Clients : joins[c] = joins[d] /\ joins[c] # NoSession => c = d
  /\ \A c \in Clients : joins[c] # NoSession => rec.session # joins[c]

\* An encoder thread that created its file and ended without a panic leaves no frame
\* behind: each one that was sent to it was encoded, or refused by the encoder with an
\* error that was logged: "Drain remaining frames in channel before stopping".
EncoderDrained ==
  \A s \in Sessions : enc[s] = "done" /\ ready[s] /\ ~panicked[s]
    => handled[s] + lost[s] = sent[s]

\* Between is_recording and the frame's being sent another recording may start, whose file
\* then gets a frame of a monitor it was not asked to record; but no swap-chain thread
\* does that to one recording twice.
AtMostOneStray == \A s \in Sessions : \A m \in Monitors : strays[s][m] <= 1

\* A session is fed only by the monitors it was started for: "Start recording frames
\* from specified monitors (empty = all)".
\* No run has it: a start between is_recording and the frame breaks it.
OnlyWantedMonitors == \A s \in Sessions : \A m \in Monitors : strays[s][m] = 0

\* Once a handler has taken a session to stop it, no swap-chain thread sends to it.
NoFrameAfterStop ==
  [][\A c \in Clients : joins[c] # NoSession => sent'[joins[c]] = sent[joins[c]]]_vars

\* A handler that stops a session gets its encoder joined and replies, and the lock
\* is released: "ALWAYS send a reply (even with 0 frames)".
StopReplies == \A c \in Clients : pc[c] # "idle" ~> pc[c] = "idle"
=============================================================================
