---------------------------- MODULE DxgiCapture ----------------------------
(***************************************************************************)
(* DxgiCapture: the capture service of rust/dxgi-capture: its control pipe *)
(* (control.rs), the CaptureService behind a mutex (service.rs), a capture *)
(* thread per display (capture.rs) and the triple-buffered shared memory   *)
(* each thread writes (shared_memory.rs, a FrameRing).                     *)
(*                                                                         *)
(* A connection is served by one task, which reads any part of what was    *)
(* written, runs each complete command and answers it.                     *)
(***************************************************************************)
EXTENDS FrameRing, FiniteSets, SequencesExt

CONSTANTS
  Connections,
  Displays,
  Watched,       \* displays whose section a program reads
  Sizes,         \* frame sizes
  MaxMessages,   \* bound: messages ever sent
  MaxThreads,    \* bound: capture threads ever started, numbered in that order
  MaxFrames,     \* bound: frames ever written
  None

Threads == 1 .. MaxThreads

ASSUME DxgiCaptureAssumption ==
  /\ IsFiniteSet(Displays)
  /\ Watched \subseteq Displays
  /\ Sizes \subseteq Nat \ {0}
  /\ {MaxMessages, MaxThreads, MaxFrames} \subseteq Nat
  /\ None \notin Connections \cup Displays

VARIABLES
  sent,      \* messages each program has sent, a history variable
  wire,      \* bytes on their way: a body and the EOF for each message
  buf,       \* msg_buf of the connection's task
  task,      \* where that task is, with the command it runs
  handled,   \* messages taken from the buffer and answered, or "binary" for one skipped
  lock,      \* the connection whose command holds the service
  captures,  \* CaptureService.captures
  recording, mode,
  thread,    \* where each capture thread is
  display,   \* the display it captures
  size,      \* the frame size of its shared memory, 0 while it has none
  term,      \* terminate
  section,   \* the named section of each display
  frames,    \* frames written so far, which number them
  reader     \* a program that reads the section of a watched display

pipeVars    == <<sent, wire, buf, task, handled>>
serviceVars == <<lock, captures, recording, mode>>
threadVars  == <<thread, display, size, term>>
shmVars     == <<section, frames, reader>>
vars == <<sent, wire, buf, task, handled, lock, captures, recording, mode,
          thread, display, size, term, section, frames, reader>>

Idle == [at |-> "read", cmd |-> None]
NotReading == [open |-> FALSE, seq |-> 0, frame |-> Torn, reset |-> FALSE, torn |-> FALSE]

Init ==
  /\ sent      = [c \in Connections |-> <<>>]
  /\ wire      = [c \in Connections |-> <<>>]
  /\ buf       = [c \in Connections |-> <<>>]
  /\ task      = [c \in Connections |-> Idle]
  /\ handled   = [c \in Connections |-> <<>>]
  /\ lock      = None
  /\ captures  = {}
  /\ recording = FALSE
  /\ mode      = None
  /\ thread    = [t \in Threads |-> "unused"]
  /\ display   = [t \in Threads |-> None]
  /\ size      = [t \in Threads |-> 0]
  /\ term      = [t \in Threads |-> FALSE]
  /\ section   = [d \in Displays |-> NoSection]
  /\ frames    = 0
  /\ reader    = [d \in Displays |-> NotReading]
-----------------------------------------------------------------------------
(* The control pipe *)

\* Commands, a text that is none, and bytes that are no UTF-8.
Commands == {"all", "primary", "stop", "query"}
Messages == Commands \cup {"junk", "binary"}

\* send_command: a body and the EOF in one write.
Send(c, m) ==
  /\ FoldFunction(LAMBDA s, n : n + Len(s), 0, sent) < MaxMessages
  /\ sent' = [sent EXCEPT ![c] = Append(@, m)]
  /\ wire' = [wire EXCEPT ![c] = @ \o <<m, "EOF">>]
  /\ UNCHANGED <<buf, task, handled, serviceVars, threadVars, shmVars>>

HasMessage(c) == Contains(buf[c], "EOF")

\* server.read: any part of what was written.
Read(c) ==
  /\ task[c] = Idle
  /\ ~HasMessage(c)
  /\ \E n \in 1 .. Len(wire[c]) :
       /\ buf' = [buf EXCEPT ![c] = @ \o SubSeq(wire[c], 1, n)]
       /\ wire' = [wire EXCEPT ![c] = SubSeq(@, n + 1, Len(@))]
  /\ UNCHANGED <<sent, task, handled, serviceVars, threadVars, shmVars>>

EofAt(b) == SelectInSeq(b, LAMBDA x : x = "EOF")

\* Faulty variant: the EOF itself stays in the buffer.
RestWithEof(b) == SubSeq(b, EofAt(b), Len(b))

\* drain(..=eof_pos)
Rest(b) == SubSeq(b, EofAt(b) + 1, Len(b))

\* The first message of the buffer: bad bytes are skipped, a command goes on to wait for
\* the service, any other text (none at all, too) is answered with an error.
TakeMessage(c) ==
  /\ task[c] = Idle
  /\ HasMessage(c)
  /\ LET m == Head(buf[c])
     IN /\ task' = [task EXCEPT ![c] = IF m \in Commands THEN [at |-> "lock", cmd |-> m] ELSE @]
        /\ handled' = [handled EXCEPT
             ![c] = IF m \in Commands THEN @ ELSE Append(@, IF m = "binary" THEN m ELSE "junk")]
  /\ buf' = [buf EXCEPT ![c] = Rest(@)]
  /\ UNCHANGED <<sent, wire, serviceVars, threadVars, shmVars>>

Goto(c, label) == task' = [task EXCEPT ![c].at = label]

\* handle_command returned: the mutex is free and the response is written.
Answer(c) ==
  /\ task' = [task EXCEPT ![c] = Idle]
  /\ handled' = [handled EXCEPT ![c] = Append(@, task[c].cmd)]
  /\ lock' = None
-----------------------------------------------------------------------------
(* The service, under its mutex *)

LockService(c) ==
  /\ task[c].at = "lock"
  /\ lock = None
  /\ lock' = c
  /\ Goto(c, IF task[c].cmd = "query" THEN "state" ELSE "stop")
  /\ UNCHANGED <<sent, wire, buf, handled, captures, recording, mode, threadVars, shmVars>>

QueryState(c) ==
  /\ task[c].at = "state"
  /\ Answer(c)
  /\ UNCHANGED <<sent, wire, buf, captures, recording, mode, threadVars, shmVars>>

\* captures.clear() drops the threads in order; each is asked to end and then joined.
First == CHOOSE t \in captures : \A u \in captures : t <= u

SignalThread(c) ==
  /\ task[c].at = "stop"
  /\ captures # {}
  /\ ~term[First]
  /\ term' = [term EXCEPT ![First] = TRUE]
  /\ UNCHANGED <<pipeVars, serviceVars, thread, display, size, shmVars>>

JoinThread(c) ==
  /\ task[c].at = "stop"
  /\ captures # {}
  /\ term[First]
  /\ thread[First] = "done"
  /\ captures' = captures \ {First}
  /\ UNCHANGED <<pipeVars, lock, recording, mode, threadVars, shmVars>>

\* Faulty variant: a recording that is under way is not stopped first.
StoppedLeavesThreads(c) ==
  /\ task[c].at = "stop"
  /\ recording' = FALSE
  /\ mode' = None
  /\ IF task[c].cmd = "stop"
     THEN Answer(c)
     ELSE Goto(c, "start") /\ UNCHANGED <<handled, lock>>
  /\ UNCHANGED <<sent, wire, buf, captures, threadVars, shmVars>>

\* The end of stop_recording: of a command to stop, or at the head of one to start.
Stopped(c) ==
  /\ task[c].at = "stop"
  /\ captures = {}
  /\ recording' = FALSE
  /\ mode' = None
  /\ IF task[c].cmd = "stop"
     THEN Answer(c)
     ELSE Goto(c, "start") /\ UNCHANGED <<handled, lock>>
  /\ UNCHANGED <<sent, wire, buf, captures, threadVars, shmVars>>

NextThread == Cardinality({t \in Threads : thread[t] # "unused"}) + 1

\* enumerate_displays fails, finds nothing, or nothing of the wanted kind.
StartFails(c) ==
  /\ task[c].at = "start"
  /\ Answer(c)
  /\ UNCHANGED <<sent, wire, buf, captures, recording, mode, threadVars, shmVars>>

\* A thread for each display that is wanted; the primary ones are at the origin.
StartCaptures(c, targets) ==
  /\ task[c].at = "start"
  /\ targets # {}
  /\ LET new == NextThread .. NextThread + Cardinality(targets) - 1
         of  == CHOOSE f \in [new -> targets] : \A d \in targets : \E t \in new : f[t] = d
     IN /\ new \subseteq Threads
        /\ captures' = captures \cup new
        /\ thread' = [t \in Threads |-> IF t \in new THEN "setup" ELSE thread[t]]
        /\ display' = [t \in Threads |-> IF t \in new THEN of[t] ELSE display[t]]
  /\ recording' = TRUE
  /\ mode' = task[c].cmd
  /\ Answer(c)
  /\ UNCHANGED <<sent, wire, buf, size, term, shmVars>>

Task(c) ==
  \/ Read(c) \/ TakeMessage(c) \/ LockService(c) \/ QueryState(c)
  \/ SignalThread(c) \/ JoinThread(c) \/ Stopped(c) \/ StartFails(c)
  \/ \E targets \in SUBSET Displays : StartCaptures(c, targets)
-----------------------------------------------------------------------------
(* A capture thread *)

ThreadStep(t, from, to) == thread[t] = from /\ thread' = [thread EXCEPT ![t] = to]

StillOpen(d, t) ==
  \/ reader[d].open
  \/ \E u \in Threads \ {t} : display[u] = d /\ size[u] > 0

\* The shared memory goes with the thread, however its loop ended.
EndThread(t, from) ==
  /\ ThreadStep(t, from, "done")
  /\ size' = [size EXCEPT ![t] = 0]
  /\ section' = [section EXCEPT
       ![display[t]] = IF size[t] = 0 \/ StillOpen(display[t], t) THEN @ ELSE NoSection]

\* No device, no texture, no shared memory, or no duplication.
SetupFails(t) ==
  /\ EndThread(t, "setup") \/ EndThread(t, "duplicate")
  /\ UNCHANGED <<pipeVars, serviceVars, display, term, frames, reader>>

CreateShared(t, n) ==
  /\ ThreadStep(t, "setup", "duplicate")
  /\ CanMap(section[display[t]], n)
  /\ size' = [size EXCEPT ![t] = n]
  /\ section' = [section EXCEPT ![display[t]] = Opened(@, n)]
  /\ reader' = [reader EXCEPT ![display[t]].reset = reader[display[t]].open]
  /\ UNCHANGED <<pipeVars, serviceVars, display, term, frames>>

CreateDuplication(t) ==
  /\ ThreadStep(t, "duplicate", "loop")
  /\ UNCHANGED <<pipeVars, serviceVars, display, size, term, shmVars>>

\* Faulty variant: terminate is never looked at.
LooksAtNothing(t) ==
  /\ ThreadStep(t, "loop", "acquire")
  /\ UNCHANGED <<pipeVars, serviceVars, display, size, term, shmVars>>

\* terminate is looked at before every frame.
LooksAtTerminate(t) ==
  /\ \/ term[t] /\ EndThread(t, "loop")
     \/ ~term[t] /\ ThreadStep(t, "loop", "acquire") /\ UNCHANGED <<size, section>>
  /\ UNCHANGED <<pipeVars, serviceVars, display, term, frames, reader>>

\* A time-out, or an access lost and the duplication made anew or slept over.
NoFrame(t) ==
  /\ ThreadStep(t, "acquire", "loop")
  /\ UNCHANGED <<pipeVars, serviceVars, display, size, term, shmVars>>

\* Any other error ends the thread; the service is not told.
CaptureFails(t) ==
  /\ EndThread(t, "acquire")
  /\ UNCHANGED <<pipeVars, serviceVars, display, term, frames, reader>>

WriteFrame(t) ==
  /\ frames < MaxFrames
  /\ ThreadStep(t, "acquire", "write")
  /\ section' = [section EXCEPT ![display[t]] = WriteBegun(@)]
  /\ frames' = frames + 1
  /\ UNCHANGED <<pipeVars, serviceVars, display, size, term, reader>>

FrameWritten(t) ==
  /\ ThreadStep(t, "write", "loop")
  /\ section' = [section EXCEPT ![display[t]] = WriteEnded(@, frames)]
  /\ UNCHANGED <<pipeVars, serviceVars, display, size, term, frames, reader>>

Thread(t) ==
  \/ SetupFails(t) \/ CreateDuplication(t)
  \/ \E n \in Sizes : CreateShared(t, n)
  \/ LooksAtTerminate(t) \/ NoFrame(t) \/ CaptureFails(t)
  \/ WriteFrame(t) \/ FrameWritten(t)
-----------------------------------------------------------------------------
(* A program that reads a ring *)

BeginRead(d) ==
  /\ ~reader[d].open
  /\ section[d].seq > 0
  /\ reader' = [reader EXCEPT ![d] = [open |-> TRUE, seq |-> section[d].seq,
       frame |-> Newest(section[d]), reset |-> FALSE, torn |-> FALSE]]
  /\ UNCHANGED <<pipeVars, serviceVars, threadVars, section, frames>>

SlotRead(d) == section[d].slot[(reader[d].seq + Slots - 1) % Slots]

\* With Slots - 2 newer frames at most it takes the copy for a frame.
EndRead(d) ==
  /\ reader[d].open
  /\ LET r == reader[d]
         accepted == section[d].seq <= r.seq + Slots - 2 /\ ~r.reset
     IN reader' = [reader EXCEPT ![d] = [NotReading EXCEPT
          !.torn = accepted /\ (r.frame = Torn \/ SlotRead(d) # r.frame)]]
  /\ section' = [section EXCEPT
       ![d] = IF \E t \in Threads : display[t] = d /\ size[t] > 0 THEN @ ELSE NoSection]
  /\ UNCHANGED <<pipeVars, serviceVars, threadVars, frames>>
-----------------------------------------------------------------------------
Next ==
  \/ \E c \in Connections : Task(c) \/ \E m \in Messages : Send(c, m)
  \/ \E t \in Threads : Thread(t)
  \/ \E d \in Watched : BeginRead(d) \/ EndRead(d)

\* Tasks and threads go on; the mutex is handed out in order.
Fairness ==
  /\ \A c \in Connections : WF_vars(Task(c)) /\ SF_vars(LockService(c))
  /\ \A t \in Threads : WF_vars(Thread(t))

Spec     == Init /\ [][Next]_vars
FairSpec == Spec /\ Fairness
-----------------------------------------------------------------------------
(* Properties *)

ThreadStates == {"unused", "setup", "duplicate", "loop", "acquire", "write", "done"}

\* Every variable has its type.
TypeOK ==
  /\ \A c \in Connections :
       /\ Range(sent[c]) \cup Range(handled[c]) \subseteq Messages
       /\ Range(wire[c]) \cup Range(buf[c]) \subseteq Messages \cup {"EOF"}
  /\ task \in [Connections -> [at : {"read", "lock", "state", "stop", "start"},
                               cmd : Commands \cup {None}]]
  /\ lock \in Connections \cup {None}
  /\ captures \subseteq Threads
  /\ recording \in BOOLEAN
  /\ mode \in {"all", "primary", None}
  /\ thread \in [Threads -> ThreadStates]
  /\ display \in [Threads -> Displays \cup {None}]
  /\ size \in [Threads -> Sizes \cup {0}]
  /\ term \in [Threads -> BOOLEAN]
  /\ section \in [Displays -> SectionType(Sizes, MaxFrames)]
  /\ frames \in 0 .. MaxFrames

\* However the pipe cuts the bytes, every message is dealt with once and in the order in
\* which the program sent them: each that can be decoded is answered as what it is, and no
\* other.
AnsweredInOrder == \A c \in Connections : IsPrefix(handled[c], sent[c])

Running(t) == thread[t] \notin {"unused", "done"}

\* A capture thread that runs is one the service will stop, and no display has two: the
\* shared memory, named after the display, has one writer (shared_memory.rs:46).
OneCapturePerDisplay ==
  /\ \A t \in Threads : Running(t) => t \in captures
  /\ \A t, u \in captures : display[t] = display[u] => t = u

\* Triple buffering (capture.rs:36): a reader that was overtaken by one frame while it
\* copied still has one whole frame.
OvertakenReadIsWhole == \A d \in Watched : ~reader[d].torn

\* Every message is answered in the end, whatever else the service is asked and whatever
\* its threads meet: a command that stops them does not wait for ever.
CommandsAnswered ==
  \A c \in Connections : []<>(handled[c] = sent[c])
=============================================================================
