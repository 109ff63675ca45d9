----------------------------- MODULE SwapChain -----------------------------
(***************************************************************************)
(* SwapChain: the swap chains the operating system assigns to a monitor    *)
(* and the thread that serves each of them                                 *)
(* (rust/virtual-display-driver/src/context.rs, callbacks.rs,              *)
(* swap_chain_processor.rs), the frames they leave in shared memory        *)
(* (shared_memory.rs), and the two mutexes they share with the pipe        *)
(* handlers of ipc.rs: RECORDING_STATE and MONITOR_MODES.                  *)
(*                                                                         *)
(* A callback of the system runs under the write lock of its monitor's     *)
(* context, so each monitor has one at a time.  A swap chain names the     *)
(* thread that serves it.  A change of modes makes the monitor depart and  *)
(* plugs another in with its id, by which its frames' section is named.    *)
(***************************************************************************)
EXTENDS FrameRing, FiniteSets

CONSTANTS
  Monitors,         \* the monitor objects, each plugged in once at most
  Ids,
  IdOf,             \* the id that each is created for
  MaxChains,        \* bound: swap chains that are ever assigned, numbered in that order
  Sizes,            \* frame sizes
  MaxFrames,        \* bound: frames ever written
  Clients,          \* pipe clients, one handler each
  DepartureWaits,   \* may IddCxMonitorDeparture wait for the unassign callback?
  None

Chains == 1 .. MaxChains

ASSUME SwapChainAssumption ==
  /\ MaxChains \in Nat
  /\ Sizes \subseteq Nat \ {0}
  /\ MaxFrames \in Nat
  /\ IdOf \in [Monitors -> Ids]
  /\ DepartureWaits \in BOOLEAN
  /\ None \notin Chains \cup Clients \cup Monitors

VARIABLES
  owner,     \* the monitor of each swap chain; None until it is assigned
  chain,     \* what the driver has done with it
  call,      \* the callback in progress for each monitor
  proc,      \* MonitorContext::swap_chain_processor, named by its swap chain
  thread,    \* where each thread is
  term,      \* terminate
  writer,    \* capture: frame size of its shared memory, 0 when None
  copy,      \* what write_frame has in hand: the sequence it loaded and its frame
  section,   \* the section named by each id
  mixed,     \* the ids whose section had two writers since its header was written
  frames,    \* frames written so far, which number them
  reader,    \* a program that reads the section of each id
  recorded,  \* ids for which is_recording holds
  recLock,   \* the client that holds RECORDING_STATE across steps
  modesLock, \* the client that holds MONITOR_MODES across steps
  pc,        \* where each handler is
  plug       \* each monitor: "new", "in", "gone", or "lost" when its departure failed

osVars     == <<owner, chain, call, proc>>
threadVars == <<thread, term, writer, copy>>
shmVars    == <<section, mixed, frames, reader>>
lockVars   == <<recorded, recLock, modesLock, pc, plug>>
vars == <<owner, chain, call, proc, thread, term, writer, copy, section, mixed, frames,
          reader, recorded, recLock, modesLock, pc, plug>>

Idle == [at |-> "idle", chain |-> None]
NotReading == [open |-> FALSE, seq |-> 0, frame |-> Torn, reset |-> FALSE, torn |-> FALSE]
NoCopy == [seq |-> 0, frame |-> Torn]

Init ==
  /\ owner     = [k \in Chains |-> None]
  /\ chain     = [k \in Chains |-> "unused"]
  /\ call      = [m \in Monitors |-> Idle]
  /\ proc      = [m \in Monitors |-> None]
  /\ thread    = [k \in Chains |-> "unused"]
  /\ term      = [k \in Chains |-> FALSE]
  /\ writer    = [k \in Chains |-> 0]
  /\ copy      = [k \in Chains |-> NoCopy]
  /\ section   = [i \in Ids |-> NoSection]
  /\ mixed     = {}
  /\ frames    = 0
  /\ reader    = [i \in Ids |-> NotReading]
  /\ recorded  = {}
  /\ recLock   = None
  /\ modesLock = None
  /\ pc        = [c \in Clients |-> "idle"]
  /\ plug      = [m \in Monitors |-> "new"]

Goto(k, label) == thread' = [thread EXCEPT ![k] = label]

\* The monitor_id a swap chain's processor was made with.
Id(k) == IdOf[owner[k]]

\* The other threads that have a section open.
OtherWriters(i, k) == {j \in Chains \ {k} : writer[j] > 0 /\ Id(j) = i}
-----------------------------------------------------------------------------
(* Callbacks of the operating system *)

\* Faulty variant: the flag is set after the join.
TerminateLate(m) == UNCHANGED term

\* SwapChainProcessor::drop asks the thread to end and joins it.
Terminate(m) == term' = [term EXCEPT ![proc[m]] = TRUE]

\* Faulty variant: the thread of the swap chain before is left running.
DropNothing(m, k, next) ==
  /\ call' = [call EXCEPT ![m] = [at |-> next, chain |-> k]]
  /\ UNCHANGED term

\* Take the processor out of the context and start to drop it, then go on at next.
DropProcessor(m, k, next) ==
  IF proc[m] = None
  THEN /\ call' = [call EXCEPT ![m] = [at |-> next, chain |-> k]]
       /\ UNCHANGED term
  ELSE /\ call' = [call EXCEPT ![m] = [at |-> "join", chain |-> k]]
       /\ Terminate(m)

AssignSwapChain(m, k) ==
  /\ call[m] = Idle
  /\ plug[m] \in {"in", "lost"}
  /\ owner[k] = None
  /\ \A j \in 1 .. k - 1 : owner[j] # None
  /\ owner' = [owner EXCEPT ![k] = m]
  /\ chain' = [chain EXCEPT ![k] = "held"]
  /\ DropProcessor(m, k, "device")
  /\ UNCHANGED <<proc, thread, writer, copy, shmVars, lockVars>>

UnassignSwapChain(m) ==
  /\ call[m] = Idle
  /\ proc[m] # None
  /\ DropProcessor(m, None, "idle")
  /\ UNCHANGED <<owner, chain, proc, thread, writer, copy, shmVars, lockVars>>

Joined(m) ==
  /\ call[m].at = "join"
  /\ thread[proc[m]] \in {"done", "failed"}
  /\ proc' = [proc EXCEPT ![m] = None]
  /\ call' = [call EXCEPT ![m].at = IF call[m].chain = None THEN "idle" ELSE "device"]
  /\ UNCHANGED <<owner, chain, threadVars, shmVars, lockVars>>

\* Direct3DDevice::init, then SwapChainProcessor::run and the hardware cursor.
DeviceReady(m) ==
  /\ call[m].at = "device"
  /\ Goto(call[m].chain, "start")
  /\ proc' = [proc EXCEPT ![m] = call[m].chain]
  /\ call' = [call EXCEPT ![m] = Idle]
  /\ UNCHANGED <<owner, chain, term, writer, copy, shmVars, lockVars>>

\* Faulty variant: the swap chain is forgotten.
DeviceFailsSilently(m) ==
  /\ call[m].at = "device"
  /\ call' = [call EXCEPT ![m] = Idle]
  /\ UNCHANGED <<owner, chain, proc, threadVars, shmVars, lockVars>>

\* Without a device the swap chain is deleted, so that the system tries again.
DeviceFails(m) ==
  /\ call[m].at = "device"
  /\ chain' = [chain EXCEPT ![call[m].chain] = "deleted"]
  /\ call' = [call EXCEPT ![m] = Idle]
  /\ UNCHANGED <<owner, proc, threadVars, shmVars, lockVars>>

Callback(m) ==
  \/ \E k \in Chains : AssignSwapChain(m, k)
  \/ UnassignSwapChain(m)
  \/ Joined(m) \/ DeviceReady(m) \/ DeviceFails(m)
-----------------------------------------------------------------------------
(* The thread of a swap chain *)

ThreadStep(k, from, to) == thread[k] = from /\ Goto(k, to)

\* AvSetMmThreadCharacteristicsW; when it fails the thread just returns.
PrioritiseFails(k) ==
  /\ ThreadStep(k, "start", "failed")
  /\ UNCHANGED <<osVars, term, writer, copy, shmVars, lockVars>>

\* Otherwise IddCxSwapChainSetDevice, and the loop if that succeeds.
SetDevice(k) ==
  /\ ThreadStep(k, "start", "acquire") \/ ThreadStep(k, "start", "delete")
  /\ UNCHANGED <<osVars, term, writer, copy, shmVars, lockVars>>

\* IddCxSwapChainReleaseAndAcquireBuffer has no frame, has one, or fails.
NoFrame(k) ==
  /\ ThreadStep(k, "acquire", "wait")
  /\ UNCHANGED <<osVars, term, writer, copy, shmVars, lockVars>>

AcquireFrame(k) ==
  /\ ThreadStep(k, "acquire", "ask")
  /\ UNCHANGED <<osVars, term, writer, copy, shmVars, lockVars>>

AcquireFails(k) ==
  /\ ThreadStep(k, "acquire", "delete")
  /\ UNCHANGED <<osVars, term, writer, copy, shmVars, lockVars>>

\* After the wait, terminate is looked at; a cancelled wait ends the loop too.
WaitOver(k) ==
  /\ \/ term[k] /\ ThreadStep(k, "wait", "delete")
     \/ ~term[k] /\ (ThreadStep(k, "wait", "acquire") \/ ThreadStep(k, "wait", "delete"))
  /\ UNCHANGED <<osVars, term, writer, copy, shmVars, lockVars>>

\* Is the section still open in some program once thread k has closed it?
StillOpen(i, k) == reader[i].open \/ OtherWriters(i, k) # {}

\* capture = None: the view is unmapped and the handle closed.
CloseWriter(k) ==
  /\ writer' = [writer EXCEPT ![k] = 0]
  /\ section' = [section EXCEPT
       ![Id(k)] = IF writer[k] = 0 \/ StillOpen(Id(k), k) THEN @ ELSE NoSection]

\* is_recording under the lock; a frame nobody records is given back, which may fail.
AskRecording(k) ==
  /\ thread[k] = "ask"
  /\ recLock = None
  /\ \/ /\ Id(k) \in recorded
        /\ Goto(k, "capture")
        /\ UNCHANGED <<writer, section>>
     \/ /\ Id(k) \notin recorded
        /\ Goto(k, "acquire")
        /\ CloseWriter(k)
     \/ /\ Id(k) \notin recorded
        /\ Goto(k, "delete")
        /\ UNCHANGED <<writer, section>>
  /\ UNCHANGED <<osVars, term, copy, mixed, frames, reader, lockVars>>

\* No surface, no texture, no resources, or no copy: the frame is given back unwritten.
CaptureSkips(k) ==
  /\ ThreadStep(k, "capture", "acquire")
  /\ UNCHANGED <<osVars, term, writer, copy, shmVars, lockVars>>

\* Noted in a reader that looked at the header before it was written anew.
ReaderReset(i) == reader' = [reader EXCEPT ![i].reset = reader[i].open]

\* A section that is now open for k too has its header written anew.
UseView(k, size) ==
  /\ writer' = [writer EXCEPT ![k] = size]
  /\ section' = [section EXCEPT ![Id(k)] = Opened(@, size)]
  /\ mixed' = IF OtherWriters(Id(k), k) = {} THEN mixed \ {Id(k)} ELSE mixed \cup {Id(k)}
  /\ ReaderReset(Id(k))
  /\ Goto(k, "copied")
  /\ UNCHANGED <<osVars, term, copy, frames, lockVars>>

\* Faulty variant: a view that could not be mapped is used.
CreateUnchecked(k, size) ==
  /\ thread[k] = "capture"
  /\ writer[k] # size
  /\ UseView(k, size)

\* create_capture_resources, for the first frame and for one of another size.
CreateResources(k, size) ==
  /\ thread[k] = "capture"
  /\ writer[k] # size
  /\ CanMap(section[Id(k)], size)
  /\ UseView(k, size)

\* write_frame, in two steps: a reader may look in between.  The resources are new, or
\* those of the frame before, of the same size.
WriteFrame(k) ==
  /\ frames < MaxFrames
  /\ ThreadStep(k, "copied", "writing") \/ (writer[k] > 0 /\ ThreadStep(k, "capture", "writing"))
  /\ section' = [section EXCEPT ![Id(k)] = WriteBegun(@)]
  /\ frames' = frames + 1
  /\ copy' = [copy EXCEPT ![k] = [seq |-> section[Id(k)].seq, frame |-> frames + 1]]
  /\ UNCHANGED <<osVars, term, writer, mixed, reader, lockVars>>

\* Two threads that write one slot leave the frame of one or bytes of both.
Outcomes(k) == {copy[k].frame} \cup {Torn : i \in mixed \cap {Id(k)}}

FrameWritten(k) ==
  /\ ThreadStep(k, "writing", "send")
  /\ \E frame \in Outcomes(k) :
       section' = [section EXCEPT ![Id(k)] = WriteStored(@, copy[k].seq, frame)]
  /\ copy' = [copy EXCEPT ![k] = NoCopy]
  /\ UNCHANGED <<osVars, term, writer, mixed, frames, reader, lockVars>>

\* FinishedProcessingFrame or Map failed after the resources were made.
CopyFails(k) ==
  /\ ThreadStep(k, "copied", "acquire")
  /\ UNCHANGED <<osVars, term, writer, copy, shmVars, lockVars>>

\* try_send_frame, under RECORDING_STATE again.
SendFrame(k) ==
  /\ recLock = None
  /\ ThreadStep(k, "send", "acquire")
  /\ UNCHANGED <<osVars, term, writer, copy, shmVars, lockVars>>

\* The end of run_core drops the capture; the swap chain is deleted after it.
DeleteChain(k) ==
  /\ ThreadStep(k, "delete", "done")
  /\ CloseWriter(k)
  /\ chain' = [chain EXCEPT ![k] = "deleted"]
  /\ UNCHANGED <<owner, call, proc, term, copy, mixed, frames, reader, lockVars>>

Thread(k) ==
  \/ PrioritiseFails(k) \/ SetDevice(k) \/ NoFrame(k) \/ AcquireFrame(k) \/ AcquireFails(k)
  \/ WaitOver(k) \/ AskRecording(k) \/ CaptureSkips(k)
  \/ \E size \in Sizes : CreateResources(k, size)
  \/ WriteFrame(k) \/ FrameWritten(k) \/ CopyFails(k) \/ SendFrame(k) \/ DeleteChain(k)
-----------------------------------------------------------------------------
(* Pipe handlers that hold a mutex the threads, or each other, need *)

HandlerStep(c, from, to) == pc[c] = from /\ pc' = [pc EXCEPT ![c] = to]

\* StartRecording keeps RECORDING_STATE while an old session's encoder ends.
StartRecording(c, ids) ==
  /\ recLock = None
  /\ recLock' = c
  /\ recorded' = ids
  /\ HandlerStep(c, "idle", "start")
  /\ UNCHANGED <<osVars, threadVars, shmVars, modesLock, plug>>

RecordingStarted(c) ==
  /\ HandlerStep(c, "start", "idle")
  /\ recLock' = None
  /\ UNCHANGED <<osVars, threadVars, shmVars, recorded, modesLock, plug>>

StopRecording(c) ==
  /\ recLock = None
  /\ recorded # {}
  /\ pc[c] = "idle"
  /\ recorded' = {}
  /\ UNCHANGED <<osVars, threadVars, shmVars, recLock, modesLock, pc, plug>>

\* RequestRecordingState: shm_names locks MONITOR_MODES inside RECORDING_STATE.
QueryRecording(c) ==
  /\ recLock = None
  /\ recLock' = c
  /\ HandlerStep(c, "idle", "query")
  /\ UNCHANGED <<osVars, threadVars, shmVars, recorded, modesLock, plug>>

ListShmNames(c) ==
  /\ modesLock = None
  /\ recLock' = None
  /\ HandlerStep(c, "query", "idle")
  /\ UNCHANGED <<osVars, threadVars, shmVars, recorded, modesLock, plug>>

\* create_monitor plugs a monitor in for a row without a handle: that of the monitor which
\* had the id before was taken.  What two writers do to a row is MonitorRegistry's.
Arrive(c, m) ==
  /\ modesLock = None
  /\ pc[c] = "idle"
  /\ plug[m] = "new"
  /\ \A n \in Monitors : IdOf[n] = IdOf[m] => plug[n] # "in"
  /\ plug' = [plug EXCEPT ![m] = "in"]
  /\ UNCHANGED <<osVars, threadVars, shmVars, recorded, recLock, modesLock, pc>>

\* notify and remove take the handle from its row and hold MONITOR_MODES during
\* IddCxMonitorDeparture.
Depart(c, m) ==
  /\ modesLock = None
  /\ plug[m] = "in"
  /\ modesLock' = c
  /\ plug' = [plug EXCEPT ![m] = "gone"]
  /\ HandlerStep(c, "idle", "depart")
  /\ UNCHANGED <<osVars, threadVars, shmVars, recorded, recLock>>

\* When that fails the monitor stays plugged in, and no row has it.
DepartureFails(c, m) ==
  /\ modesLock = None
  /\ pc[c] = "idle"
  /\ plug[m] = "in"
  /\ plug' = [plug EXCEPT ![m] = "lost"]
  /\ UNCHANGED <<osVars, threadVars, shmVars, recorded, recLock, modesLock, pc>>

\* The monitors that are gone have no swap chain any more, nor one being assigned.
Unassigned == \A m \in Monitors : plug[m] = "gone" => proc[m] = None /\ call[m] = Idle

Departed(c) ==
  /\ DepartureWaits => Unassigned
  /\ HandlerStep(c, "depart", "idle")
  /\ modesLock' = None
  /\ UNCHANGED <<osVars, threadVars, shmVars, recorded, recLock, plug>>

Handler(c) ==
  \/ \E ids \in SUBSET Ids \ {{}} : StartRecording(c, ids)
  \/ RecordingStarted(c) \/ StopRecording(c)
  \/ QueryRecording(c) \/ ListShmNames(c)
  \/ \E m \in Monitors : Arrive(c, m) \/ Depart(c, m) \/ DepartureFails(c, m)
  \/ Departed(c)
-----------------------------------------------------------------------------
(* A program that reads the ring: the sequence before and after the copy *)

\* It opens the section, looks at the sequence and begins to copy the newest slot.
BeginRead(i) ==
  /\ ~reader[i].open
  /\ section[i].seq > 0
  /\ reader' = [reader EXCEPT ![i] = [open |-> TRUE, seq |-> section[i].seq,
       frame |-> Newest(section[i]), reset |-> FALSE, torn |-> FALSE]]
  /\ UNCHANGED <<osVars, threadVars, section, mixed, frames, lockVars>>

\* The slot as it is at the end of the copy.
SlotRead(i) == section[i].slot[(reader[i].seq + Slots - 1) % Slots]

\* With the sequence unchanged it takes the copy for a frame; then it closes the section.
\* What it takes from a section with two writers is not judged.
EndRead(i) ==
  /\ reader[i].open
  /\ LET r == reader[i]
         accepted == section[i].seq = r.seq /\ ~r.reset /\ i \notin mixed
     IN reader' = [reader EXCEPT ![i] = [NotReading EXCEPT
          !.torn = accepted /\ (r.frame = Torn \/ SlotRead(i) # r.frame)]]
  /\ section' = [section EXCEPT
       ![i] = IF \E k \in Chains : writer[k] > 0 /\ Id(k) = i THEN @ ELSE NoSection]
  /\ UNCHANGED <<osVars, threadVars, mixed, frames, lockVars>>

Reader(i) == BeginRead(i) \/ EndRead(i)
-----------------------------------------------------------------------------
Next ==
  \/ \E m \in Monitors : Callback(m)
  \/ \E i \in Ids : Reader(i)
  \/ \E k \in Chains : Thread(k)
  \/ \E c \in Clients : Handler(c)

\* Threads and callbacks go on, an encoder ends, a departure returns when it may; a swap
\* chain runs out of frames, or ends, again and again, and RECORDING_STATE is fair.
Fairness ==
  /\ \A m \in Monitors :
       /\ WF_vars(\E k \in Chains : owner[k] = m /\ Thread(k))
       /\ SF_vars(\E k \in Chains : owner[k] = m /\ (NoFrame(k) \/ AcquireFails(k)))
       /\ SF_vars(\E k \in Chains : owner[k] = m /\ (AskRecording(k) \/ SendFrame(k)))
       /\ WF_vars(Joined(m) \/ DeviceReady(m) \/ DeviceFails(m))
       /\ WF_vars(plug[m] = "gone" /\ UnassignSwapChain(m))
  /\ \A c \in Clients :
       WF_vars(RecordingStarted(c) \/ ListShmNames(c) \/ Departed(c))

Spec     == Init /\ [][Next]_vars
FairSpec == Spec /\ Fairness
-----------------------------------------------------------------------------
(* Properties *)

ThreadStates == {"unused", "start", "acquire", "wait", "ask", "capture",
                 "copied", "writing", "send", "delete", "done", "failed"}

\* Every variable has its type.
TypeOK ==
  /\ owner \in [Chains -> Monitors \cup {None}]
  /\ chain \in [Chains -> {"unused", "held", "deleted"}]
  /\ call \in [Monitors -> [at : {"idle", "join", "device"}, chain : Chains \cup {None}]]
  /\ proc \in [Monitors -> Chains \cup {None}]
  /\ thread \in [Chains -> ThreadStates]
  /\ term \in [Chains -> BOOLEAN]
  /\ writer \in [Chains -> Sizes \cup {0}]
  /\ copy \in [Chains -> [seq : 0 .. MaxFrames, frame : 0 .. MaxFrames]]
  /\ section \in [Ids -> SectionType(Sizes, MaxFrames)]
  /\ mixed \subseteq Ids
  /\ frames \in 0 .. MaxFrames
  /\ reader \in [Ids -> [open : BOOLEAN, seq : 0 .. MaxFrames,
                         frame : 0 .. MaxFrames, reset : BOOLEAN, torn : BOOLEAN]]
  /\ recorded \subseteq Ids
  /\ {recLock, modesLock} \subseteq Clients \cup {None}
  /\ pc \in [Clients -> {"idle", "start", "query", "depart"}]
  /\ plug \in [Monitors -> {"new", "in", "gone", "lost"}]

Running(k) == thread[k] \notin {"unused", "done", "failed"}

\* The monitors that no row has any more and whose thread may still run.
LetGo == {m \in Monitors : plug[m] = "lost" \/ (plug[m] = "gone" /\ ~DepartureWaits)}

\* Two threads that have one section open.
Share(j, k) == j # k /\ writer[j] > 0 /\ writer[k] > 0 /\ Id(j) = Id(k)

\* What is left of the claim that a section is only written from a single thread
\* (shared_memory.rs:49).  Whatever is assigned and unassigned, the thread of the processor
\* in a monitor's context is the only one that runs for the monitor; and a section has
\* two writers only when one's monitor was let go: its departure failed, or did not wait.
OneWriter ==
  /\ \A k \in Chains : Running(k) => proc[owner[k]] = k
  /\ \A j, k \in Chains : Share(j, k) => owner[j] \in LetGo \/ owner[k] \in LetGo

\* No frame is written past the end of a view: what a thread takes its section to hold
\* fits the section it has open, though it may have been created for another size, by
\* another thread that still writes.
WriterFits ==
  \A k \in Chains : writer[k] > 0 => writer[k] <= section[Id(k)].cap

\* The ring is a seqlock (shared_memory.rs:32): a copy made while the sequence did not
\* change, and the header was not written anew, is one whole frame, unless the section
\* has two writers.
StableReadIsWhole == \A i \in Ids : ~reader[i].torn

\* Every swap chain the system gave is deleted in the end, which makes it give another,
\* unless it is in use or its thread could not be prioritised.
ChainsGivenBack ==
  \A k \in Chains : chain[k] = "held" =>
    \/ call[owner[k]].chain = k
    \/ proc[owner[k]] = k
    \/ thread[k] = "failed"

\* The one circle of waits: a query has RECORDING_STATE and wants MONITOR_MODES, which a
\* departure holds that waits for a thread which wants RECORDING_STATE.
Circle ==
  /\ DepartureWaits
  /\ recLock # None /\ pc[recLock] = "query"
  /\ modesLock # None /\ ~Unassigned

\* A callback that drops a processor returns, unless the system closes that circle.
CallbackEnds ==
  \A m \in Monitors : call[m].at = "join" ~> (call[m].at # "join" \/ Circle)
=============================================================================
