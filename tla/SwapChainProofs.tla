-------------------------- MODULE SwapChainProofs --------------------------
(***************************************************************************)
(* Theorems about SwapChain for any number of monitors, swap chains, pipe  *)
(* clients, frames and slots of the ring, any frame sizes, and whether or  *)
(* not a departure waits for the callbacks.                                *)
(***************************************************************************)
EXTENDS SwapChain, TLAPS

(* The inductive invariant *)

\* The types of what the callbacks and the threads share, and of the sections.
ChainTypes ==
  /\ owner \in [Chains -> Monitors \cup {None}]
  /\ chain \in [Chains -> {"unused", "held", "deleted"}]
  /\ call \in [Monitors -> [at : {"idle", "join", "device"}, chain : Chains \cup {None}]]
  /\ proc \in [Monitors -> Chains \cup {None}]
  /\ thread \in [Chains -> ThreadStates]
  /\ writer \in [Chains -> Nat]
  /\ copy \in [Chains -> [seq : Nat, frame : Nat]]
  /\ section \in [Ids -> [cap : Nat, size : Nat, seq : Nat, slot : [0 .. Slots - 1 -> Nat]]]
  /\ frames \in Nat

\* A swap chain that was not assigned yet has no thread and no shared memory.
UnownedInv ==
  \A k \in Chains : owner[k] = None =>
    chain[k] = "unused" /\ thread[k] = "unused" /\ writer[k] = 0

\* A context's processor serves a swap chain of its monitor.  A callback that joins has one to
\* drop; one that makes the device has dropped it, and its swap chain has no thread yet.
CallInv ==
  \A m \in Monitors :
    /\ proc[m] # None => owner[proc[m]] = m
    /\ call[m].at = "join" => proc[m] # None
    /\ call[m].at = "device" => proc[m] = None /\ call[m].chain # None
    /\ call[m].at = "idle" => call[m].chain = None
    /\ call[m].chain # None => owner[call[m].chain] = m /\ thread[call[m].chain] = "unused"

\* Whatever is assigned and unassigned, a monitor has one thread that runs at most.
OneThread == \A k \in Chains : Running(k) => proc[owner[k]] = k

\* A thread that came to its end deleted its swap chain.
DoneInv == \A k \in Chains : thread[k] = "done" => chain[k] = "deleted"

SwapChainInv ==
  /\ ChainTypes
  /\ UnownedInv
  /\ CallInv
  /\ DoneInv
  /\ OneThread
  /\ WriterFits
  /\ ChainsGivenBack
-----------------------------------------------------------------------------
(* Lemmas about the ring and the threads *)

\* What new, write_frame and the closing of the last handle leave of a section's capacity.
LEMMA RingEffect ==
  ASSUME NEW s \in [cap : Nat, size : Nat, seq : Nat, slot : [0 .. Slots - 1 -> Nat]],
         NEW f \in Nat, NEW q \in Nat, NEW size \in Nat
  PROVE  /\ WriteBegun(s) \in [cap : Nat, size : Nat, seq : Nat, slot : [0 .. Slots - 1 -> Nat]]
         /\ WriteStored(s, q, f) \in [cap : Nat, size : Nat, seq : Nat, slot : [0 .. Slots - 1 -> Nat]]
         /\ Opened(s, size) \in [cap : Nat, size : Nat, seq : Nat, slot : [0 .. Slots - 1 -> Nat]]
         /\ NoSection \in [cap : Nat, size : Nat, seq : Nat, slot : [0 .. Slots - 1 -> Nat]]
         /\ WriteBegun(s).cap = s.cap
         /\ WriteStored(s, q, f).cap = s.cap
         /\ Opened(s, size).cap >= s.cap
         /\ CanMap(s, size) => size <= Opened(s, size).cap
<1>1. Blank \in [0 .. Slots - 1 -> Nat]
  BY DEF Blank, Torn
<1>3. WriteBegun(s) = [cap |-> s.cap, size |-> s.size, seq |-> s.seq,
                       slot |-> [s.slot EXCEPT ![Target(s)] = 0]]
  BY DEF WriteBegun, Torn
<1>4. WriteStored(s, q, f) = [cap |-> s.cap, size |-> s.size, seq |-> q + 1,
                             slot |-> [s.slot EXCEPT ![q % Slots] = f]]
  <2> DEFINE t == [cap |-> s.cap, size |-> s.size, seq |-> q, slot |-> s.slot]
  <2>1. [s EXCEPT !.seq = q] = t
    OBVIOUS
  <2>2. WriteStored(s, q, f) = WriteEnded(t, f)
    BY <2>1 DEF WriteStored
  <2>3. WriteEnded(t, f) = [[t EXCEPT !.slot[Target(t)] = f] EXCEPT !.seq = q + 1]
    BY DEF WriteEnded
  <2>4. [t EXCEPT !.slot[Target(t)] = f]
          = [cap |-> s.cap, size |-> s.size, seq |-> q, slot |-> [s.slot EXCEPT ![Target(t)] = f]]
    OBVIOUS
  <2>5. Target(t) = q % Slots
    BY DEF Target
  <2> QED
    BY <2>2, <2>3, <2>4, <2>5
<1>5. [s.slot EXCEPT ![Target(s)] = 0] \in [0 .. Slots - 1 -> Nat]
  OBVIOUS
<1>6. [s.slot EXCEPT ![q % Slots] = f] \in [0 .. Slots - 1 -> Nat]
  OBVIOUS
<1>7. WriteBegun(s) \in [cap : Nat, size : Nat, seq : Nat, slot : [0 .. Slots - 1 -> Nat]]
  BY <1>3, <1>5
<1>8. WriteStored(s, q, f) \in [cap : Nat, size : Nat, seq : Nat, slot : [0 .. Slots - 1 -> Nat]]
  BY <1>4, <1>6
<1>9. Opened(s, size) \in [cap : Nat, size : Nat, seq : Nat, slot : [0 .. Slots - 1 -> Nat]]
  BY <1>1 DEF Opened
<1>10. NoSection \in [cap : Nat, size : Nat, seq : Nat, slot : [0 .. Slots - 1 -> Nat]]
  BY <1>1 DEF NoSection
<1>11. WriteBegun(s).cap = s.cap /\ WriteStored(s, q, f).cap = s.cap
  BY <1>3, <1>4
<1>12. Opened(s, size).cap >= s.cap /\ (CanMap(s, size) => size <= Opened(s, size).cap)
  BY DEF Opened, CanMap, Exists
<1> QED
  BY <1>7, <1>8, <1>9, <1>10, <1>11, <1>12

\* A step of a thread moves only it, and no thread starts by itself; the last one deletes the
\* swap chain.
LEMMA ThreadEffect ==
  ASSUME SwapChainInv, NEW k \in Chains, Thread(k)
  PROVE  /\ Running(k)
         /\ UNCHANGED <<owner, call, proc>>
         /\ \E to \in ThreadStates \ {"unused"} :
              /\ thread' = [thread EXCEPT ![k] = to]
              /\ \/ to # "done" /\ chain' = chain
                 \/ to = "done" /\ chain' = [chain EXCEPT ![k] = "deleted"]
<1>1. CASE PrioritiseFails(k)
  <2>1. thread[k] = "start" /\ thread' = [thread EXCEPT ![k] = "failed"]
    BY <1>1 DEF PrioritiseFails, ThreadStep, Goto
  <2>2. UNCHANGED <<owner, chain, call, proc>>
    BY <1>1 DEF PrioritiseFails, osVars
  <2>3. Running(k)
    BY <2>1 DEF Running
  <2>4. "failed" \in ThreadStates \ {"unused"} /\ "failed" # "done"
    BY DEF ThreadStates
  <2> QED
    BY <2>1, <2>2, <2>3, <2>4
<1>2. CASE SetDevice(k)
  <2>1. PICK to \in {"acquire", "delete"} : thread' = [thread EXCEPT ![k] = to]
    BY <1>2 DEF SetDevice, ThreadStep, Goto
  <2>2. thread[k] = "start" /\ UNCHANGED <<owner, chain, call, proc>>
    BY <1>2 DEF SetDevice, ThreadStep, osVars
  <2> QED
    BY <2>1, <2>2 DEF Running, ThreadStates
<1>3. CASE NoFrame(k) \/ AcquireFrame(k) \/ AcquireFails(k)
  BY <1>3 DEF NoFrame, AcquireFrame, AcquireFails, ThreadStep, Goto, Running, osVars, ThreadStates
<1>4. CASE WaitOver(k)
  BY <1>4 DEF WaitOver, ThreadStep, Goto, Running, osVars, ThreadStates
<1>5. CASE AskRecording(k)
  BY <1>5 DEF AskRecording, Goto, Running, osVars, ThreadStates
<1>6. CASE CaptureSkips(k) \/ CopyFails(k) \/ SendFrame(k)
  BY <1>6 DEF CaptureSkips, CopyFails, SendFrame, ThreadStep, Goto, Running, osVars, ThreadStates
<1>7. CASE \E size \in Sizes : CreateResources(k, size)
  BY <1>7 DEF CreateResources, UseView, Goto, Running, osVars, ThreadStates
<1>8. CASE WriteFrame(k) \/ FrameWritten(k)
  <2>1. \E to \in {"writing", "send"} : Goto(k, to)
    BY <1>8 DEF WriteFrame, FrameWritten, ThreadStep
  <2>2. thread[k] \in {"copied", "capture", "writing"}
    BY <1>8 DEF WriteFrame, FrameWritten, ThreadStep
  <2>3. UNCHANGED <<owner, chain, call, proc>>
    BY <1>8 DEF WriteFrame, FrameWritten, osVars
  <2> QED
    BY <2>1, <2>2, <2>3 DEF Goto, Running, ThreadStates
<1>9. CASE DeleteChain(k)
  BY <1>9 DEF DeleteChain, ThreadStep, Goto, Running, ThreadStates
<1> QED
  BY <1>1, <1>2, <1>3, <1>4, <1>5, <1>6, <1>7, <1>8, <1>9 DEF Thread
\* What the end of a thread or of its capture leaves of the shared memory: a section that
\* another thread has open stays as it is.
LEMMA CloseEffect ==
  ASSUME ChainTypes, UnownedInv, WriterFits, NEW k \in Chains, Running(k), CloseWriter(k),
         owner' = owner
  PROVE  /\ writer' \in [Chains -> Nat]
         /\ section' \in [Ids -> [cap : Nat, size : Nat, seq : Nat, slot : [0 .. Slots - 1 -> Nat]]]
         /\ writer'[k] = 0
         /\ WriterFits'
<1> DEFINE m == Id(k)
           S == [cap : Nat, size : Nat, seq : Nat, slot : [0 .. Slots - 1 -> Nat]]
<1>1. m \in Ids /\ \A j \in Chains : writer[j] > 0 => Id(j) \in Ids
  BY SwapChainAssumption DEF ChainTypes, UnownedInv, Running, Id
<1>2. NoSection \in S
  BY SlotsAssumption DEF NoSection, Blank, Torn
<1>3. writer' = [writer EXCEPT ![k] = 0]
  BY DEF CloseWriter
<1>4. section' = [section EXCEPT ![m] = IF writer[k] = 0 \/ StillOpen(m, k) THEN section[m] ELSE NoSection]
  BY DEF CloseWriter
<1>5. writer' \in [Chains -> Nat] /\ writer'[k] = 0
  BY <1>3 DEF ChainTypes
<1>6. section' \in [Ids -> S]
  <2>1. section \in [Ids -> S]
    BY DEF ChainTypes
  <2> HIDE DEF S
  <2> QED
    BY <1>1, <1>2, <1>4, <2>1
<1>7. ASSUME NEW j \in Chains, writer'[j] > 0
      PROVE  writer'[j] <= section'[Id(j)].cap
  <2>1. j # k /\ writer'[j] = writer[j] /\ writer[j] > 0
    BY <1>3, <1>5, <1>7 DEF ChainTypes
  <2>2. section'[Id(j)] = section[Id(j)]
    BY <1>1, <1>4, <2>1 DEF StillOpen, OtherWriters, ChainTypes
  <2> QED
    BY <2>1, <2>2 DEF WriterFits
<1>8. \A j \in Chains : Id(j)' = Id(j)
  BY DEF Id
<1> QED
  BY <1>5, <1>6, <1>7, <1>8 DEF WriterFits

\* What a step of a thread leaves of the shared memory.
LEMMA ThreadMemory ==
  ASSUME SwapChainInv, NEW k \in Chains, Thread(k)
  PROVE  /\ writer' \in [Chains -> Nat]
         /\ \A j \in Chains \ {k} : writer'[j] = writer[j]
         /\ section' \in [Ids -> [cap : Nat, size : Nat, seq : Nat, slot : [0 .. Slots - 1 -> Nat]]]
         /\ copy' \in [Chains -> [seq : Nat, frame : Nat]]
         /\ frames' \in Nat
         /\ WriterFits'
<1> DEFINE m == Id(k)
           S == [cap : Nat, size : Nat, seq : Nat, slot : [0 .. Slots - 1 -> Nat]]
<1>1. Running(k) /\ owner' = owner
  BY ThreadEffect
<1>2. m \in Ids /\ \A j \in Chains : writer[j] > 0 => Id(j) \in Ids
  BY <1>1, SwapChainAssumption DEF SwapChainInv, ChainTypes, UnownedInv, Running, Id
<1>mem. section[m] \in S /\ copy[k].seq \in Nat /\ copy[k].frame \in Nat
  BY <1>2 DEF SwapChainInv, ChainTypes
<1>ids. \A j \in Chains : Id(j)' = Id(j)
  BY <1>1 DEF Id
<1>3. CASE UNCHANGED <<writer, copy, section, frames>>
  BY <1>1, <1>3, <1>ids DEF SwapChainInv, ChainTypes, WriterFits
<1>4. CASE CloseWriter(k) /\ UNCHANGED <<copy, frames>>
  <2>1. \A j \in Chains \ {k} : writer'[j] = writer[j]
    BY <1>4 DEF CloseWriter, SwapChainInv, ChainTypes
  <2> QED
    BY <1>1, <1>4, <2>1, CloseEffect DEF SwapChainInv, ChainTypes
<1>5. CASE /\ writer' = writer
           /\ \E s \in S : s.cap >= section[m].cap /\ section' = [section EXCEPT ![m] = s]
           /\ copy' \in [Chains -> [seq : Nat, frame : Nat]]
           /\ frames' \in Nat
  <2>1. PICK s \in S : s.cap >= section[m].cap /\ section' = [section EXCEPT ![m] = s]
    BY <1>5
  <2>2. section' \in [Ids -> S]
    <3>1. section \in [Ids -> S]
      BY DEF SwapChainInv, ChainTypes
    <3> HIDE DEF S
    <3> QED
      BY <2>1, <3>1
  <2>3. ASSUME NEW j \in Chains, writer[j] > 0
        PROVE  writer[j] <= section'[Id(j)].cap
    <3>1. Id(j) \in Ids /\ section[Id(j)] \in S /\ writer[j] \in Nat
      BY <1>2, <2>3 DEF SwapChainInv, ChainTypes
    <3>2. writer[j] <= section[Id(j)].cap
      BY <2>3 DEF SwapChainInv, WriterFits
    <3>3. section'[Id(j)].cap >= section[Id(j)].cap
      BY <1>2, <1>mem, <2>1, <3>1 DEF SwapChainInv, ChainTypes
    <3>4. section'[Id(j)] \in S
      BY <2>2, <3>1
    <3> QED
      BY <3>1, <3>2, <3>3, <3>4, SMTT(30)
  <2> QED
    BY <1>1, <1>5, <1>ids, <2>2, <2>3 DEF SwapChainInv, ChainTypes, WriterFits
<1>6. CASE \E size \in Sizes : CreateResources(k, size)
  <2>1. PICK size \in Sizes : CreateResources(k, size)
    BY <1>6
  <2>2. size \in Nat
    BY SwapChainAssumption
  <2> DEFINE s == Opened(section[m], size)
  <2>3. s \in S /\ s.cap >= section[m].cap /\ size <= s.cap
    BY <1>mem, <2>1, <2>2, RingEffect DEF CreateResources
  <2>4. /\ writer' = [writer EXCEPT ![k] = size]
        /\ section' = [section EXCEPT ![m] = s]
        /\ UNCHANGED <<copy, frames>>
    BY <2>1 DEF CreateResources, UseView
  <2> HIDE DEF s
  <2>5. section' \in [Ids -> S]
    <3>1. section \in [Ids -> S]
      BY DEF SwapChainInv, ChainTypes
    <3> HIDE DEF S
    <3> QED
      BY <2>3, <2>4, <3>1
  <2>6. writer' \in [Chains -> Nat] /\ \A j \in Chains \ {k} : writer'[j] = writer[j]
    BY <2>2, <2>4 DEF SwapChainInv, ChainTypes
  <2>7. ASSUME NEW j \in Chains, writer'[j] > 0
        PROVE  writer'[j] <= section'[Id(j)].cap
    <3>1. CASE j = k
      <4>1. writer'[k] = size
        BY <2>4 DEF SwapChainInv, ChainTypes
      <4>2. section'[m] = s
        BY <1>2, <2>4 DEF SwapChainInv, ChainTypes
      <4> QED
        BY <2>3, <3>1, <4>1, <4>2
    <3>2. CASE j # k
      <4>1. writer'[j] = writer[j] /\ writer[j] \in Nat /\ writer[j] > 0
        BY <2>6, <2>7, <3>2 DEF SwapChainInv, ChainTypes
      <4>2. Id(j) \in Ids /\ section[Id(j)] \in S
        BY <1>2, <4>1 DEF SwapChainInv, ChainTypes
      <4>3. writer[j] <= section[Id(j)].cap
        BY <4>1 DEF SwapChainInv, WriterFits
      <4>4. section'[Id(j)].cap >= section[Id(j)].cap
        BY <1>2, <1>mem, <2>3, <2>4, <4>2 DEF SwapChainInv, ChainTypes
      <4>5. section'[Id(j)] \in S
        BY <2>5, <4>2
      <4> QED
        BY <4>1, <4>2, <4>3, <4>4, <4>5, SMTT(30)
    <3> QED
      BY <3>1, <3>2
  <2> QED
    BY <1>1, <1>ids, <2>4, <2>5, <2>6, <2>7 DEF SwapChainInv, ChainTypes, WriterFits
<1>7. CASE WriteFrame(k)
  <2> DEFINE s == WriteBegun(section[m])
  <2>1. s \in S /\ s.cap = section[m].cap
    BY <1>mem, RingEffect
  <2>2. s.cap >= section[m].cap
    BY <1>mem, <2>1
  <2>3. writer' = writer /\ section' = [section EXCEPT ![m] = s]
    BY <1>7 DEF WriteFrame
  <2>4. frames' = frames + 1
    BY <1>7 DEF WriteFrame
  <2>5. frames' \in Nat /\ copy' \in [Chains -> [seq : Nat, frame : Nat]]
    <3>1. copy' = [copy EXCEPT ![k] = [seq |-> section[m].seq, frame |-> frames + 1]]
      BY <1>7 DEF WriteFrame
    <3> QED
      BY <1>mem, <2>4, <3>1 DEF SwapChainInv, ChainTypes
  <2> HIDE DEF s
  <2> QED
    BY <1>5, <2>1, <2>2, <2>3, <2>5
<1>8. CASE FrameWritten(k)
  <2>5. PICK f \in Outcomes(k) : section' = [section EXCEPT ![m] = WriteStored(section[m], copy[k].seq, f)]
    BY <1>8 DEF FrameWritten
  <2>6. f \in Nat
    BY <1>mem, <2>5 DEF Outcomes, Torn
  <2> DEFINE s == WriteStored(section[m], copy[k].seq, f)
  <2>1. s \in S /\ s.cap = section[m].cap
    BY <1>mem, <2>6, RingEffect
  <2>2. s.cap >= section[m].cap
    BY <1>mem, <2>1
  <2>3. writer' = writer /\ section' = [section EXCEPT ![m] = s]
    BY <1>8, <2>5 DEF FrameWritten
  <2>4. frames' \in Nat /\ copy' \in [Chains -> [seq : Nat, frame : Nat]]
    BY <1>8 DEF FrameWritten, SwapChainInv, ChainTypes, NoCopy, Torn
  <2> HIDE DEF s
  <2> QED
    BY <1>5, <2>1, <2>2, <2>3, <2>4
<1>9. CASE AskRecording(k)
  BY <1>3, <1>4, <1>9 DEF AskRecording
<1>10. CASE DeleteChain(k)
  BY <1>4, <1>10 DEF DeleteChain
<1>11. CASE PrioritiseFails(k) \/ SetDevice(k) \/ NoFrame(k) \/ AcquireFrame(k) \/ AcquireFails(k)
  BY <1>3, <1>11 DEF PrioritiseFails, SetDevice, NoFrame, AcquireFrame, AcquireFails, shmVars
<1>12. CASE WaitOver(k) \/ CaptureSkips(k) \/ CopyFails(k) \/ SendFrame(k)
  BY <1>3, <1>12 DEF WaitOver, CaptureSkips, CopyFails, SendFrame, shmVars
<1> QED
  BY <1>6, <1>7, <1>8, <1>9, <1>10, <1>11, <1>12 DEF Thread
-----------------------------------------------------------------------------
(* The steps *)

LEMMA ThreadInv ==
  ASSUME SwapChainInv, NEW k \in Chains, Thread(k)
  PROVE  SwapChainInv'
<1>1. PICK to \in ThreadStates \ {"unused"} :
        /\ thread' = [thread EXCEPT ![k] = to]
        /\ \/ to # "done" /\ chain' = chain
           \/ to = "done" /\ chain' = [chain EXCEPT ![k] = "deleted"]
  BY ThreadEffect
<1>2. Running(k) /\ UNCHANGED <<owner, call, proc>>
  BY ThreadEffect
<1>3. owner[k] \in Monitors /\ proc[owner[k]] = k
  BY <1>2 DEF SwapChainInv, ChainTypes, UnownedInv, OneThread, Running
<1>4. /\ thread' \in [Chains -> ThreadStates] /\ thread'[k] # "unused"
      /\ \A j \in Chains \ {k} : thread'[j] = thread[j]
      /\ chain' \in [Chains -> {"unused", "held", "deleted"}]
      /\ \A j \in Chains \ {k} : chain'[j] = chain[j]
      /\ thread'[k] = "done" => chain'[k] = "deleted"
  BY <1>1 DEF SwapChainInv, ChainTypes
<1>5. ChainTypes'
  BY <1>2, <1>4, ThreadMemory DEF SwapChainInv, ChainTypes
<1>6. UnownedInv'
  BY <1>2, <1>3, <1>4, ThreadMemory DEF SwapChainInv, UnownedInv, ChainTypes, Running
<1>7. CallInv'
  BY <1>2, <1>4 DEF SwapChainInv, CallInv, ChainTypes, Running
<1>8. DoneInv'
  BY <1>4 DEF SwapChainInv, DoneInv
<1>9. OneThread'
  BY <1>2, <1>3, <1>4 DEF SwapChainInv, OneThread, Running
<1>10. ChainsGivenBack'
  <2>1. ASSUME NEW j \in Chains, chain'[j] = "held"
        PROVE  call[owner[j]].chain = j \/ proc[owner[j]] = j \/ thread'[j] = "failed"
    <3>1. CASE j = k
      BY <1>3, <3>1
    <3>2. CASE j # k
      BY <1>4, <2>1, <3>2 DEF SwapChainInv, ChainsGivenBack
    <3> QED
      BY <3>1, <3>2
  <2> QED
    BY <1>2, <2>1 DEF ChainsGivenBack
<1> QED
  BY <1>5, <1>6, <1>7, <1>8, <1>9, <1>10, ThreadMemory DEF SwapChainInv

LEMMA AssignInv ==
  ASSUME SwapChainInv, NEW m \in Monitors, NEW k \in Chains, AssignSwapChain(m, k)
  PROVE  SwapChainInv'
<1>1. /\ call[m].at = "idle" /\ owner[k] = None
      /\ owner' = [owner EXCEPT ![k] = m]
      /\ chain' = [chain EXCEPT ![k] = "held"]
      /\ UNCHANGED <<proc, thread, writer, copy, section, frames>>
  BY DEF AssignSwapChain, Idle, shmVars
<1>2. \E at \in {"join", "device"} :
        /\ call' = [call EXCEPT ![m] = [at |-> at, chain |-> k]]
        /\ at = "join" <=> proc[m] # None
  BY DEF AssignSwapChain, DropProcessor
<1>3. PICK at \in {"join", "device"} :
        /\ call' = [call EXCEPT ![m] = [at |-> at, chain |-> k]]
        /\ at = "join" <=> proc[m] # None
  BY <1>2
<1>4. k # None /\ m # None
  BY SwapChainAssumption
<1>5. /\ owner' \in [Chains -> Monitors \cup {None}] /\ owner'[k] = m
      /\ \A j \in Chains \ {k} : owner'[j] = owner[j]
  BY <1>1 DEF SwapChainInv, ChainTypes
<1>6. /\ call' \in [Monitors -> [at : {"idle", "join", "device"}, chain : Chains \cup {None}]]
      /\ call'[m].at = at /\ call'[m].chain = k
      /\ \A n \in Monitors \ {m} : call'[n] = call[n]
  BY <1>3 DEF SwapChainInv, ChainTypes
<1>7. /\ chain' \in [Chains -> {"unused", "held", "deleted"}]
      /\ \A j \in Chains \ {k} : chain'[j] = chain[j]
  BY <1>1 DEF SwapChainInv, ChainTypes
<1>8. thread[k] = "unused" /\ writer[k] = 0
  BY <1>1 DEF SwapChainInv, UnownedInv
<1>9. ChainTypes'
  BY <1>1, <1>5, <1>6, <1>7 DEF SwapChainInv, ChainTypes
<1>10. UnownedInv'
  BY <1>1, <1>4, <1>5, <1>7 DEF SwapChainInv, UnownedInv
<1>11. CallInv'
  <2>1. ASSUME NEW n \in Monitors
        PROVE  /\ proc[n] # None => owner'[proc[n]] = n
               /\ call'[n].at = "join" => proc[n] # None
               /\ call'[n].at = "device" => proc[n] = None /\ call'[n].chain # None
               /\ call'[n].at = "idle" => call'[n].chain = None
               /\ call'[n].chain # None => owner'[call'[n].chain] = n /\ thread[call'[n].chain] = "unused"
    <3>1. n # None
      BY SwapChainAssumption
    <3>2. proc[n] # None => proc[n] \in Chains \ {k} /\ owner'[proc[n]] = n
      BY <1>1, <1>5, <3>1 DEF SwapChainInv, CallInv, ChainTypes
    <3>3. CASE n = m
      BY <1>3, <1>4, <1>5, <1>6, <1>8, <3>2, <3>3
    <3>4. CASE n # m
      <4>1. call'[n] = call[n]
        BY <1>6, <3>4
      <4>2. call[n].chain # None => call[n].chain \in Chains \ {k}
        BY <1>1, <3>1 DEF SwapChainInv, CallInv, ChainTypes
      <4> QED
        BY <1>5, <3>2, <4>1, <4>2 DEF SwapChainInv, CallInv
    <3> QED
      BY <3>3, <3>4
  <2> QED
    BY <1>1, <2>1 DEF CallInv
<1>12. DoneInv'
  BY <1>1, <1>7, <1>8 DEF SwapChainInv, DoneInv
<1>13. OneThread'
  BY <1>1, <1>5, <1>8 DEF SwapChainInv, OneThread, Running
<1>14. WriterFits'
  <2>1. \A j \in Chains : writer[j] > 0 => Id(j)' = Id(j)
    BY <1>5, <1>8 DEF Id
  <2> QED
    BY <1>1, <2>1 DEF SwapChainInv, WriterFits
<1>15. ChainsGivenBack'
  <2>1. ASSUME NEW j \in Chains, chain'[j] = "held"
        PROVE  call'[owner'[j]].chain = j \/ proc[owner'[j]] = j \/ thread[j] = "failed"
    <3>1. CASE j = k
      BY <1>5, <1>6, <3>1
    <3>2. CASE j # k
      <4>1. owner'[j] = owner[j] /\ chain[j] = "held"
        BY <1>5, <1>7, <2>1, <3>2
      <4>2. owner[j] \in Monitors
        BY <4>1 DEF SwapChainInv, UnownedInv, ChainTypes
      <4>3. call[owner[j]].chain = j => owner[j] # m
        BY <1>1, SwapChainAssumption DEF SwapChainInv, CallInv
      <4>4. call[owner[j]].chain = j \/ proc[owner[j]] = j \/ thread[j] = "failed"
        BY <4>1 DEF SwapChainInv, ChainsGivenBack
      <4>5. owner[j] # m => call'[owner[j]] = call[owner[j]]
        BY <1>6, <4>2
      <4> QED
        BY <4>1, <4>3, <4>4, <4>5
    <3> QED
      BY <3>1, <3>2
  <2> QED
    BY <1>1, <2>1 DEF ChainsGivenBack
<1> QED
  BY <1>9, <1>10, <1>11, <1>12, <1>13, <1>14, <1>15 DEF SwapChainInv
LEMMA UnassignInv ==
  ASSUME SwapChainInv, NEW m \in Monitors, UnassignSwapChain(m)
  PROVE  SwapChainInv'
<1>1. /\ call[m].at = "idle" /\ proc[m] # None
      /\ call' = [call EXCEPT ![m] = [at |-> "join", chain |-> None]]
      /\ UNCHANGED <<owner, chain, proc, thread, writer, copy, section, frames>>
  BY DEF UnassignSwapChain, DropProcessor, Idle, shmVars
<1>2. call[m].chain = None
  BY <1>1 DEF SwapChainInv, CallInv
<1>3. /\ call' \in [Monitors -> [at : {"idle", "join", "device"}, chain : Chains \cup {None}]]
      /\ call'[m].at = "join" /\ call'[m].chain = None
      /\ \A n \in Monitors \ {m} : call'[n] = call[n]
  BY <1>1 DEF SwapChainInv, ChainTypes
<1>4. \A n \in Monitors : call'[n].chain = call[n].chain
  BY <1>2, <1>3
<1>5. ChainTypes'
  BY <1>1, <1>3 DEF SwapChainInv, ChainTypes
<1>6. UnownedInv' /\ DoneInv' /\ OneThread' /\ WriterFits'
  BY <1>1 DEF SwapChainInv, UnownedInv, DoneInv, OneThread, WriterFits, Id, Running
<1>7. CallInv'
  BY <1>1, <1>3 DEF SwapChainInv, CallInv
<1>8. ChainsGivenBack'
  <2>1. \A j \in Chains : chain[j] = "held" => owner[j] \in Monitors
    BY DEF SwapChainInv, ChainTypes, UnownedInv
  <2> QED
    BY <1>1, <1>4, <2>1 DEF SwapChainInv, ChainsGivenBack
<1> QED
  BY <1>5, <1>6, <1>7, <1>8 DEF SwapChainInv

LEMMA JoinedInv ==
  ASSUME SwapChainInv, NEW m \in Monitors, Joined(m)
  PROVE  SwapChainInv'
<1> DEFINE k == proc[m]
           at == IF call[m].chain = None THEN "idle" ELSE "device"
<1>1. /\ call[m].at = "join"
      /\ thread[k] \in {"done", "failed"}
      /\ proc' = [proc EXCEPT ![m] = None]
      /\ call' = [call EXCEPT ![m].at = at]
      /\ UNCHANGED <<owner, chain, thread, writer, copy, section, frames>>
  BY DEF Joined, threadVars, shmVars
<1>2. k \in Chains /\ owner[k] = m
  BY <1>1 DEF SwapChainInv, ChainTypes, CallInv
<1>3. /\ call' \in [Monitors -> [at : {"idle", "join", "device"}, chain : Chains \cup {None}]]
      /\ call'[m].at = at /\ call'[m].chain = call[m].chain
      /\ \A n \in Monitors \ {m} : call'[n] = call[n]
  BY <1>1 DEF SwapChainInv, ChainTypes
<1>4. /\ proc' \in [Monitors -> Chains \cup {None}]
      /\ proc'[m] = None
      /\ \A n \in Monitors \ {m} : proc'[n] = proc[n]
  BY <1>1 DEF SwapChainInv, ChainTypes
<1>5. ChainTypes'
  BY <1>1, <1>3, <1>4 DEF SwapChainInv, ChainTypes
<1>6. UnownedInv' /\ DoneInv' /\ WriterFits'
  BY <1>1 DEF SwapChainInv, UnownedInv, DoneInv, WriterFits, Id
<1>7. CallInv'
  BY <1>1, <1>3, <1>4 DEF SwapChainInv, CallInv
<1>8. OneThread'
  <2>1. ASSUME NEW j \in Chains, Running(j)
        PROVE  proc'[owner[j]] = j
    <3>1. proc[owner[j]] = j /\ owner[j] \in Monitors
      BY <2>1 DEF SwapChainInv, OneThread, UnownedInv, ChainTypes, Running
    <3>2. j # k
      BY <1>1, <2>1 DEF Running
    <3> QED
      BY <1>4, <3>1, <3>2
  <2> QED
    BY <1>1, <2>1 DEF OneThread, Running
<1>9. ChainsGivenBack'
  <2>1. ASSUME NEW j \in Chains, chain[j] = "held"
        PROVE  call'[owner[j]].chain = j \/ proc'[owner[j]] = j \/ thread[j] = "failed"
    <3>1. owner[j] \in Monitors
      BY <2>1 DEF SwapChainInv, ChainTypes, UnownedInv
    <3>2. call[owner[j]].chain = j \/ proc[owner[j]] = j \/ thread[j] = "failed"
      BY <2>1 DEF SwapChainInv, ChainsGivenBack
    <3>3. j = k => thread[j] = "failed"
      BY <1>1, <2>1 DEF SwapChainInv, DoneInv
    <3>4. call'[owner[j]].chain = call[owner[j]].chain
      BY <1>3, <3>1
    <3>5. proc[owner[j]] = j => j = k \/ proc'[owner[j]] = j
      BY <1>4, <3>1
    <3> QED
      BY <3>2, <3>3, <3>4, <3>5
  <2> QED
    BY <1>1, <2>1 DEF ChainsGivenBack
<1> QED
  BY <1>5, <1>6, <1>7, <1>8, <1>9 DEF SwapChainInv

\* The device was made, or not: in either case the callback ends.
LEMMA DeviceInv ==
  ASSUME SwapChainInv, NEW m \in Monitors, DeviceReady(m) \/ DeviceFails(m)
  PROVE  SwapChainInv'
<1> DEFINE k == call[m].chain
<1>1. /\ call[m].at = "device"
      /\ call' = [call EXCEPT ![m] = [at |-> "idle", chain |-> None]]
      /\ UNCHANGED <<owner, writer, copy, section, frames>>
  BY DEF DeviceReady, DeviceFails, Idle, shmVars, threadVars
<1>2. k \in Chains /\ owner[k] = m /\ thread[k] = "unused" /\ proc[m] = None /\ k # None
  BY <1>1 DEF SwapChainInv, ChainTypes, CallInv
<1>3. /\ call' \in [Monitors -> [at : {"idle", "join", "device"}, chain : Chains \cup {None}]]
      /\ call'[m].at = "idle" /\ call'[m].chain = None
      /\ \A n \in Monitors \ {m} : call'[n] = call[n]
  BY <1>1 DEF SwapChainInv, ChainTypes
<1>4. WriterFits'
  BY <1>1 DEF SwapChainInv, WriterFits, Id
<1>5. \A j \in Chains : chain[j] = "held" =>
        /\ owner[j] \in Monitors
        /\ call[owner[j]].chain = j \/ proc[owner[j]] = j \/ thread[j] = "failed"
  BY DEF SwapChainInv, ChainTypes, UnownedInv, ChainsGivenBack
<1>6. m \in Monitors /\ m # None
  BY SwapChainAssumption
<1>7. CASE DeviceReady(m)
  <2>1. /\ thread' = [thread EXCEPT ![k] = "start"]
        /\ proc' = [proc EXCEPT ![m] = k]
        /\ chain' = chain
    BY <1>7 DEF DeviceReady, Goto
  <2>2. /\ thread' \in [Chains -> ThreadStates] /\ thread'[k] = "start"
        /\ \A j \in Chains \ {k} : thread'[j] = thread[j]
    <3>1. "start" \in ThreadStates
      BY DEF ThreadStates
    <3> QED
      BY <1>2, <2>1, <3>1 DEF SwapChainInv, ChainTypes
  <2>3. /\ proc' \in [Monitors -> Chains \cup {None}] /\ proc'[m] = k
        /\ \A n \in Monitors \ {m} : proc'[n] = proc[n]
    BY <1>2, <2>1 DEF SwapChainInv, ChainTypes
  <2>4. ChainTypes'
    BY <1>1, <1>3, <2>1, <2>2, <2>3 DEF SwapChainInv, ChainTypes
  <2>5. UnownedInv'
    BY <1>1, <1>2, <1>6, <2>1, <2>2 DEF SwapChainInv, UnownedInv
  <2>6. DoneInv'
    BY <2>1, <2>2 DEF SwapChainInv, DoneInv
  <2>7. CallInv'
    <3>1. ASSUME NEW n \in Monitors
          PROVE  /\ proc'[n] # None => owner[proc'[n]] = n
                 /\ call'[n].at = "join" => proc'[n] # None
                 /\ call'[n].at = "device" => proc'[n] = None /\ call'[n].chain # None
                 /\ call'[n].at = "idle" => call'[n].chain = None
                 /\ call'[n].chain # None => owner[call'[n].chain] = n /\ thread'[call'[n].chain] = "unused"
      <4>1. CASE n = m
        BY <1>2, <1>3, <2>3, <4>1
      <4>2. CASE n # m
        <5>1. call'[n] = call[n] /\ proc'[n] = proc[n]
          BY <1>3, <2>3, <4>2
        <5>2. call[n].chain # None => call[n].chain \in Chains \ {k}
          BY <1>2, <4>2 DEF SwapChainInv, CallInv, ChainTypes
        <5> QED
          BY <2>2, <5>1, <5>2 DEF SwapChainInv, CallInv
      <4> QED
        BY <4>1, <4>2
    <3> QED
      BY <1>1, <3>1 DEF CallInv
  <2>8. OneThread'
    <3>1. ASSUME NEW j \in Chains, thread'[j] \notin {"unused", "done", "failed"}
          PROVE  proc'[owner[j]] = j
      <4>1. CASE j = k
        BY <1>2, <2>3, <4>1
      <4>2. CASE j # k
        <5>1. proc[owner[j]] = j /\ owner[j] \in Monitors
          BY <2>2, <3>1, <4>2 DEF SwapChainInv, OneThread, UnownedInv, ChainTypes, Running
        <5>2. owner[j] # m
          BY <1>2, <5>1, SwapChainAssumption
        <5> QED
          BY <2>3, <5>1, <5>2
      <4> QED
        BY <4>1, <4>2
    <3> QED
      BY <1>1, <3>1 DEF OneThread, Running
  <2>9. ChainsGivenBack'
    <3>1. ASSUME NEW j \in Chains, chain[j] = "held"
          PROVE  call'[owner[j]].chain = j \/ proc'[owner[j]] = j \/ thread'[j] = "failed"
      <4>1. CASE j = k
        BY <1>2, <2>3, <4>1
      <4>2. CASE j # k
        <5>1. owner[j] = m => thread[j] = "failed"
          BY <1>2, <1>5, <3>1, <4>2, SwapChainAssumption
        <5>2. owner[j] # m => call'[owner[j]] = call[owner[j]] /\ proc'[owner[j]] = proc[owner[j]]
          BY <1>3, <1>5, <2>3, <3>1
        <5> QED
          BY <1>5, <2>2, <3>1, <4>2, <5>1, <5>2
      <4> QED
        BY <4>1, <4>2
    <3> QED
      BY <1>1, <2>1, <3>1 DEF ChainsGivenBack
  <2> QED
    BY <1>4, <2>4, <2>5, <2>6, <2>7, <2>8, <2>9 DEF SwapChainInv
<1>8. CASE DeviceFails(m)
  <2>1. chain' = [chain EXCEPT ![k] = "deleted"] /\ UNCHANGED <<proc, thread>>
    BY <1>8 DEF DeviceFails, threadVars
  <2>2. /\ chain' \in [Chains -> {"unused", "held", "deleted"}] /\ chain'[k] = "deleted"
        /\ \A j \in Chains \ {k} : chain'[j] = chain[j]
    BY <1>2, <2>1 DEF SwapChainInv, ChainTypes
  <2>3. ChainTypes'
    BY <1>1, <1>3, <2>1, <2>2 DEF SwapChainInv, ChainTypes
  <2>4. UnownedInv' /\ DoneInv' /\ OneThread'
    BY <1>1, <1>2, <1>6, <2>1, <2>2 DEF SwapChainInv, UnownedInv, DoneInv, OneThread, Running
  <2>5. CallInv'
    BY <1>1, <1>3, <2>1 DEF SwapChainInv, CallInv
  <2>6. ChainsGivenBack'
    <3>1. ASSUME NEW j \in Chains, chain'[j] = "held"
          PROVE  call'[owner[j]].chain = j \/ proc[owner[j]] = j \/ thread[j] = "failed"
      <4>1. j # k /\ chain[j] = "held"
        BY <2>2, <3>1
      <4>2. owner[j] = m => thread[j] = "failed"
        BY <1>2, <1>5, <4>1, SwapChainAssumption
      <4>3. owner[j] # m => call'[owner[j]] = call[owner[j]]
        BY <1>3, <1>5, <4>1
      <4> QED
        BY <1>5, <4>1, <4>2, <4>3
    <3> QED
      BY <1>1, <2>1, <3>1 DEF ChainsGivenBack
  <2> QED
    BY <1>4, <2>3, <2>4, <2>5, <2>6 DEF SwapChainInv
<1> QED
  BY <1>7, <1>8

\* A reader that ends closes the section only when no thread has it open.
LEMMA ReaderInv ==
  ASSUME SwapChainInv, NEW i \in Ids, Reader(i)
  PROVE  SwapChainInv'
<1> DEFINE S == [cap : Nat, size : Nat, seq : Nat, slot : [0 .. Slots - 1 -> Nat]]
<1>1. UNCHANGED <<owner, chain, call, proc, thread, writer, copy, frames>>
  BY DEF Reader, BeginRead, EndRead, osVars, threadVars
<1>2. section' \in [Ids -> S]
  <2>1. NoSection \in S
    BY SlotsAssumption DEF NoSection, Blank, Torn
  <2>2. section \in [Ids -> S]
    BY DEF SwapChainInv, ChainTypes
  <2> HIDE DEF S
  <2> QED
    BY <2>1, <2>2 DEF Reader, BeginRead, EndRead
<1>3. \A k \in Chains : writer[k] > 0 => section'[Id(k)] = section[Id(k)]
  <2>1. CASE BeginRead(i)
    BY <2>1 DEF BeginRead
  <2>2. CASE EndRead(i)
    <3>1. section' = [section EXCEPT ![i] = IF \E k \in Chains : writer[k] > 0 /\ Id(k) = i
                                            THEN section[i] ELSE NoSection]
      BY <2>2 DEF EndRead
    <3>2. \A k \in Chains : writer[k] > 0 => Id(k) \in Ids
      BY SwapChainAssumption DEF SwapChainInv, ChainTypes, UnownedInv, Id
    <3> QED
      BY <3>1, <3>2 DEF SwapChainInv, ChainTypes
  <2> QED
    BY <2>1, <2>2 DEF Reader
<1>4. WriterFits'
  BY <1>1, <1>3 DEF SwapChainInv, WriterFits, Id
<1>5. ChainTypes'
  BY <1>1, <1>2 DEF SwapChainInv, ChainTypes
<1>6. UnownedInv' /\ CallInv' /\ DoneInv' /\ OneThread' /\ ChainsGivenBack'
  BY <1>1 DEF SwapChainInv, UnownedInv, CallInv, DoneInv, OneThread, ChainsGivenBack, Running
<1> QED
  BY <1>4, <1>5, <1>6 DEF SwapChainInv

\* The pipe handlers disturb none of it.
LEMMA QuietInv ==
  ASSUME SwapChainInv, UNCHANGED <<osVars, threadVars, shmVars>>
  PROVE  SwapChainInv'
BY DEF osVars, threadVars, shmVars, SwapChainInv, ChainTypes, UnownedInv, CallInv, DoneInv,
       OneThread, WriterFits, ChainsGivenBack, Id, Running

LEMMA HandlerQuiet ==
  ASSUME NEW c \in Clients, Handler(c)
  PROVE  UNCHANGED <<osVars, threadVars, shmVars>>
<1>1. ASSUME NEW ms, StartRecording(c, ms) PROVE UNCHANGED <<osVars, threadVars, shmVars>>
  BY <1>1 DEF StartRecording
<1>2. ASSUME NEW m, Arrive(c, m) \/ Depart(c, m) \/ DepartureFails(c, m)
      PROVE  UNCHANGED <<osVars, threadVars, shmVars>>
  BY <1>2 DEF Arrive, Depart, DepartureFails
<1>3. CASE RecordingStarted(c) \/ StopRecording(c) \/ QueryRecording(c) \/ ListShmNames(c) \/ Departed(c)
  BY <1>3 DEF RecordingStarted, StopRecording, QueryRecording, ListShmNames, Departed
<1> QED
  BY <1>1, <1>2, <1>3 DEF Handler
-----------------------------------------------------------------------------
LEMMA SwapChainInit == Init => SwapChainInv
<1> SUFFICES ASSUME Init PROVE SwapChainInv
  OBVIOUS
<1>1. NoSection \in [cap : Nat, size : Nat, seq : Nat, slot : [0 .. Slots - 1 -> Nat]]
  BY SlotsAssumption DEF NoSection, Blank, Torn
<1>2. ChainTypes
  BY <1>1 DEF Init, ChainTypes, Idle, ThreadStates, NoCopy, Torn
<1>3. UnownedInv /\ DoneInv /\ OneThread /\ WriterFits /\ ChainsGivenBack
  BY DEF Init, UnownedInv, DoneInv, OneThread, WriterFits, ChainsGivenBack, Running
<1>4. CallInv
  BY DEF Init, CallInv, Idle
<1> QED
  BY <1>2, <1>3, <1>4 DEF SwapChainInv

LEMMA SwapChainStep ==
  ASSUME SwapChainInv, [Next]_vars
  PROVE  SwapChainInv'
<1>1. ASSUME NEW m \in Monitors, Callback(m) PROVE SwapChainInv'
  BY <1>1, AssignInv, UnassignInv, JoinedInv, DeviceInv DEF Callback
<1>2. ASSUME NEW i \in Ids, Reader(i) PROVE SwapChainInv'
  BY <1>2, ReaderInv
<1>3. ASSUME NEW k \in Chains, Thread(k) PROVE SwapChainInv'
  BY <1>3, ThreadInv
<1>4. ASSUME NEW c \in Clients, Handler(c) PROVE SwapChainInv'
  BY <1>4, HandlerQuiet, QuietInv
<1>5. CASE UNCHANGED vars
  BY <1>5, QuietInv DEF vars, osVars, threadVars, shmVars
<1> QED
  BY <1>1, <1>2, <1>3, <1>4, <1>5 DEF Next

THEOREM SwapChainInvariant == Spec => []SwapChainInv
BY SwapChainInit, SwapChainStep, PTL DEF Spec

-----------------------------------------------------------------------------
(* Monitors that were plugged in for one id *)

Settled(m) == proc[m] = None /\ call[m] = Idle

\* A thread has a section open from its first frame to its end only.
OpenInv ==
  \A k \in Chains : writer[k] > 0 => thread[k] \notin {"unused", "start", "done", "failed"}

\* When a departure waits and none is in progress, what it waited for has come.
GoneInv ==
  DepartureWaits /\ modesLock = None => \A m \in Monitors : plug[m] = "gone" => Settled(m)

\* Of two monitors with one id that were plugged in and whose departure did not fail, one is
\* gone, and if its departure waited it has no thread any more.
PairInv ==
  \A m, n \in Monitors :
    m # n /\ IdOf[m] = IdOf[n] /\ {plug[m], plug[n]} \subseteq {"in", "gone"} =>
      \E x \in {m, n} : plug[x] = "gone" /\ (DepartureWaits => Settled(x))

PlugInv ==
  /\ plug \in [Monitors -> {"new", "in", "gone", "lost"}]
  /\ \A k \in Chains : owner[k] # None => plug[owner[k]] # "new"
  /\ OpenInv
  /\ GoneInv
  /\ PairInv

\* A monitor that is gone gets no swap chain any more.
LEMMA GoneStays ==
  ASSUME SwapChainInv, PlugInv, [Next]_vars,
         NEW m \in Monitors, plug[m] = "gone", Settled(m)
  PROVE  Settled(m)'
<1>1. call[m].at = "idle" /\ proc[m] = None
  BY DEF Settled, Idle
<1>2. ASSUME NEW n \in Monitors, Callback(n) PROVE Settled(m)'
  <2>1. n # m
    BY <1>1, <1>2 DEF Callback, AssignSwapChain, UnassignSwapChain, Joined, DeviceReady, DeviceFails
  <2>2. call'[m] = call[m]
    <3>1. CASE UnassignSwapChain(n) \/ \E k \in Chains : AssignSwapChain(n, k)
      BY <2>1, <3>1 DEF UnassignSwapChain, AssignSwapChain, DropProcessor, SwapChainInv, ChainTypes
    <3>2. CASE Joined(n) \/ DeviceReady(n) \/ DeviceFails(n)
      BY <2>1, <3>2 DEF Joined, DeviceReady, DeviceFails, SwapChainInv, ChainTypes
    <3> QED
      BY <1>2, <3>1, <3>2 DEF Callback
  <2>3. proc'[m] = proc[m]
    <3>1. CASE UnassignSwapChain(n) \/ \E k \in Chains : AssignSwapChain(n, k)
      BY <3>1 DEF UnassignSwapChain, AssignSwapChain
    <3>2. CASE Joined(n) \/ DeviceReady(n) \/ DeviceFails(n)
      BY <2>1, <3>2 DEF Joined, DeviceReady, DeviceFails, SwapChainInv, ChainTypes
    <3> QED
      BY <1>2, <3>1, <3>2 DEF Callback
  <2> QED
    BY <2>2, <2>3 DEF Settled
<1>3. ASSUME NEW i \in Ids, Reader(i) PROVE Settled(m)'
  BY <1>3 DEF Reader, BeginRead, EndRead, osVars, Settled
<1>4. ASSUME NEW k \in Chains, Thread(k) PROVE Settled(m)'
  BY <1>4, ThreadEffect DEF Settled
<1>5. ASSUME NEW c \in Clients, Handler(c) PROVE Settled(m)'
  BY <1>5, HandlerQuiet DEF osVars, Settled
<1>6. CASE UNCHANGED vars
  BY <1>6 DEF vars, Settled
<1> QED
  BY <1>2, <1>3, <1>4, <1>5, <1>6 DEF Next

\* A step that plugs nothing in and out keeps what holds of monitors with one id.
LEMMA PlugKept ==
  ASSUME SwapChainInv, PlugInv, [Next]_vars, UNCHANGED <<plug, modesLock>>
  PROVE  plug' \in [Monitors -> {"new", "in", "gone", "lost"}] /\ GoneInv' /\ PairInv'
<1>1. \A m \in Monitors : plug[m] = "gone" /\ Settled(m) => Settled(m)'
  BY GoneStays
<1>2. GoneInv'
  BY <1>1 DEF PlugInv, GoneInv
<1>3. PairInv'
  BY <1>1 DEF PlugInv, PairInv
<1> QED
  BY <1>2, <1>3 DEF PlugInv

\* No step opens a section for a thread that does not run, or ends one that has it open.
LEMMA OpenKept ==
  ASSUME SwapChainInv, OpenInv, [Next]_vars
  PROVE  OpenInv'
<1>1. ASSUME NEW m \in Monitors, Callback(m) PROVE OpenInv'
  <2>1. CASE DeviceReady(m)
    <3>1. call[m].chain \in Chains /\ thread[call[m].chain] = "unused"
      BY <2>1 DEF DeviceReady, SwapChainInv, CallInv, ChainTypes
    <3>2. writer' = writer /\ \A k \in Chains \ {call[m].chain} : thread'[k] = thread[k]
      BY <2>1 DEF DeviceReady, Goto, SwapChainInv, ChainTypes
    <3> QED
      BY <3>1, <3>2 DEF OpenInv
  <2>2. CASE Joined(m) \/ DeviceFails(m)
    BY <2>2 DEF Joined, DeviceFails, threadVars, OpenInv
  <2>3. CASE UnassignSwapChain(m) \/ \E k \in Chains : AssignSwapChain(m, k)
    BY <2>3 DEF UnassignSwapChain, AssignSwapChain, OpenInv
  <2> QED
    BY <1>1, <2>1, <2>2, <2>3 DEF Callback
<1>2. ASSUME NEW i \in Ids, Reader(i) PROVE OpenInv'
  BY <1>2 DEF Reader, BeginRead, EndRead, threadVars, OpenInv
<1>3. ASSUME NEW k \in Chains, Thread(k) PROVE OpenInv'
  <2>1. \A j \in Chains \ {k} : thread'[j] = thread[j] /\ writer'[j] = writer[j]
    BY <1>3, ThreadEffect, ThreadMemory DEF SwapChainInv, ChainTypes
  <2>2. thread[k] = "start" => writer[k] = 0
    BY DEF OpenInv, SwapChainInv, ChainTypes
  <2>3. writer'[k] > 0 => thread'[k] \notin {"unused", "start", "done", "failed"}
    <3>1. CASE PrioritiseFails(k) \/ SetDevice(k)
      BY <2>2, <3>1 DEF PrioritiseFails, SetDevice, ThreadStep
    <3>2. CASE NoFrame(k) \/ AcquireFrame(k) \/ AcquireFails(k) \/ WaitOver(k)
      BY <3>2 DEF NoFrame, AcquireFrame, AcquireFails, WaitOver, ThreadStep, Goto, SwapChainInv, ChainTypes
    <3>3. CASE AskRecording(k)
      BY <3>3 DEF AskRecording, Goto, SwapChainInv, ChainTypes
    <3>4. CASE CaptureSkips(k) \/ CopyFails(k) \/ SendFrame(k)
      BY <3>4 DEF CaptureSkips, CopyFails, SendFrame, ThreadStep, Goto, SwapChainInv, ChainTypes
    <3>5. CASE \E size \in Sizes : CreateResources(k, size)
      BY <3>5 DEF CreateResources, UseView, Goto, SwapChainInv, ChainTypes
    <3>6. CASE WriteFrame(k) \/ FrameWritten(k)
      BY <3>6 DEF WriteFrame, FrameWritten, ThreadStep, Goto, SwapChainInv, ChainTypes
    <3>7. CASE DeleteChain(k)
      <4>1. writer'[k] = 0
        BY <3>7 DEF DeleteChain, CloseWriter, SwapChainInv, ChainTypes
      <4> QED
        BY <4>1
    <3> QED
      BY <1>3, <3>1, <3>2, <3>3, <3>4, <3>5, <3>6, <3>7 DEF Thread
  <2> QED
    BY <2>1, <2>3 DEF OpenInv
<1>4. ASSUME NEW c \in Clients, Handler(c) PROVE OpenInv'
  BY <1>4, HandlerQuiet DEF threadVars, OpenInv
<1>5. CASE UNCHANGED vars
  BY <1>5 DEF vars, OpenInv
<1> QED
  BY <1>1, <1>2, <1>3, <1>4, <1>5 DEF Next

\* Plugging in waits until no departure is in progress; a departure leaves a monitor that is
\* no longer plugged in, so that of two with one id it is never both.
LEMMA HandlerPlug ==
  ASSUME SwapChainInv, PlugInv, NEW c \in Clients, Handler(c), OpenInv'
  PROVE  PlugInv'
<1>1. UNCHANGED <<owner, proc, call>>
  BY HandlerQuiet DEF osVars
<1>2. \A m \in Monitors : Settled(m)' <=> Settled(m)
  BY <1>1 DEF Settled
<1>3. c # None
  BY SwapChainAssumption
<1>4. CASE UNCHANGED <<plug, modesLock>>
  BY <1>1, <1>2, <1>4 DEF PlugInv, GoneInv, PairInv
<1>5. ASSUME NEW m \in Monitors, Arrive(c, m) PROVE PlugInv'
  <2>1. /\ modesLock = None /\ modesLock' = None /\ plug[m] = "new"
        /\ \A n \in Monitors : IdOf[n] = IdOf[m] => plug[n] # "in"
        /\ plug' = [plug EXCEPT ![m] = "in"]
    BY <1>5 DEF Arrive
  <2>2. plug' \in [Monitors -> {"new", "in", "gone", "lost"}] /\ plug'[m] = "in"
        /\ \A n \in Monitors \ {m} : plug'[n] = plug[n]
    BY <2>1 DEF PlugInv
  <2>3. \A k \in Chains : owner[k] # None => plug'[owner[k]] # "new"
    BY <2>1 DEF PlugInv, SwapChainInv, ChainTypes
  <2>4. GoneInv'
    BY <1>2, <2>1, <2>2 DEF PlugInv, GoneInv
  <2>5. ASSUME NEW a \in Monitors, NEW b \in Monitors, a # b, IdOf[a] = IdOf[b],
               {plug'[a], plug'[b]} \subseteq {"in", "gone"}
        PROVE  \E x \in {a, b} : plug'[x] = "gone" /\ (DepartureWaits => Settled(x))
    <3>1. CASE a = m
      <4>1. plug[b] = "gone" /\ plug'[b] = "gone"
        BY <2>1, <2>2, <2>5, <3>1
      <4> QED
        BY <2>1, <4>1 DEF PlugInv, GoneInv
    <3>2. CASE b = m
      <4>1. plug[a] = "gone" /\ plug'[a] = "gone"
        BY <2>1, <2>2, <2>5, <3>2
      <4> QED
        BY <2>1, <4>1 DEF PlugInv, GoneInv
    <3>3. CASE a # m /\ b # m
      BY <2>2, <2>5, <3>3 DEF PlugInv, PairInv
    <3> QED
      BY <3>1, <3>2, <3>3
  <2>6. PairInv'
    BY <1>2, <2>5 DEF PairInv
  <2> QED
    BY <1>1, <2>2, <2>3, <2>4, <2>6 DEF PlugInv
<1>6. ASSUME NEW m \in Monitors, Depart(c, m) PROVE PlugInv'
  <2>1. /\ modesLock' = c /\ plug[m] = "in"
        /\ plug' = [plug EXCEPT ![m] = "gone"]
    BY <1>6 DEF Depart
  <2>2. plug' \in [Monitors -> {"new", "in", "gone", "lost"}] /\ plug'[m] = "gone"
        /\ \A n \in Monitors \ {m} : plug'[n] = plug[n]
    BY <2>1 DEF PlugInv
  <2>3. \A k \in Chains : owner[k] # None => plug'[owner[k]] # "new"
    BY <2>1 DEF PlugInv, SwapChainInv, ChainTypes
  <2>4. GoneInv'
    BY <1>3, <2>1 DEF GoneInv
  <2>5. ASSUME NEW a \in Monitors, NEW b \in Monitors, a # b, IdOf[a] = IdOf[b],
               {plug'[a], plug'[b]} \subseteq {"in", "gone"}
        PROVE  \E x \in {a, b} : plug'[x] = "gone" /\ (DepartureWaits => Settled(x))
    <3>1. {plug[a], plug[b]} \subseteq {"in", "gone"}
      BY <2>1, <2>2, <2>5
    <3>2. PICK x \in {a, b} : plug[x] = "gone" /\ (DepartureWaits => Settled(x))
      BY <2>5, <3>1 DEF PlugInv, PairInv
    <3>3. plug'[x] = "gone"
      BY <2>1, <2>2, <3>2
    <3> QED
      BY <3>2, <3>3
  <2>6. PairInv'
    BY <1>2, <2>5 DEF PairInv
  <2> QED
    BY <1>1, <2>2, <2>3, <2>4, <2>6 DEF PlugInv
<1>7. ASSUME NEW m \in Monitors, DepartureFails(c, m) PROVE PlugInv'
  <2>1. modesLock' = modesLock /\ plug' = [plug EXCEPT ![m] = "lost"]
    BY <1>7 DEF DepartureFails
  <2>2. plug' \in [Monitors -> {"new", "in", "gone", "lost"}] /\ plug'[m] = "lost"
        /\ \A n \in Monitors \ {m} : plug'[n] = plug[n]
    BY <2>1 DEF PlugInv
  <2>3. \A k \in Chains : owner[k] # None => plug'[owner[k]] # "new"
    BY <2>1 DEF PlugInv, SwapChainInv, ChainTypes
  <2>4. GoneInv'
    BY <1>2, <2>1, <2>2 DEF PlugInv, GoneInv
  <2>5. ASSUME NEW a \in Monitors, NEW b \in Monitors, a # b, IdOf[a] = IdOf[b],
               {plug'[a], plug'[b]} \subseteq {"in", "gone"}
        PROVE  \E x \in {a, b} : plug'[x] = "gone" /\ (DepartureWaits => Settled(x))
    <3>1. a # m /\ b # m
      BY <2>2, <2>5
    <3> QED
      BY <2>2, <2>5, <3>1 DEF PlugInv, PairInv
  <2>6. PairInv'
    BY <1>2, <2>5 DEF PairInv
  <2> QED
    BY <1>1, <2>2, <2>3, <2>4, <2>6 DEF PlugInv
<1>8. CASE Departed(c)
  <2>1. plug' = plug /\ (DepartureWaits => Unassigned)
    BY <1>8 DEF Departed
  <2>2. GoneInv'
    BY <1>2, <2>1 DEF GoneInv, Unassigned, Settled
  <2>3. PairInv'
    BY <1>2, <2>1 DEF PlugInv, PairInv
  <2> QED
    BY <1>1, <2>1, <2>2, <2>3 DEF PlugInv
<1>9. CASE RecordingStarted(c) \/ StopRecording(c) \/ QueryRecording(c) \/ ListShmNames(c)
  BY <1>4, <1>9 DEF RecordingStarted, StopRecording, QueryRecording, ListShmNames
<1>10. ASSUME NEW ids, StartRecording(c, ids) PROVE PlugInv'
  BY <1>4, <1>10 DEF StartRecording
<1> QED
  BY <1>5, <1>6, <1>7, <1>8, <1>9, <1>10 DEF Handler

LEMMA PlugStep ==
  ASSUME SwapChainInv, PlugInv, [Next]_vars
  PROVE  PlugInv'
<1>1. OpenInv'
  BY OpenKept DEF PlugInv
<1>2. ASSUME UNCHANGED <<plug, modesLock>>,
             \A k \in Chains : owner'[k] # None => plug[owner'[k]] # "new"
      PROVE  PlugInv'
  BY <1>1, <1>2, PlugKept DEF PlugInv
<1>3. ASSUME NEW m \in Monitors, Callback(m) PROVE PlugInv'
  <2>1. UNCHANGED <<plug, modesLock>>
    BY <1>3 DEF Callback, AssignSwapChain, UnassignSwapChain, Joined, DeviceReady, DeviceFails, lockVars
  <2>2. owner' = owner \/ (plug[m] # "new" /\ \E k \in Chains : owner' = [owner EXCEPT ![k] = m])
    BY <1>3 DEF Callback, AssignSwapChain, UnassignSwapChain, Joined, DeviceReady, DeviceFails
  <2>3. \A k \in Chains : owner'[k] # None => plug[owner'[k]] # "new"
    BY <2>2 DEF PlugInv, SwapChainInv, ChainTypes
  <2> QED
    BY <1>2, <2>1, <2>3
<1>4. ASSUME NEW i \in Ids, Reader(i) PROVE PlugInv'
  <2>1. UNCHANGED <<plug, modesLock, owner>>
    BY <1>4 DEF Reader, BeginRead, EndRead, osVars, lockVars
  <2> QED
    BY <1>2, <2>1 DEF PlugInv
<1>5. ASSUME NEW k \in Chains, Thread(k) PROVE PlugInv'
  <2>1. UNCHANGED lockVars
    <3>1. CASE PrioritiseFails(k) \/ SetDevice(k) \/ NoFrame(k) \/ AcquireFrame(k) \/ AcquireFails(k)
      BY <3>1 DEF PrioritiseFails, SetDevice, NoFrame, AcquireFrame, AcquireFails
    <3>2. CASE WaitOver(k) \/ CaptureSkips(k) \/ CopyFails(k) \/ SendFrame(k)
      BY <3>2 DEF WaitOver, CaptureSkips, CopyFails, SendFrame
    <3>3. CASE AskRecording(k) \/ DeleteChain(k) \/ \E size \in Sizes : CreateResources(k, size)
      BY <3>3 DEF AskRecording, DeleteChain, CreateResources, UseView
    <3>4. CASE WriteFrame(k) \/ FrameWritten(k)
      BY <3>4 DEF WriteFrame, FrameWritten
    <3> QED
      BY <1>5, <3>1, <3>2, <3>3, <3>4 DEF Thread
  <2>2. UNCHANGED <<plug, modesLock, owner>>
    BY <1>5, <2>1, ThreadEffect DEF lockVars
  <2> QED
    BY <1>2, <2>2 DEF PlugInv
<1>6. ASSUME NEW c \in Clients, Handler(c) PROVE PlugInv'
  BY <1>1, <1>6, HandlerPlug
<1>7. CASE UNCHANGED vars
  BY <1>2, <1>7 DEF vars, PlugInv
<1> QED
  BY <1>3, <1>4, <1>5, <1>6, <1>7 DEF Next

LEMMA PlugInvariant == Spec => []PlugInv
<1>1. Init => PlugInv
  BY DEF Init, PlugInv, OpenInv, GoneInv, PairInv
<1> QED
  BY <1>1, PlugStep, SwapChainInvariant, PTL DEF Spec

\* Two threads with one section open serve two monitors of one id, neither of which is settled.
LEMMA SharersLetGo ==
  ASSUME SwapChainInv, PlugInv, NEW j \in Chains, NEW k \in Chains, Share(j, k)
  PROVE  owner[j] \in LetGo \/ owner[k] \in LetGo
<1> DEFINE m == owner[j]
           n == owner[k]
<1>1. Running(j) /\ Running(k)
  BY DEF Share, PlugInv, OpenInv, Running
<1>2. proc[m] = j /\ proc[n] = k /\ m \in Monitors /\ n \in Monitors
  BY <1>1 DEF SwapChainInv, OneThread, UnownedInv, ChainTypes, Running
<1>3. m # n /\ IdOf[m] = IdOf[n]
  BY <1>2 DEF Share, Id
<1>4. ~Settled(m) /\ ~Settled(n)
  BY <1>2, SwapChainAssumption DEF Settled
<1>5. plug[m] \in {"in", "gone", "lost"} /\ plug[n] \in {"in", "gone", "lost"}
  <2>1. m # None /\ n # None
    BY <1>2, SwapChainAssumption
  <2> QED
    BY <1>2, <2>1 DEF PlugInv
<1>6. ~DepartureWaits \/ plug[m] = "lost" \/ plug[n] = "lost"
  BY <1>2, <1>3, <1>4, <1>5 DEF PlugInv, PairInv
<1>7. ~DepartureWaits => plug[m] # "in" \/ plug[n] # "in"
  BY <1>2, <1>3 DEF PlugInv, PairInv
<1> QED
  BY <1>2, <1>5, <1>6, <1>7 DEF LetGo

\* Whatever the system assigns and unassigns, the thread of the processor in a monitor's
\* context is the only one that runs for the monitor (swap_chain_processor.rs:68 and 286); and
\* only one thread writes a section, though its id is plugged in again and again, unless a
\* monitor's departure failed or did not wait for its thread (ipc.rs:661 to 738).
THEOREM OneWriterEver == Spec => []OneWriter
<1>1. SwapChainInv /\ PlugInv => OneWriter
  BY SharersLetGo DEF SwapChainInv, OneThread, OneWriter
<1> QED
  BY <1>1, SwapChainInvariant, PlugInvariant, PTL

\* No thread writes beyond the section it has open, though another thread or an earlier run of
\* its own may have made it for smaller frames (shared_memory.rs:118 to 186).
THEOREM WriterFitsEver == Spec => []WriterFits
<1>1. SwapChainInv => WriterFits
  BY DEF SwapChainInv
<1> QED
  BY <1>1, SwapChainInvariant, PTL

\* A swap chain that the driver holds is in a callback, in a processor, or its thread could
\* not be prioritised (context.rs:355 to 391, swap_chain_processor.rs:68 to 131).
THEOREM ChainsGivenBackEver == Spec => []ChainsGivenBack
<1>1. SwapChainInv => ChainsGivenBack
  BY DEF SwapChainInv
<1> QED
  BY <1>1, SwapChainInvariant, PTL
-----------------------------------------------------------------------------
(* The ring as a seqlock *)

LEMMA ModIs ==
  ASSUME NEW S \in Nat \ {0}, NEW q \in Nat, NEW r \in 0 .. S - 1
  PROVE  (q * S + r) % S = r
BY SMT

LEMMA DivMod ==
  ASSUME NEW S \in Nat \ {0}, NEW n \in Nat
  PROVE  \E q \in Nat : \E r \in 0 .. S - 1 : n = q * S + r
<1>1. \E q \in Int : n % S = n - q * S
  BY SMT
<1>2. PICK q \in Int : n % S = n - q * S
  BY <1>1
<1>3. n % S \in 0 .. S - 1
  BY SMT
<1>4. q >= 0
  <2>1. SUFFICES ASSUME q <= -1 PROVE FALSE
    BY SMT
  <2>2. q * S <= (-1) * S
    BY <2>1, SMT
  <2> QED
    BY <1>2, <1>3, <2>2, SMT
<1> QED
  BY <1>2, <1>3, <1>4, SMT

\* A turn of the ring leads to the same slot.
LEMMA OneTurn ==
  ASSUME NEW S \in Nat \ {0}, NEW n \in Nat
  PROVE  (n + S) % S = n % S
<1>1. PICK q \in Nat, r \in 0 .. S - 1 : n = q * S + r
  BY DivMod
<1>2. n + S = (q + 1) * S + r
  BY <1>1
<1>3. q + 1 \in Nat
  OBVIOUS
<1>4. (n + S) % S = r
  BY <1>2, <1>3, ModIs
<1>5. n % S = r
  BY <1>1, ModIs
<1> QED
  BY <1>4, <1>5

\* The slot written next is not the newest one, if there are two.
LEMMA NotTheNewest ==
  ASSUME NEW S \in Nat, S >= 2, NEW n \in Nat
  PROVE  n % S # (n + S - 1) % S
<1>1. S \in Nat \ {0}
  OBVIOUS
<1>2. PICK q \in Nat, r \in 0 .. S - 1 : n = q * S + r
  BY <1>1, DivMod
<1>3. n % S = r
  BY <1>2, <1>1, ModIs
<1>4. CASE r = 0
  <2>1. n + S - 1 = q * S + (S - 1) /\ S - 1 \in 0 .. S - 1
    BY <1>2, <1>4
  <2>2. (n + S - 1) % S = S - 1
    BY <2>1, <1>1, ModIs
  <2> QED
    BY <1>3, <1>4, <2>2
<1>5. CASE r # 0
  <2>1. n + S - 1 = (q + 1) * S + (r - 1)
    BY <1>2
  <2>2. q + 1 \in Nat /\ r - 1 \in 0 .. S - 1
    BY <1>5
  <2>3. (n + S - 1) % S = r - 1
    BY <2>1, <2>2, <1>1, ModIs
  <2> QED
    BY <1>3, <2>3
<1> QED
  BY <1>4, <1>5

\* What write_frame does to the newest slot: while it writes, nothing; then the frame is it.
LEMMA NewestEffect ==
  ASSUME Slots >= 2, NEW f \in Nat,
         NEW s \in [cap : Nat, size : Nat, seq : Nat, slot : [0 .. Slots - 1 -> Nat]]
  PROVE  /\ WriteBegun(s).seq = s.seq /\ Newest(WriteBegun(s)) = Newest(s)
         /\ WriteEnded(s, f).seq = s.seq + 1 /\ Newest(WriteEnded(s, f)) = f
<1> DEFINE new == (s.seq + Slots - 1) % Slots
<1>1. Slots \in Nat /\ Slots \in Nat \ {0}
  BY SlotsAssumption
<1>2. Target(s) \in 0 .. Slots - 1 /\ new \in 0 .. Slots - 1
  BY <1>1 DEF Target
<1>3. Target(s) # new
  <2>1. s.seq \in Nat
    OBVIOUS
  <2>2. s.seq % Slots # (s.seq + Slots - 1) % Slots
    BY <1>1, <2>1, NotTheNewest
  <2> QED
    BY <2>2 DEF Target
<1>4. WriteBegun(s).seq = s.seq /\ WriteBegun(s).slot = [s.slot EXCEPT ![Target(s)] = 0]
  BY DEF WriteBegun, Torn
<1>5. WriteEnded(s, f) = [[s EXCEPT !.slot[Target(s)] = f] EXCEPT !.seq = s.seq + 1]
  BY DEF WriteEnded
<1>6. [s EXCEPT !.slot[Target(s)] = f]
        = [cap |-> s.cap, size |-> s.size, seq |-> s.seq, slot |-> [s.slot EXCEPT ![Target(s)] = f]]
  OBVIOUS
<1>7. WriteEnded(s, f).seq = s.seq + 1 /\ WriteEnded(s, f).slot = [s.slot EXCEPT ![Target(s)] = f]
  BY <1>5, <1>6
<1>8. Newest(WriteBegun(s)) = Newest(s)
  <2>1. [s.slot EXCEPT ![Target(s)] = 0][new] = s.slot[new]
    BY <1>2, <1>3
  <2> QED
    BY <1>4, <2>1 DEF Newest
<1>9. Newest(WriteEnded(s, f)) = f
  <2>1. s.seq + 1 + Slots - 1 = s.seq + Slots
    BY <1>1
  <2>2. (s.seq + Slots) % Slots = Target(s)
    BY <1>1, OneTurn DEF Target
  <2>3. [s.slot EXCEPT ![Target(s)] = f][Target(s)] = f
    BY <1>2
  <2> QED
    BY <1>7, <2>1, <2>2, <2>3 DEF Newest
<1> QED
  BY <1>4, <1>7, <1>8, <1>9
\* A reader that looked at a header nobody wrote anew has a whole frame, and while the sequence
\* stays as it saw it the slot it copies stays too.
ReaderHas(i) ==
  reader[i].open /\ ~reader[i].reset =>
    /\ reader[i].frame > 0
    /\ section[i].seq >= reader[i].seq
    /\ section[i].seq = reader[i].seq => reader[i].frame = Newest(section[i])

\* A section that nobody wrote to at the same time as another has a whole frame, if any.
RingInv ==
  \A i \in Ids \ mixed : (section[i].seq > 0 => Newest(section[i]) > 0) /\ ReaderHas(i)

\* A section that two threads have open is mixed.
MixedInv == \A j, k \in Chains : Share(j, k) => Id(k) \in mixed

\* A thread that writes has the section open, a frame in hand, and the sequence if it is alone.
CopyInv ==
  \A k \in Chains :
    /\ thread[k] \in {"copied", "writing"} => writer[k] > 0
    /\ thread[k] = "writing" =>
         /\ copy[k].frame > 0
         /\ Id(k) \notin mixed => copy[k].seq = section[Id(k)].seq

SeqlockInv ==
  /\ reader \in [Ids -> [open : BOOLEAN, seq : Nat, frame : Nat, reset : BOOLEAN, torn : BOOLEAN]]
  /\ MixedInv
  /\ CopyInv
  /\ RingInv
  /\ StableReadIsWhole

\* What a thread does to its ring: nothing, closes it while nobody else has it open, makes it
\* anew, begins a frame, or ends one.
RingQuiet(k) == UNCHANGED <<writer, copy, section, mixed, reader>> /\ thread'[k] # "writing"
RingLeft(k)  == CloseWriter(k) /\ UNCHANGED <<copy, mixed, reader>> /\ thread'[k] \notin {"copied", "writing"}

LEMMA ThreadRing ==
  ASSUME SwapChainInv, NEW k \in Chains, Thread(k)
  PROVE  \/ RingQuiet(k) /\ thread'[k] # "copied"
         \/ RingLeft(k)
         \/ \E size \in Sizes : UseView(k, size)
         \/ WriteFrame(k) \/ FrameWritten(k)
<1>1. thread \in [Chains -> ThreadStates]
  BY DEF SwapChainInv, ChainTypes
<1>2. CASE AskRecording(k)
  BY <1>1, <1>2 DEF AskRecording, Goto, RingQuiet, RingLeft
<1>3. CASE DeleteChain(k)
  BY <1>1, <1>3 DEF DeleteChain, ThreadStep, Goto, RingLeft
<1>4. CASE \E size \in Sizes : CreateResources(k, size)
  BY <1>4 DEF CreateResources
<1>5. CASE PrioritiseFails(k) \/ NoFrame(k) \/ AcquireFrame(k) \/ AcquireFails(k)
  BY <1>1, <1>5 DEF PrioritiseFails, NoFrame, AcquireFrame, AcquireFails, ThreadStep, Goto, shmVars, RingQuiet
<1>6. CASE SetDevice(k) \/ WaitOver(k)
  BY <1>1, <1>6 DEF SetDevice, WaitOver, ThreadStep, Goto, shmVars, RingQuiet
<1>7. CASE CaptureSkips(k) \/ CopyFails(k) \/ SendFrame(k)
  BY <1>1, <1>7 DEF CaptureSkips, CopyFails, SendFrame, ThreadStep, Goto, shmVars, RingQuiet
<1> QED
  BY <1>2, <1>3, <1>4, <1>5, <1>6, <1>7 DEF Thread

\* A step that leaves the rings alone.
LEMMA QuietSeqlock ==
  ASSUME SwapChainInv, SeqlockInv, UNCHANGED <<writer, copy, section, mixed, reader>>,
         \A k \in Chains : writer[k] > 0 \/ thread'[k] \in {"copied", "writing"} => owner'[k] = owner[k],
         \A k \in Chains : thread'[k] \in {"copied", "writing"} => thread'[k] = thread[k]
  PROVE  SeqlockInv'
<1>1. MixedInv'
  BY DEF SeqlockInv, MixedInv, Share, Id
<1>2. CopyInv'
  BY DEF SeqlockInv, CopyInv, Id
<1>3. RingInv' /\ StableReadIsWhole'
  BY DEF SeqlockInv, RingInv, ReaderHas, StableReadIsWhole
<1> QED
  BY <1>1, <1>2, <1>3 DEF SeqlockInv

\* A thread that opens a section alone has its header; with others it mixes it.
LEMMA ViewSeqlock ==
  ASSUME SwapChainInv, SeqlockInv, NEW k \in Chains, Running(k), NEW size \in Sizes, UseView(k, size)
  PROVE  SeqlockInv'
<1> DEFINE i == Id(k)
           S == [cap : Nat, size : Nat, seq : Nat, slot : [0 .. Slots - 1 -> Nat]]
           R == [open : BOOLEAN, seq : Nat, frame : Nat, reset : BOOLEAN, torn : BOOLEAN]
<1>1. i \in Ids /\ section \in [Ids -> S] /\ reader \in [Ids -> R]
  BY SwapChainAssumption DEF SwapChainInv, ChainTypes, SeqlockInv, UnownedInv, Running, Id
<1>2. section'[i].seq = 0 /\ \A n \in Ids \ {i} : section'[n] = section[n]
  BY <1>1 DEF UseView, Opened
<1>3. /\ reader' \in [Ids -> R]
      /\ reader'[i].open = reader[i].open /\ reader'[i].reset = reader[i].open
      /\ reader'[i].torn = reader[i].torn
      /\ \A n \in Ids \ {i} : reader'[n] = reader[n]
  <2>1. reader' = [reader EXCEPT ![i].reset = reader[i].open]
    BY DEF UseView, ReaderReset
  <2>2. reader[i] \in R
    BY <1>1
  <2> QED
    BY <1>1, <2>1, <2>2
<1>4. /\ writer'[k] > 0 /\ \A j \in Chains \ {k} : writer'[j] = writer[j]
      /\ thread'[k] = "copied" /\ \A j \in Chains \ {k} : thread'[j] = thread[j]
  BY SwapChainAssumption DEF UseView, Goto, SwapChainInv, ChainTypes
<1>5. copy' = copy /\ \A j \in Chains : Id(j)' = Id(j)
  BY DEF UseView, osVars, Id
<1>6. \A n \in Ids \ {i} : n \in mixed' <=> n \in mixed
  BY DEF UseView
<1>7. i \notin mixed' => \A j \in Chains \ {k} : ~(writer[j] > 0 /\ Id(j) = i)
  BY DEF UseView, OtherWriters
<1>8. ASSUME NEW j \in Chains, NEW l \in Chains, j # l, writer'[j] > 0, writer'[l] > 0, Id(j) = Id(l)
      PROVE  Id(l) \in mixed'
  <2>1. CASE j = k \/ l = k
    BY <1>4, <1>7, <1>8, <2>1
  <2>2. CASE j # k /\ l # k
    <3>1. writer[j] > 0 /\ writer[l] > 0
      BY <1>4, <1>8, <2>2
    <3>2. Id(l) \in mixed
      BY <1>8, <3>1 DEF SeqlockInv, MixedInv, Share
    <3>3. CASE Id(l) = i
      BY <1>7, <2>2, <3>1, <3>3
    <3>4. CASE Id(l) # i
      BY <3>2, <3>4 DEF UseView
    <3> QED
      BY <3>3, <3>4
  <2> QED
    BY <2>1, <2>2
<1>9. MixedInv'
  BY <1>5, <1>8 DEF MixedInv, Share
<1>10. CopyInv'
  <2>1. ASSUME NEW j \in Chains
        PROVE  /\ thread'[j] \in {"copied", "writing"} => writer'[j] > 0
               /\ thread'[j] = "writing" =>
                    /\ copy[j].frame > 0
                    /\ Id(j) \notin mixed' => copy[j].seq = section'[Id(j)].seq
    <3>1. CASE j = k
      BY <1>4, <3>1
    <3>2. CASE j # k
      <4>1. thread[j] \in {"copied", "writing"} => writer[j] > 0
        BY DEF SeqlockInv, CopyInv
      <4>2. CASE thread[j] # "writing"
        BY <1>4, <3>2, <4>1, <4>2
      <4>3. CASE thread[j] = "writing"
        <5>1. writer[j] > 0 /\ copy[j].frame > 0 /\ (Id(j) \notin mixed => copy[j].seq = section[Id(j)].seq)
          BY <4>3 DEF SeqlockInv, CopyInv
        <5>2. Id(j) \in Ids
          BY <5>1, SwapChainAssumption DEF SwapChainInv, ChainTypes, UnownedInv, Id
        <5>3. Id(j) = i => Id(j) \in mixed'
          BY <1>7, <3>2, <5>1
        <5>4. Id(j) # i => section'[Id(j)] = section[Id(j)] /\ (Id(j) \in mixed' <=> Id(j) \in mixed)
          BY <1>2, <1>6, <5>2
        <5> QED
          BY <1>4, <3>2, <5>1, <5>3, <5>4
      <4> QED
        BY <4>2, <4>3
    <3> QED
      BY <3>1, <3>2
  <2> QED
    BY <1>5, <2>1 DEF CopyInv
<1>11. RingInv'
  <2>1. ASSUME NEW n \in Ids, n \notin mixed'
        PROVE  (section'[n].seq > 0 => Newest(section'[n]) > 0) /\ ReaderHas(n)'
    <3>1. CASE n = i
      BY <1>2, <1>3, <3>1 DEF ReaderHas
    <3>2. CASE n # i
      BY <1>2, <1>3, <1>6, <2>1, <3>2 DEF SeqlockInv, RingInv, ReaderHas
    <3> QED
      BY <3>1, <3>2
  <2> QED
    BY <2>1 DEF RingInv
<1>12. StableReadIsWhole'
  BY <1>3 DEF SeqlockInv, StableReadIsWhole
<1> QED
  BY <1>3, <1>9, <1>10, <1>11, <1>12 DEF SeqlockInv

\* The last handle of a section that nobody reads or writes is closed.
LEMMA LeftSeqlock ==
  ASSUME SwapChainInv, SeqlockInv, NEW k \in Chains, Thread(k), RingLeft(k)
  PROVE  SeqlockInv'
<1> DEFINE i == Id(k)
           S == [cap : Nat, size : Nat, seq : Nat, slot : [0 .. Slots - 1 -> Nat]]
<1>1. i \in Ids /\ section \in [Ids -> S]
  BY ThreadEffect, SwapChainAssumption DEF SwapChainInv, ChainTypes, UnownedInv, Running, Id
<1>2. /\ writer'[k] = 0 /\ \A j \in Chains \ {k} : writer'[j] = writer[j]
      /\ thread'[k] \notin {"copied", "writing"} /\ \A j \in Chains \ {k} : thread'[j] = thread[j]
  BY ThreadEffect DEF RingLeft, CloseWriter, SwapChainInv, ChainTypes
<1>3. UNCHANGED <<copy, mixed, reader>> /\ \A j \in Chains : Id(j)' = Id(j)
  BY ThreadEffect DEF RingLeft, Id
<1>4. \A n \in Ids \ {i} : section'[n] = section[n]
  BY <1>1 DEF RingLeft, CloseWriter
<1>5. \/ section'[i] = section[i]
      \/ /\ section'[i].seq = 0
         /\ ~reader[i].open
         /\ \A j \in Chains \ {k} : ~(writer[j] > 0 /\ Id(j) = i)
  BY <1>1 DEF RingLeft, CloseWriter, StillOpen, OtherWriters, NoSection
<1>6. MixedInv'
  BY <1>2, <1>3 DEF SeqlockInv, MixedInv, Share
<1>7. CopyInv'
  <2>1. ASSUME NEW j \in Chains
        PROVE  /\ thread'[j] \in {"copied", "writing"} => writer'[j] > 0
               /\ thread'[j] = "writing" =>
                    /\ copy[j].frame > 0
                    /\ Id(j) \notin mixed => copy[j].seq = section'[Id(j)].seq
    <3>1. CASE j = k
      BY <1>2, <3>1
    <3>2. CASE j # k
      <4>1. /\ thread[j] \in {"copied", "writing"} => writer[j] > 0
            /\ thread[j] = "writing" =>
                 copy[j].frame > 0 /\ (Id(j) \notin mixed => copy[j].seq = section[Id(j)].seq)
        BY DEF SeqlockInv, CopyInv
      <4>2. writer[j] > 0 => Id(j) \in Ids
        BY SwapChainAssumption DEF SwapChainInv, ChainTypes, UnownedInv, Id
      <4>3. writer[j] > 0 => section'[Id(j)] = section[Id(j)]
        BY <1>4, <1>5, <3>2, <4>2
      <4> QED
        BY <1>2, <3>2, <4>1, <4>3
    <3> QED
      BY <3>1, <3>2
  <2> QED
    BY <1>3, <2>1 DEF CopyInv
<1>8. RingInv'
  <2>1. ASSUME NEW n \in Ids, n \notin mixed
        PROVE  (section'[n].seq > 0 => Newest(section'[n]) > 0) /\ ReaderHas(n)'
    <3>1. (section[n].seq > 0 => Newest(section[n]) > 0) /\ ReaderHas(n)
      BY <2>1 DEF SeqlockInv, RingInv
    <3> QED
      BY <1>3, <1>4, <1>5, <3>1 DEF ReaderHas
  <2> QED
    BY <1>3, <2>1 DEF RingInv
<1> QED
  BY <1>3, <1>6, <1>7, <1>8 DEF SeqlockInv, StableReadIsWhole

\* While a frame is written the newest slot stays; when it is written, it is the newest.
LEMMA WriteSeqlock ==
  ASSUME Slots >= 2, SwapChainInv, SeqlockInv, NEW k \in Chains, Thread(k),
         WriteFrame(k) \/ FrameWritten(k)
  PROVE  SeqlockInv'
<1> DEFINE i == Id(k)
           S == [cap : Nat, size : Nat, seq : Nat, slot : [0 .. Slots - 1 -> Nat]]
           R == [open : BOOLEAN, seq : Nat, frame : Nat, reset : BOOLEAN, torn : BOOLEAN]
<1>1. i \in Ids /\ section \in [Ids -> S] /\ reader \in [Ids -> R]
  BY ThreadEffect, SwapChainAssumption DEF SwapChainInv, ChainTypes, SeqlockInv, UnownedInv, Running, Id
<1>2. section[i] \in S /\ reader[i] \in R
  BY <1>1
<1>3. UNCHANGED <<writer, mixed, reader>> /\ \A j \in Chains : Id(j)' = Id(j)
  BY DEF WriteFrame, FrameWritten, osVars, Id
<1>4. /\ \A j \in Chains \ {k} : thread'[j] = thread[j] /\ copy'[j] = copy[j]
      /\ \A n \in Ids \ {i} : section'[n] = section[n]
  <2>1. CASE WriteFrame(k)
    BY <2>1 DEF WriteFrame, ThreadStep, Goto, SwapChainInv, ChainTypes
  <2>2. CASE FrameWritten(k)
    BY <2>2 DEF FrameWritten, ThreadStep, Goto, SwapChainInv, ChainTypes
  <2> QED
    BY <2>1, <2>2
<1>5. writer[k] > 0
  BY DEF WriteFrame, FrameWritten, ThreadStep, SeqlockInv, CopyInv
<1>6. \A j \in Chains \ {k} : writer[j] > 0 /\ Id(j) = i => i \in mixed
  BY <1>5 DEF SeqlockInv, MixedInv, Share
<1>7. /\ thread'[k] \in {"writing", "send"}
      /\ thread'[k] = "writing" => copy'[k].frame > 0 /\ (i \notin mixed => copy'[k].seq = section'[i].seq)
  <2>1. CASE WriteFrame(k)
    <3>1. copy'[k] = [seq |-> section[i].seq, frame |-> frames + 1] /\ section'[i] = WriteBegun(section[i])
      BY <1>1, <2>1 DEF WriteFrame, SwapChainInv, ChainTypes
    <3>2. WriteBegun(section[i]).seq = section[i].seq
      BY <1>2, NewestEffect
    <3>3. frames + 1 > 0
      BY DEF SwapChainInv, ChainTypes
    <3>4. thread'[k] = "writing"
      BY <2>1 DEF WriteFrame, ThreadStep, Goto, SwapChainInv, ChainTypes
    <3> QED
      BY <3>1, <3>2, <3>3, <3>4
  <2>2. CASE FrameWritten(k)
    BY <2>2 DEF FrameWritten, ThreadStep, Goto, SwapChainInv, ChainTypes
  <2> QED
    BY <2>1, <2>2
<1>8. i \notin mixed =>
        /\ section'[i].seq > 0 => Newest(section'[i]) > 0
        /\ \/ section'[i].seq = section[i].seq /\ Newest(section'[i]) = Newest(section[i])
           \/ section'[i].seq = section[i].seq + 1
  <2> SUFFICES ASSUME i \notin mixed
               PROVE  /\ section'[i].seq > 0 => Newest(section'[i]) > 0
                      /\ \/ section'[i].seq = section[i].seq /\ Newest(section'[i]) = Newest(section[i])
                         \/ section'[i].seq = section[i].seq + 1
    OBVIOUS
  <2>1. CASE WriteFrame(k)
    <3>1. section'[i] = WriteBegun(section[i])
      BY <1>1, <2>1 DEF WriteFrame
    <3>2. WriteBegun(section[i]).seq = section[i].seq /\ Newest(WriteBegun(section[i])) = Newest(section[i])
      BY <1>2, NewestEffect
    <3>3. section[i].seq > 0 => Newest(section[i]) > 0
      BY <1>1 DEF SeqlockInv, RingInv
    <3> QED
      BY <3>1, <3>2, <3>3
  <2>2. CASE FrameWritten(k)
    <3>1. thread[k] = "writing"
      BY <2>2 DEF FrameWritten, ThreadStep
    <3>2. copy[k].frame > 0 /\ copy[k].frame \in Nat /\ copy[k].seq = section[i].seq
      BY <3>1 DEF SeqlockInv, CopyInv, SwapChainInv, ChainTypes
    <3>3. section'[i] = WriteStored(section[i], section[i].seq, copy[k].frame)
      <4>1. Outcomes(k) = {copy[k].frame}
        BY DEF Outcomes
      <4> QED
        BY <1>1, <2>2, <3>2, <4>1 DEF FrameWritten
    <3>4. [section[i] EXCEPT !.seq = section[i].seq] = section[i]
      BY <1>2
    <3>5. section'[i] = WriteEnded(section[i], copy[k].frame)
      BY <3>3, <3>4 DEF WriteStored
    <3> QED
      BY <1>2, <3>2, <3>5, NewestEffect
  <2> QED
    BY <2>1, <2>2
<1>9. MixedInv'
  BY <1>3 DEF SeqlockInv, MixedInv, Share
<1>10. CopyInv'
  <2>1. ASSUME NEW j \in Chains
        PROVE  /\ thread'[j] \in {"copied", "writing"} => writer[j] > 0
               /\ thread'[j] = "writing" =>
                    /\ copy'[j].frame > 0
                    /\ Id(j) \notin mixed => copy'[j].seq = section'[Id(j)].seq
    <3>1. CASE j = k
      BY <1>5, <1>7, <3>1
    <3>2. CASE j # k
      <4>1. /\ thread[j] \in {"copied", "writing"} => writer[j] > 0
            /\ thread[j] = "writing" =>
                 copy[j].frame > 0 /\ (Id(j) \notin mixed => copy[j].seq = section[Id(j)].seq)
        BY DEF SeqlockInv, CopyInv
      <4>2. writer[j] > 0 => Id(j) \in Ids
        BY SwapChainAssumption DEF SwapChainInv, ChainTypes, UnownedInv, Id
      <4>3. writer[j] > 0 => Id(j) \in mixed \/ section'[Id(j)] = section[Id(j)]
        BY <1>4, <1>6, <3>2, <4>2
      <4> QED
        BY <1>4, <3>2, <4>1, <4>3
    <3> QED
      BY <3>1, <3>2
  <2> QED
    BY <1>3, <2>1 DEF CopyInv
<1>11. RingInv'
  <2>1. ASSUME NEW n \in Ids, n \notin mixed
        PROVE  (section'[n].seq > 0 => Newest(section'[n]) > 0) /\ ReaderHas(n)'
    <3>1. (section[n].seq > 0 => Newest(section[n]) > 0) /\ ReaderHas(n)
      BY <2>1 DEF SeqlockInv, RingInv
    <3>2. CASE n = i
      <4>1. section[i].seq \in Nat /\ reader[i].seq \in Nat
        BY <1>2
      <4> HIDE DEF i
      <4> QED
        BY <1>3, <1>8, <2>1, <3>1, <3>2, <4>1 DEF ReaderHas
    <3>3. CASE n # i
      BY <1>3, <1>4, <3>1, <3>3 DEF ReaderHas
    <3> QED
      BY <3>2, <3>3
  <2> QED
    BY <1>3, <2>1 DEF RingInv
<1> QED
  BY <1>3, <1>9, <1>10, <1>11 DEF SeqlockInv, StableReadIsWhole

LEMMA ThreadSeqlock ==
  ASSUME Slots >= 2, SwapChainInv, SeqlockInv, NEW k \in Chains, Thread(k)
  PROVE  SeqlockInv'
<1>1. CASE RingQuiet(k) /\ thread'[k] # "copied"
  <2>1. owner' = owner /\ \A j \in Chains \ {k} : thread'[j] = thread[j]
    BY ThreadEffect DEF SwapChainInv, ChainTypes
  <2> QED
    BY <1>1, <2>1, QuietSeqlock DEF RingQuiet
<1>2. CASE RingLeft(k)
  BY <1>2, LeftSeqlock
<1>3. CASE \E size \in Sizes : UseView(k, size)
  BY <1>3, ThreadEffect, ViewSeqlock
<1>4. CASE WriteFrame(k) \/ FrameWritten(k)
  BY <1>4, WriteSeqlock
<1> QED
  BY <1>1, <1>2, <1>3, <1>4, ThreadRing

LEMMA ReaderSeqlock ==
  ASSUME SwapChainInv, SeqlockInv, NEW i \in Ids, Reader(i)
  PROVE  SeqlockInv'
<1> DEFINE R == [open : BOOLEAN, seq : Nat, frame : Nat, reset : BOOLEAN, torn : BOOLEAN]
           S == [cap : Nat, size : Nat, seq : Nat, slot : [0 .. Slots - 1 -> Nat]]
<1>1. section \in [Ids -> S] /\ reader \in [Ids -> R] /\ section[i] \in S /\ reader[i] \in R
  BY DEF SwapChainInv, ChainTypes, SeqlockInv
<1>2. UNCHANGED <<owner, thread, writer, copy, mixed>>
  BY DEF Reader, BeginRead, EndRead, osVars, threadVars
<1>3. MixedInv'
  BY <1>2 DEF SeqlockInv, MixedInv, Share, Id
<1>4. \A n \in Ids \ mixed : (section[n].seq > 0 => Newest(section[n]) > 0) /\ ReaderHas(n)
  BY DEF SeqlockInv, RingInv
<1>5. \A n \in Ids : ~reader[n].torn
  BY DEF SeqlockInv, StableReadIsWhole
<1>6. CASE BeginRead(i)
  <2> DEFINE r == [open |-> TRUE, seq |-> section[i].seq, frame |-> Newest(section[i]),
                   reset |-> FALSE, torn |-> FALSE]
  <2>1. section[i].seq > 0 /\ section' = section /\ reader' = [reader EXCEPT ![i] = r]
    BY <1>6 DEF BeginRead
  <2>2. Newest(section[i]) \in Nat
    <3>1. (section[i].seq + Slots - 1) % Slots \in 0 .. Slots - 1
      BY <1>1, SlotsAssumption
    <3> QED
      BY <1>1, <3>1 DEF Newest
  <2>3. r \in R
    BY <1>1, <2>2
  <2>4. reader' \in [Ids -> R] /\ reader'[i] = r
        /\ \A n \in Ids \ {i} : reader'[n] = reader[n]
    <3> HIDE DEF R, r
    <3> QED
      BY <1>1, <2>1, <2>3
  <2>5. ASSUME NEW n \in Ids, n \notin mixed PROVE ReaderHas(n)'
    <3>1. CASE n = i
      BY <1>1, <1>4, <2>1, <2>4, <2>5, <3>1 DEF ReaderHas
    <3>2. CASE n # i
      BY <1>4, <2>1, <2>4, <2>5, <3>2 DEF ReaderHas
    <3> QED
      BY <3>1, <3>2
  <2>6. RingInv'
    BY <1>2, <1>4, <2>1, <2>5 DEF RingInv
  <2>7. CopyInv'
    BY <1>2, <2>1 DEF SeqlockInv, CopyInv, Id
  <2>8. StableReadIsWhole'
    BY <1>5, <2>4 DEF StableReadIsWhole
  <2> QED
    BY <1>3, <2>4, <2>6, <2>7, <2>8 DEF SeqlockInv
<1>7. CASE EndRead(i)
  <2> DEFINE accepted == section[i].seq = reader[i].seq /\ ~reader[i].reset /\ i \notin mixed
             torn == accepted /\ (reader[i].frame = Torn \/ SlotRead(i) # reader[i].frame)
  <2>1. reader[i].open /\ reader' = [reader EXCEPT ![i] = [NotReading EXCEPT !.torn = torn]]
    BY <1>7 DEF EndRead
  <2>2. torn = FALSE
    <3>1. accepted => reader[i].frame > 0 /\ reader[i].frame = Newest(section[i])
      BY <1>4, <2>1 DEF ReaderHas
    <3>2. accepted => SlotRead(i) = Newest(section[i])
      BY DEF SlotRead, Newest
    <3> QED
      BY <3>1, <3>2 DEF Torn
  <2> DEFINE r == [NotReading EXCEPT !.torn = FALSE]
  <2>3. r \in R /\ ~r.open /\ ~r.torn
    <3>1. NotReading \in R /\ ~NotReading.open
      BY DEF NotReading, Torn
    <3> QED
      BY <3>1
  <2>4. /\ reader' \in [Ids -> R]
        /\ ~reader'[i].open /\ ~reader'[i].torn
        /\ \A n \in Ids \ {i} : reader'[n] = reader[n]
    <3>1. reader' = [reader EXCEPT ![i] = r]
      BY <2>1, <2>2
    <3> HIDE DEF R, r
    <3> QED
      BY <1>1, <2>3, <3>1
  <2>5. /\ \A n \in Ids \ {i} : section'[n] = section[n]
        /\ \/ section'[i] = section[i]
           \/ section'[i] = NoSection /\ \A k \in Chains : ~(writer[k] > 0 /\ Id(k) = i)
    BY <1>1, <1>7 DEF EndRead
  <2>6. NoSection.seq = 0
    BY DEF NoSection
  <2>7. RingInv'
    <3>1. ASSUME NEW n \in Ids, n \notin mixed
          PROVE  (section'[n].seq > 0 => Newest(section'[n]) > 0) /\ ReaderHas(n)'
      <4>1. CASE n = i
        BY <1>4, <2>4, <2>5, <2>6, <3>1, <4>1 DEF ReaderHas
      <4>2. CASE n # i
        BY <1>4, <2>4, <2>5, <3>1, <4>2 DEF ReaderHas
      <4> QED
        BY <4>1, <4>2
    <3> QED
      BY <1>2, <3>1 DEF RingInv
  <2>8. CopyInv'
    <3>1. \A k \in Chains : writer[k] > 0 => Id(k) \in Ids
      BY SwapChainAssumption DEF SwapChainInv, ChainTypes, UnownedInv, Id
    <3>2. \A k \in Chains : writer[k] > 0 => section'[Id(k)] = section[Id(k)]
      BY <2>5, <3>1
    <3> QED
      BY <1>2, <3>2 DEF SeqlockInv, CopyInv, Id
  <2>9. StableReadIsWhole'
    BY <1>5, <2>4 DEF StableReadIsWhole
  <2> QED
    BY <1>3, <2>4, <2>7, <2>8, <2>9 DEF SeqlockInv
<1> QED
  BY <1>6, <1>7 DEF Reader

LEMMA SeqlockInit == Init => SeqlockInv
<1> SUFFICES ASSUME Init PROVE SeqlockInv
  OBVIOUS
<1>1. reader \in [Ids -> [open : BOOLEAN, seq : Nat, frame : Nat, reset : BOOLEAN, torn : BOOLEAN]]
  BY DEF Init, NotReading, Torn
<1>2. RingInv /\ StableReadIsWhole
  BY DEF Init, RingInv, ReaderHas, StableReadIsWhole, NotReading, NoSection
<1>3. MixedInv /\ CopyInv
  BY DEF Init, MixedInv, CopyInv, Share
<1> QED
  BY <1>1, <1>2, <1>3 DEF SeqlockInv

LEMMA SeqlockStep ==
  ASSUME Slots >= 2, SwapChainInv, SeqlockInv, [Next]_vars
  PROVE  SeqlockInv'
<1>1. ASSUME NEW m \in Monitors, Callback(m) PROVE SeqlockInv'
  <2>1. UNCHANGED <<writer, copy, section, mixed, reader>>
    <3>1. UNCHANGED shmVars
      BY <1>1 DEF Callback, AssignSwapChain, UnassignSwapChain, Joined, DeviceReady, DeviceFails
    <3>2. UNCHANGED <<writer, copy>>
      BY <1>1 DEF Callback, AssignSwapChain, UnassignSwapChain, Joined, DeviceReady, DeviceFails, threadVars
    <3> QED
      BY <3>1, <3>2 DEF shmVars
  <2>2. \A k \in Chains : thread'[k] \in {"copied", "writing"} => thread'[k] = thread[k]
    <3>1. CASE DeviceReady(m)
      BY <3>1 DEF DeviceReady, Goto, SwapChainInv, ChainTypes
    <3>2. CASE Joined(m) \/ DeviceFails(m)
      BY <3>2 DEF Joined, DeviceFails, threadVars
    <3>3. CASE UnassignSwapChain(m) \/ \E k \in Chains : AssignSwapChain(m, k)
      BY <3>3 DEF UnassignSwapChain, AssignSwapChain
    <3> QED
      BY <1>1, <3>1, <3>2, <3>3 DEF Callback
  <2>3. \A k \in Chains : owner[k] # None => owner'[k] = owner[k]
    <3>1. CASE \E k \in Chains : AssignSwapChain(m, k)
      BY <3>1 DEF AssignSwapChain, SwapChainInv, ChainTypes
    <3>2. CASE UnassignSwapChain(m) \/ Joined(m) \/ DeviceReady(m) \/ DeviceFails(m)
      BY <3>2 DEF UnassignSwapChain, Joined, DeviceReady, DeviceFails
    <3> QED
      BY <1>1, <3>1, <3>2 DEF Callback
  <2>4. \A k \in Chains : writer[k] > 0 \/ thread[k] \in {"copied", "writing"} => owner[k] # None
    BY DEF SwapChainInv, UnownedInv
  <2> QED
    BY <2>1, <2>2, <2>3, <2>4, QuietSeqlock
<1>2. ASSUME NEW i \in Ids, Reader(i) PROVE SeqlockInv'
  BY <1>2, ReaderSeqlock
<1>3. ASSUME NEW k \in Chains, Thread(k) PROVE SeqlockInv'
  BY <1>3, ThreadSeqlock
<1>4. ASSUME NEW c \in Clients, Handler(c) PROVE SeqlockInv'
  BY <1>4, HandlerQuiet, QuietSeqlock DEF osVars, shmVars, threadVars
<1>5. CASE UNCHANGED vars
  BY <1>5, QuietSeqlock DEF vars
<1> QED
  BY <1>1, <1>2, <1>3, <1>4, <1>5 DEF Next

\* With two slots or more, a copy made while the sequence and the header stayed as they were is
\* one whole frame (shared_memory.rs:32 calls the ring a seqlock), whichever thread of whichever
\* monitor writes the section, unless two wrote it at once since its header was made.
THEOREM StableReadEver ==
  ASSUME Slots >= 2
  PROVE  Spec => []StableReadIsWhole
<1>1. Init => SeqlockInv
  BY SeqlockInit
<1>2. SwapChainInv /\ SeqlockInv /\ [Next]_vars => SeqlockInv'
  BY SeqlockStep
<1>3. SeqlockInv => StableReadIsWhole
  BY DEF SeqlockInv
<1> QED
  BY <1>1, <1>2, <1>3, SwapChainInvariant, PTL DEF Spec
=============================================================================
