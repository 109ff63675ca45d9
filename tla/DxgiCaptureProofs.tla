------------------------- MODULE DxgiCaptureProofs -------------------------
(***************************************************************************)
(* Theorems about DxgiCapture for any number of connections, displays,     *)
(* messages, threads and frames.                                           *)
(***************************************************************************)
EXTENDS DxgiCapture, FiniteSetTheorems, SequenceTheorems, TLAPS

(* The inductive invariant *)

CaptureTypes ==
  /\ task \in [Connections -> [at : {"read", "lock", "state", "stop", "start"},
                               cmd : Commands \cup {None}]]
  /\ captures \subseteq Threads
  /\ thread \in [Threads -> ThreadStates]
  /\ display \in [Threads -> Displays \cup {None}]

\* The command that is at work holds the mutex, and one that starts threads has none to stop.
LockInv ==
  /\ \A c \in Connections : task[c].at \in {"state", "stop", "start"} <=> lock = c
  /\ \A c \in Connections : task[c].at = "start" => captures = {}

\* The threads used so far are those up to some number.
UsedInv == \E n \in 0 .. MaxThreads : \A t \in Threads : thread[t] = "unused" <=> t > n

CaptureInv ==
  /\ CaptureTypes
  /\ LockInv
  /\ UsedInv
  /\ OneCapturePerDisplay
-----------------------------------------------------------------------------
(* Lemmas about the threads *)

\* The next thread is the one after those used so far.
LEMMA NextThreadIs ==
  ASSUME NEW n \in 0 .. MaxThreads, \A t \in Threads : thread[t] = "unused" <=> t > n
  PROVE  NextThread = n + 1
<1>1. {t \in Threads : thread[t] # "unused"} = 1 .. n
  BY DxgiCaptureAssumption DEF Threads
<1>2. Cardinality(1 .. n) = n
  BY FS_Interval
<1> QED
  BY <1>1, <1>2 DEF NextThread

\* As many threads as displays can be given a display each, and then no display has two.
LEMMA EachItsOwn ==
  ASSUME NEW n \in Nat, NEW targets \in SUBSET Displays
  PROVE  LET new == n + 1 .. n + 1 + Cardinality(targets) - 1
             of  == CHOOSE f \in [new -> targets] : \A d \in targets : \E t \in new : f[t] = d
         IN  of \in [new -> targets] /\ \A t, u \in new : of[t] = of[u] => t = u
<1> DEFINE new == n + 1 .. n + 1 + Cardinality(targets) - 1
           Onto(f) == \A d \in targets : \E t \in new : f[t] = d
           of == CHOOSE f \in [new -> targets] : Onto(f)
<1>1. IsFiniteSet(targets) /\ Cardinality(targets) \in Nat
  BY FS_Subset, FS_CardinalityType, DxgiCaptureAssumption
<1>2. IsFiniteSet(new) /\ Cardinality(new) = Cardinality(targets)
  <2> DEFINE k == Cardinality(targets)
  <2>1. k \in Nat
    BY <1>1
  <2> HIDE DEF k
  <2>2. IsFiniteSet(n + 1 .. n + 1 + k - 1) /\ Cardinality(n + 1 .. n + 1 + k - 1) = k
    <3> DEFINE a == n + 1
               b == n + 1 + k - 1
    <3>1. a \in Int /\ b \in Int
      BY <2>1
    <3>2. k = IF a > b THEN 0 ELSE b - a + 1
      BY <2>1
    <3> HIDE DEF a, b
    <3>3. IsFiniteSet(a .. b) /\ Cardinality(a .. b) = k
      BY <3>1, <3>2, FS_Interval
    <3> QED
      BY <3>3 DEF a, b
  <2> QED
    BY <2>2 DEF k
<1>3. PICK g \in Bijection(new, targets) : TRUE
  BY <1>1, <1>2, FS_SameCardinalityBij DEF ExistsBijection
<1>4. g \in [new -> targets] /\ Onto(g)
  BY <1>3 DEF Bijection, Surjection, Injection
<1>5. of \in [new -> targets] /\ Onto(of)
  BY <1>4
<1>6. of \in Surjection(new, targets)
  BY <1>5 DEF Surjection
<1>7. of \in Injection(new, targets)
  BY <1>2, <1>6, FS_SurjSameCardinalityImpliesInj
<1>8. \A t, u \in new : of[t] = of[u] => t = u
  BY <1>7 DEF Injection, IsInjective
<1> QED
  BY <1>5, <1>8

LEMMA ThreadEffect ==
  ASSUME NEW t \in Threads, Thread(t)
  PROVE  /\ Running(t)
         /\ UNCHANGED <<task, lock, captures, display>>
         /\ \E to \in ThreadStates \ {"unused"} : thread' = [thread EXCEPT ![t] = to]
<1>1. CASE SetupFails(t)
  BY <1>1 DEF SetupFails, EndThread, ThreadStep, Running, ThreadStates, pipeVars, serviceVars
<1>2. CASE CreateDuplication(t)
  BY <1>2 DEF CreateDuplication, ThreadStep, Running, ThreadStates, pipeVars, serviceVars
<1>3. CASE \E n \in Sizes : CreateShared(t, n)
  BY <1>3 DEF CreateShared, ThreadStep, Running, ThreadStates, pipeVars, serviceVars
<1>4. CASE LooksAtTerminate(t)
  BY <1>4 DEF LooksAtTerminate, EndThread, ThreadStep, Running, ThreadStates, pipeVars, serviceVars
<1>5. CASE NoFrame(t) \/ CaptureFails(t)
  BY <1>5 DEF NoFrame, CaptureFails, EndThread, ThreadStep, Running, ThreadStates, pipeVars, serviceVars
<1>6. CASE WriteFrame(t)
  BY <1>6 DEF WriteFrame, ThreadStep, Running, ThreadStates, pipeVars, serviceVars
<1>7. CASE FrameWritten(t)
  BY <1>7 DEF FrameWritten, ThreadStep, Running, ThreadStates, pipeVars, serviceVars
<1> QED
  BY <1>1, <1>2, <1>3, <1>4, <1>5, <1>6, <1>7 DEF Thread
-----------------------------------------------------------------------------
(* The steps *)

LEMMA ThreadInv ==
  ASSUME CaptureInv, NEW t \in Threads, Thread(t)
  PROVE  CaptureInv'
<1>1. Running(t) /\ UNCHANGED <<task, lock, captures, display>>
  BY ThreadEffect
<1>2. PICK to \in ThreadStates \ {"unused"} : thread' = [thread EXCEPT ![t] = to]
  BY ThreadEffect
<1>3. /\ thread' \in [Threads -> ThreadStates] /\ thread'[t] = to
      /\ \A u \in Threads \ {t} : thread'[u] = thread[u]
  BY <1>2 DEF CaptureInv, CaptureTypes
<1>4. CaptureTypes' /\ LockInv'
  BY <1>1, <1>3 DEF CaptureInv, CaptureTypes, LockInv
<1>5. \A u \in Threads : thread'[u] = "unused" <=> thread[u] = "unused"
  BY <1>1, <1>2, <1>3 DEF Running
<1>6. UsedInv'
  BY <1>5 DEF CaptureInv, UsedInv
<1>7. \A u \in Threads : Running(u)' => Running(u)
  BY <1>1, <1>3 DEF Running
<1>8. OneCapturePerDisplay'
  BY <1>1, <1>7 DEF CaptureInv, OneCapturePerDisplay
<1> QED
  BY <1>4, <1>6, <1>8 DEF CaptureInv

\* What the pipe does disturbs none of it, nor does a reader.
LEMMA QuietInv ==
  ASSUME CaptureInv, UNCHANGED <<lock, captures, thread, display>>,
         task' \in [Connections -> [at : {"read", "lock", "state", "stop", "start"},
                                    cmd : Commands \cup {None}]],
         \A c \in Connections : \/ task'[c] = task[c]
                                \/ {task[c].at, task'[c].at} \subseteq {"read", "lock"}
  PROVE  CaptureInv'
<1>1. LockInv'
  BY DEF CaptureInv, LockInv
<1>2. CaptureTypes' /\ UsedInv' /\ OneCapturePerDisplay'
  BY DEF CaptureInv, CaptureTypes, UsedInv, OneCapturePerDisplay, Running
<1> QED
  BY <1>1, <1>2 DEF CaptureInv
\* Steps of a task that leave the threads alone, under the mutex or not: it takes the mutex, it
\* gives it back, or it goes on.
LEMMA TaskInv ==
  ASSUME CaptureInv, UNCHANGED <<captures, thread, display>>, NEW c \in Connections,
         NEW to \in [at : {"read", "lock", "state", "stop", "start"}, cmd : Commands \cup {None}],
         task' = [task EXCEPT ![c] = to],
         \/ lock = None /\ lock' = c /\ to.at \in {"state", "stop"}
         \/ lock = c /\ lock' = None /\ to.at = "read"
         \/ lock = c /\ lock' = c /\ to.at \in {"state", "stop", "start"},
         to.at = "start" => captures = {}
  PROVE  CaptureInv'
<1>1. None \notin Connections
  BY DxgiCaptureAssumption
<1>2. /\ task' \in [Connections -> [at : {"read", "lock", "state", "stop", "start"},
                                    cmd : Commands \cup {None}]]
      /\ task'[c] = to /\ \A d \in Connections \ {c} : task'[d] = task[d]
  BY DEF CaptureInv, CaptureTypes
<1>3. LockInv'
  BY <1>1, <1>2 DEF CaptureInv, LockInv
<1>4. CaptureTypes' /\ UsedInv' /\ OneCapturePerDisplay'
  BY <1>2 DEF CaptureInv, CaptureTypes, UsedInv, OneCapturePerDisplay, Running
<1> QED
  BY <1>3, <1>4 DEF CaptureInv

LEMMA JoinInv ==
  ASSUME CaptureInv, NEW c \in Connections, JoinThread(c)
  PROVE  CaptureInv'
<1>1. /\ thread[First] = "done" /\ captures' = captures \ {First}
      /\ UNCHANGED <<task, lock, thread, display>>
  BY DEF JoinThread, pipeVars, threadVars
<1>2. CaptureTypes' /\ LockInv' /\ UsedInv'
  BY <1>1 DEF CaptureInv, CaptureTypes, LockInv, UsedInv
<1>3. OneCapturePerDisplay'
  <2>1. ASSUME NEW t \in Threads, Running(t) PROVE t \in captures'
    BY <1>1, <2>1 DEF CaptureInv, OneCapturePerDisplay, Running
  <2> QED
    BY <1>1, <2>1 DEF CaptureInv, OneCapturePerDisplay, Running
<1> QED
  BY <1>2, <1>3 DEF CaptureInv

\* The new threads are fresh ones, the old ones have been joined.
LEMMA StartInv ==
  ASSUME CaptureInv, NEW c \in Connections, NEW targets \in SUBSET Displays,
         StartCaptures(c, targets)
  PROVE  CaptureInv'
<1>1. PICK n \in 0 .. MaxThreads : \A t \in Threads : thread[t] = "unused" <=> t > n
  BY DEF CaptureInv, UsedInv
<1> DEFINE k   == Cardinality(targets)
           new == n + 1 .. n + 1 + k - 1
           of  == CHOOSE f \in [new -> targets] : \A d \in targets : \E t \in new : f[t] = d
<1>2. NextThread = n + 1 /\ n \in Nat /\ k \in Nat
  BY <1>1, NextThreadIs, FS_Subset, FS_CardinalityType, DxgiCaptureAssumption
<1>3. of \in [new -> targets] /\ \A t, u \in new : of[t] = of[u] => t = u
  BY <1>2, EachItsOwn
<1>4. /\ new \subseteq Threads
      /\ captures' = captures \cup new
      /\ thread' = [t \in Threads |-> IF t \in new THEN "setup" ELSE thread[t]]
      /\ display' = [t \in Threads |-> IF t \in new THEN of[t] ELSE display[t]]
  BY <1>2 DEF StartCaptures
<1> HIDE DEF of
<1>5. task[c].at = "start" /\ task' = [task EXCEPT ![c] = Idle] /\ lock' = None
  BY DEF StartCaptures, Answer
<1>6. lock = c /\ captures = {} /\ None \notin Connections
  BY <1>5, DxgiCaptureAssumption DEF CaptureInv, LockInv
<1>7. Idle \in [at : {"read", "lock", "state", "stop", "start"}, cmd : Commands \cup {None}]
  BY DEF Idle
<1>8. /\ task' \in [Connections -> [at : {"read", "lock", "state", "stop", "start"},
                                    cmd : Commands \cup {None}]]
      /\ task'[c].at = "read" /\ \A d \in Connections \ {c} : task'[d] = task[d]
  BY <1>5, <1>7 DEF CaptureInv, CaptureTypes, Idle
<1>9. CaptureTypes'
  BY <1>3, <1>4, <1>6, <1>8 DEF CaptureInv, CaptureTypes, ThreadStates
<1>10. LockInv'
  <2>1. \A d \in Connections : task'[d].at \notin {"state", "stop", "start"}
    BY <1>6, <1>8 DEF CaptureInv, LockInv
  <2> QED
    BY <1>5, <1>6, <2>1 DEF LockInv
<1>11. UsedInv'
  <2>1. n + k \in 0 .. MaxThreads
    <3>1. CASE k = 0
      BY <1>2, <3>1
    <3>2. CASE k # 0
      <4>1. n + k \in new
        BY <1>2, <3>2
      <4> QED
        BY <1>2, <1>4, <4>1, DxgiCaptureAssumption DEF Threads
    <3> QED
      BY <3>1, <3>2
  <2>2. ASSUME NEW t \in Threads
        PROVE  thread'[t] = "unused" <=> t > n + k
    <3>1. t \in Nat /\ thread'[t] = IF t \in new THEN "setup" ELSE thread[t]
      BY <1>4 DEF Threads
    <3>2. CASE t \in new
      BY <1>2, <3>1, <3>2
    <3>3. CASE t \notin new
      BY <1>1, <1>2, <3>1, <3>3
    <3> QED
      BY <3>2, <3>3
  <2> QED
    BY <2>1, <2>2 DEF UsedInv
<1>12. OneCapturePerDisplay'
  <2>1. ASSUME NEW t \in Threads, thread'[t] \notin {"unused", "done"} PROVE t \in captures'
    BY <1>4, <1>6, <2>1 DEF CaptureInv, OneCapturePerDisplay, Running
  <2>2. ASSUME NEW t \in captures', NEW u \in captures', display'[t] = display'[u] PROVE t = u
    <3>1. t \in new /\ u \in new
      BY <1>4, <1>6
    <3>2. display'[t] = of[t] /\ display'[u] = of[u]
      BY <1>4, <3>1
    <3> QED
      BY <1>3, <2>2, <3>1, <3>2
  <2> QED
    BY <2>1, <2>2 DEF OneCapturePerDisplay, Running
<1> QED
  BY <1>9, <1>10, <1>11, <1>12 DEF CaptureInv
LEMMA TaskStep ==
  ASSUME CaptureInv, NEW c \in Connections, Task(c)
  PROVE  CaptureInv'
<1> DEFINE Positions == [at : {"read", "lock", "state", "stop", "start"}, cmd : Commands \cup {None}]
<1>1. task \in [Connections -> Positions] /\ task[c] \in Positions /\ None \notin Connections
  BY DxgiCaptureAssumption DEF CaptureInv, CaptureTypes
<1>2. Idle \in Positions /\ Idle.at = "read"
  BY DEF Idle
<1>3. \A l \in {"read", "lock", "state", "stop", "start"} :
        [task[c] EXCEPT !.at = l] \in Positions /\ [task[c] EXCEPT !.at = l].at = l
  BY <1>1
<1>4. task[c].at \in {"state", "stop", "start"} <=> lock = c
  BY DEF CaptureInv, LockInv
<1>5. CASE Read(c)
  BY <1>1, <1>5, QuietInv DEF Read, serviceVars, threadVars
<1>6. CASE TakeMessage(c)
  <2>1. /\ UNCHANGED <<lock, captures, thread, display>> /\ task[c].at = "read"
        /\ \E to \in Positions : to.at \in {"read", "lock"} /\ task' = [task EXCEPT ![c] = to]
    <3> DEFINE m == Head(buf[c])
    <3>1. /\ UNCHANGED <<lock, captures, thread, display>>
          /\ task[c] = Idle
          /\ task' = [task EXCEPT ![c] = IF m \in Commands THEN [at |-> "lock", cmd |-> m] ELSE task[c]]
      BY <1>6 DEF TakeMessage, serviceVars, threadVars
    <3>2. m \in Commands => [at |-> "lock", cmd |-> m] \in Positions
      OBVIOUS
    <3> QED
      BY <1>2, <3>1, <3>2
  <2>2. PICK to \in Positions : to.at \in {"read", "lock"} /\ task' = [task EXCEPT ![c] = to]
    BY <2>1
  <2>3. /\ task' \in [Connections -> Positions] /\ task'[c] = to
        /\ \A d \in Connections \ {c} : task'[d] = task[d]
    BY <1>1, <2>2
  <2> QED
    BY <2>1, <2>2, <2>3, QuietInv
<1>7. CASE LockService(c)
  <2>1. /\ lock = None /\ lock' = c /\ UNCHANGED <<captures, thread, display>>
        /\ \E l \in {"state", "stop"} : task' = [task EXCEPT ![c] = [task[c] EXCEPT !.at = l]]
    BY <1>7 DEF LockService, Goto, threadVars
  <2> QED
    BY <1>3, <2>1, TaskInv
<1>8. CASE QueryState(c) \/ StartFails(c)
  <2>1. lock = c /\ lock' = None /\ UNCHANGED <<captures, thread, display>>
        /\ task' = [task EXCEPT ![c] = Idle]
    BY <1>4, <1>8 DEF QueryState, StartFails, Answer, threadVars
  <2> QED
    BY <1>2, <2>1, TaskInv
<1>9. CASE SignalThread(c)
  <2>1. UNCHANGED <<task, lock, captures, thread, display>>
    BY <1>9 DEF SignalThread, pipeVars, serviceVars
  <2> QED
    BY <1>1, <2>1, QuietInv
<1>10. CASE JoinThread(c)
  BY <1>10, JoinInv
<1>11. CASE Stopped(c)
  <2>1. lock = c /\ captures = {} /\ UNCHANGED <<captures, thread, display>>
    BY <1>4, <1>11 DEF Stopped, threadVars
  <2>2. \/ task' = [task EXCEPT ![c] = Idle] /\ lock' = None
        \/ task' = [task EXCEPT ![c] = [task[c] EXCEPT !.at = "start"]] /\ lock' = lock
    BY <1>11 DEF Stopped, Answer, Goto
  <2> QED
    BY <1>2, <1>3, <2>1, <2>2, TaskInv
<1>12. ASSUME NEW targets \in SUBSET Displays, StartCaptures(c, targets) PROVE CaptureInv'
  BY <1>12, StartInv
<1> QED
  BY <1>5, <1>6, <1>7, <1>8, <1>9, <1>10, <1>11, <1>12 DEF Task
-----------------------------------------------------------------------------
LEMMA CaptureInit == Init => CaptureInv
<1> SUFFICES ASSUME Init PROVE CaptureInv
  OBVIOUS
<1>1. CaptureTypes
  BY DEF Init, CaptureTypes, Idle, ThreadStates
<1>2. LockInv
  BY DxgiCaptureAssumption DEF Init, LockInv, Idle
<1>3. UsedInv
  <2>1. 0 \in 0 .. MaxThreads
    BY DxgiCaptureAssumption
  <2>2. \A t \in Threads : thread[t] = "unused" <=> t > 0
    BY DEF Init, Threads
  <2> QED
    BY <2>1, <2>2 DEF UsedInv
<1>4. OneCapturePerDisplay
  BY DEF Init, OneCapturePerDisplay, Running
<1> QED
  BY <1>1, <1>2, <1>3, <1>4 DEF CaptureInv

LEMMA CaptureStep ==
  ASSUME CaptureInv, [Next]_vars
  PROVE  CaptureInv'
<1>1. task \in [Connections -> [at : {"read", "lock", "state", "stop", "start"},
                                cmd : Commands \cup {None}]]
  BY DEF CaptureInv, CaptureTypes
<1>2. ASSUME NEW c \in Connections, NEW m \in Messages, Send(c, m) PROVE CaptureInv'
  BY <1>1, <1>2, QuietInv DEF Send, serviceVars, threadVars
<1>3. ASSUME NEW d \in Watched, BeginRead(d) \/ EndRead(d) PROVE CaptureInv'
  BY <1>1, <1>3, QuietInv DEF BeginRead, EndRead, pipeVars, serviceVars, threadVars
<1>4. CASE UNCHANGED vars
  BY <1>1, <1>4, QuietInv DEF vars
<1> QED
  BY <1>2, <1>3, <1>4, TaskStep, ThreadInv DEF Next

THEOREM CaptureInvariant == Spec => []CaptureInv
BY CaptureInit, CaptureStep, PTL DEF Spec

\* A capture thread that runs is one that stop_recording will end, and no display has two,
\* however commands of several programs follow each other (service.rs:22 to 85).
THEOREM OneCaptureEver == Spec => []OneCapturePerDisplay
<1>1. CaptureInv => OneCapturePerDisplay
  BY DEF CaptureInv
<1> QED
  BY <1>1, CaptureInvariant, PTL
-----------------------------------------------------------------------------
(* The slots of a ring of at least two *)

LEMMA ModIs ==
  ASSUME NEW S \in Nat \ {0}, NEW q \in Nat, NEW r \in 0 .. S - 1
  PROVE  (q * S + r) % S = r
BY SMT

LEMMA DivMod ==
  ASSUME NEW S \in Nat \ {0}, NEW n \in Nat
  PROVE  \E q \in Nat : \E r \in 0 .. S - 1 : n = q * S + r
<1>1. PICK q \in Int : n % S = n - q * S
  BY SMT
<1>2. n % S \in 0 .. S - 1
  BY SMT
<1>3. q >= 0
  <2>1. SUFFICES ASSUME q <= -1 PROVE FALSE
    BY SMT
  <2>2. q * S <= (-1) * S
    BY <2>1, SMT
  <2> QED
    BY <1>1, <1>2, <2>2, SMT
<1> QED
  BY <1>1, <1>2, <1>3, SMT

\* Less than a turn of the ring leads to another slot.
LEMMA AnotherSlot ==
  ASSUME NEW S \in Nat \ {0}, NEW n \in Nat, NEW k \in 1 .. S - 1
  PROVE  (n + k) % S # n % S
<1>1. PICK q \in Nat, r \in 0 .. S - 1 : n = q * S + r
  BY DivMod
<1>2. n % S = r
  BY <1>1, ModIs
<1>3. CASE r + k <= S - 1
  <2>1. n + k = q * S + (r + k) /\ r + k \in 0 .. S - 1
    BY <1>1, <1>3
  <2>2. (n + k) % S = r + k
    BY <2>1, ModIs
  <2> QED
    BY <1>2, <2>2
<1>4. CASE r + k >= S
  <2>1. n + k = (q + 1) * S + (r + k - S) /\ q + 1 \in Nat /\ r + k - S \in 0 .. S - 1
    BY <1>1, <1>4
  <2>2. (n + k) % S = r + k - S
    BY <2>1, ModIs
  <2> QED
    BY <1>2, <2>2
<1> QED
  BY <1>3, <1>4

\* A turn of the ring leads to the same slot.
LEMMA OneTurn ==
  ASSUME NEW S \in Nat \ {0}, NEW n \in Nat
  PROVE  (n + S) % S = n % S
<1>1. PICK q \in Nat, r \in 0 .. S - 1 : n = q * S + r
  BY DivMod
<1>2. n + S = (q + 1) * S + r /\ q + 1 \in Nat
  BY <1>1
<1> QED
  BY <1>1, <1>2, ModIs
-----------------------------------------------------------------------------
(* A reader and its ring *)

Sections == [cap : Nat, size : Nat, seq : Nat, slot : [0 .. Slots - 1 -> Nat]]
Readers  == [open : BOOLEAN, seq : Nat, frame : Nat, reset : BOOLEAN, torn : BOOLEAN]

\* The slot a reader copies.
ReadSlot(r) == (r.seq + Slots - 1) % Slots

\* A ring that has frames has a whole newest one; a reader has begun with such a frame, and
\* while it was overtaken by Slots - 2 frames at most the slot it copies still has it.
Whole(s, r) ==
  /\ s.seq > 0 => Newest(s) # Torn
  /\ ~r.torn
  /\ r.open => r.frame # Torn
  /\ r.open /\ ~r.reset =>
       /\ r.seq <= s.seq
       /\ s.seq <= r.seq + Slots - 2 => s.slot[ReadSlot(r)] = r.frame

RingInv ==
  /\ section \in [Displays -> Sections]
  /\ reader \in [Displays -> Readers]
  /\ frames \in Nat
  /\ \A t \in Threads : thread[t] = "write" => frames > 0
  /\ \A d \in Displays : Whole(section[d], reader[d])

\* The slot that is written is neither the newest nor that of a reader little overtaken.
LEMMA TargetIsFree ==
  ASSUME Slots >= 2, NEW s \in Sections, NEW r \in Readers
  PROVE  /\ Target(s) \in 0 .. Slots - 1 /\ ReadSlot(r) \in 0 .. Slots - 1
         /\ (s.seq + Slots - 1) % Slots \in (0 .. Slots - 1) \ {Target(s)}
         /\ (s.seq + Slots) % Slots = Target(s)
         /\ r.seq <= s.seq /\ s.seq <= r.seq + Slots - 2 => ReadSlot(r) # Target(s)
<1>1. Slots \in Nat \ {0} /\ s.seq \in Nat /\ r.seq \in Nat
  BY SlotsAssumption DEF Sections, Readers
<1> DEFINE n == s.seq
           k == r.seq + Slots - 1 - n
<1>2. n % Slots \in 0 .. Slots - 1 /\ (n + Slots - 1) % Slots \in 0 .. Slots - 1
        /\ (r.seq + Slots - 1) % Slots \in 0 .. Slots - 1
  BY <1>1
<1>3. (n + (Slots - 1)) % Slots # n % Slots
  BY <1>1, AnotherSlot
<1>4. n + (Slots - 1) = n + Slots - 1
  BY <1>1
<1>5. ASSUME r.seq <= n, n <= r.seq + Slots - 2
      PROVE  (r.seq + Slots - 1) % Slots # n % Slots
  <2>1. k \in 1 .. Slots - 1 /\ n + k = r.seq + Slots - 1
    BY <1>1, <1>5
  <2>2. (n + k) % Slots # n % Slots
    BY <1>1, <2>1, AnotherSlot
  <2> QED
    BY <2>1, <2>2
<1>6. (n + Slots) % Slots = n % Slots
  BY <1>1, OneTurn
<1> QED
  BY <1>2, <1>3, <1>4, <1>5, <1>6 DEF Target, ReadSlot

LEMMA BegunWhole ==
  ASSUME Slots >= 2, NEW s \in Sections, NEW r \in Readers, Whole(s, r)
  PROVE  WriteBegun(s) \in Sections /\ Whole(WriteBegun(s), r)
<1> DEFINE new == (s.seq + Slots - 1) % Slots
           slots == [s.slot EXCEPT ![Target(s)] = 0]
<1>1. WriteBegun(s) = [cap |-> s.cap, size |-> s.size, seq |-> s.seq, slot |-> slots]
  BY DEF WriteBegun, Torn, Sections
<1>2. s.slot \in [0 .. Slots - 1 -> Nat] /\ s.seq \in Nat /\ r.seq \in Nat
  BY DEF Sections, Readers
<1>3. slots \in [0 .. Slots - 1 -> Nat] /\ slots[new] = s.slot[new]
  BY <1>2, TargetIsFree
<1>4. r.seq <= s.seq /\ s.seq <= r.seq + Slots - 2 => slots[ReadSlot(r)] = s.slot[ReadSlot(r)]
  BY <1>2, TargetIsFree
<1>5. WriteBegun(s) \in Sections
  BY <1>1, <1>3 DEF Sections
<1>6. WriteBegun(s).seq = s.seq /\ WriteBegun(s).slot = slots
  BY <1>1
<1>7. Newest(WriteBegun(s)) = Newest(s)
  BY <1>3, <1>6 DEF Newest
<1> HIDE DEF slots, new
<1> QED
  BY <1>4, <1>5, <1>6, <1>7 DEF Whole

LEMMA EndedWhole ==
  ASSUME Slots >= 2, NEW s \in Sections, NEW r \in Readers, Whole(s, r),
         NEW f \in Nat \ {0}
  PROVE  WriteEnded(s, f) \in Sections /\ Whole(WriteEnded(s, f), r)
<1> DEFINE slots == [s.slot EXCEPT ![Target(s)] = f]
<1>1. WriteEnded(s, f) = [cap |-> s.cap, size |-> s.size, seq |-> s.seq + 1, slot |-> slots]
  <2>1. [s EXCEPT !.slot[Target(s)] = f]
          = [cap |-> s.cap, size |-> s.size, seq |-> s.seq, slot |-> slots]
    BY DEF Sections
  <2>2. WriteEnded(s, f) = [[s EXCEPT !.slot[Target(s)] = f] EXCEPT !.seq = s.seq + 1]
    BY DEF WriteEnded
  <2> QED
    BY <2>1, <2>2
<1>2. s.slot \in [0 .. Slots - 1 -> Nat] /\ s.seq \in Nat /\ r.seq \in Nat /\ Slots \in Nat
  BY SlotsAssumption DEF Sections, Readers
<1>3. slots \in [0 .. Slots - 1 -> Nat] /\ slots[Target(s)] = f
  BY <1>2, TargetIsFree
<1>4. r.seq <= s.seq /\ s.seq <= r.seq + Slots - 2 => slots[ReadSlot(r)] = s.slot[ReadSlot(r)]
  BY <1>2, TargetIsFree
<1>5. WriteEnded(s, f) \in Sections
  BY <1>1, <1>2, <1>3 DEF Sections
<1>6. WriteEnded(s, f).seq = s.seq + 1 /\ WriteEnded(s, f).slot = slots
  BY <1>1
<1>7. Newest(WriteEnded(s, f)) = f
  <2>1. s.seq + 1 + Slots - 1 = s.seq + Slots
    BY <1>2
  <2> QED
    BY <1>3, <1>6, <2>1, TargetIsFree DEF Newest
<1>8. /\ r.seq <= s.seq => r.seq <= s.seq + 1
      /\ s.seq + 1 <= r.seq + Slots - 2 => s.seq <= r.seq + Slots - 2
  BY <1>2
<1> HIDE DEF slots
<1> QED
  BY <1>4, <1>5, <1>6, <1>7, <1>8 DEF Whole, Torn

\* The header is written anew: a reader at work is one the ring was reset under.
LEMMA OpenedWhole ==
  ASSUME NEW s \in Sections, NEW r \in Readers, Whole(s, r), NEW n \in Sizes
  PROVE  /\ Opened(s, n) \in Sections
         /\ [r EXCEPT !.reset = r.open] \in Readers
         /\ Whole(Opened(s, n), [r EXCEPT !.reset = r.open])
<1>1. n \in Nat /\ Slots \in Nat
  BY DxgiCaptureAssumption, SlotsAssumption
<1>2. Blank \in [0 .. Slots - 1 -> Nat]
  BY DEF Blank, Torn
<1>3. Opened(s, n) \in Sections /\ Opened(s, n).seq = 0
  BY <1>1, <1>2 DEF Opened, Sections
<1>4. [r EXCEPT !.reset = r.open] \in Readers
  BY DEF Readers
<1> DEFINE q == [r EXCEPT !.reset = r.open]
<1>5. q.open = r.open /\ q.frame = r.frame /\ q.torn = r.torn /\ q.reset = r.open
  BY DEF Readers
<1> QED
  BY <1>3, <1>4, <1>5 DEF Whole

LEMMA NoSectionWhole ==
  ASSUME NEW r \in Readers, ~r.open, ~r.torn
  PROVE  NoSection \in Sections /\ Whole(NoSection, r)
<1>1. Blank \in [0 .. Slots - 1 -> Nat] /\ 0 \in Nat
  BY SlotsAssumption DEF Blank, Torn
<1>2. NoSection \in Sections /\ NoSection.seq = 0
  BY <1>1 DEF NoSection, Sections
<1> QED
  BY <1>2 DEF Whole

\* A section that is closed, if it is at all, is one that nobody reads.
LEMMA EndThreadWhole ==
  ASSUME RingInv, NEW t \in Threads, NEW from \in ThreadStates \ {"write"},
         thread \in [Threads -> ThreadStates],
         EndThread(t, from), UNCHANGED <<reader, frames>>
  PROVE  RingInv'
<1>1. /\ thread' = [thread EXCEPT ![t] = "done"]
      /\ section' = [section EXCEPT
           ![display[t]] = IF size[t] = 0 \/ StillOpen(display[t], t) THEN @ ELSE NoSection]
  BY DEF EndThread, ThreadStep
<1>2. \A u \in Threads : thread'[u] = "write" => frames' > 0
  BY <1>1 DEF RingInv
<1>3. ASSUME NEW d \in Displays
      PROVE  section'[d] \in Sections /\ Whole(section'[d], reader[d])
  <2>1. section[d] \in Sections /\ reader[d] \in Readers /\ Whole(section[d], reader[d])
    BY DEF RingInv
  <2>2. CASE section'[d] = section[d]
    BY <2>1, <2>2
  <2>3. CASE section'[d] # section[d]
    <3>1. d = display[t] /\ ~StillOpen(d, t) /\ section'[d] = NoSection
      BY <1>1, <2>3 DEF RingInv
    <3>2. ~reader[d].open /\ ~reader[d].torn
      BY <2>1, <3>1 DEF StillOpen, Whole
    <3> QED
      BY <2>1, <3>1, <3>2, NoSectionWhole
  <2> QED
    BY <2>2, <2>3
<1>4. section' \in [Displays -> Sections]
  BY <1>1, <1>3 DEF RingInv
<1> QED
  BY <1>2, <1>3, <1>4 DEF RingInv

LEMMA ThreadRing ==
  ASSUME Slots >= 2, CaptureInv, RingInv, NEW t \in Threads, Thread(t)
  PROVE  RingInv'
<1>1. /\ thread \in [Threads -> ThreadStates]
      /\ section \in [Displays -> Sections] /\ reader \in [Displays -> Readers]
      /\ frames \in Nat
      /\ \A d \in Displays : Whole(section[d], reader[d])
  BY DEF CaptureInv, CaptureTypes, RingInv
<1>2. CASE SetupFails(t) \/ CaptureFails(t)
  BY <1>1, <1>2, EndThreadWhole DEF SetupFails, CaptureFails, ThreadStates
<1>3. CASE CreateDuplication(t) \/ NoFrame(t)
  <2>1. /\ UNCHANGED shmVars
        /\ \E to \in {"loop"} : thread' = [thread EXCEPT ![t] = to]
    BY <1>3 DEF CreateDuplication, NoFrame, ThreadStep
  <2> QED
    BY <1>1, <2>1 DEF RingInv, shmVars
<1>4. CASE LooksAtTerminate(t)
  <2>1. CASE EndThread(t, "loop")
    BY <1>1, <1>4, <2>1, EndThreadWhole DEF LooksAtTerminate, ThreadStates
  <2>2. CASE ThreadStep(t, "loop", "acquire") /\ UNCHANGED section
    BY <1>1, <1>4, <2>2 DEF LooksAtTerminate, ThreadStep, RingInv
  <2> QED
    BY <1>4, <2>1, <2>2 DEF LooksAtTerminate
<1>5. ASSUME NEW n \in Sizes, CreateShared(t, n) PROVE RingInv'
  <2>1. /\ thread' = [thread EXCEPT ![t] = "duplicate"]
        /\ section' = [section EXCEPT ![display[t]] = Opened(@, n)]
        /\ reader' = [reader EXCEPT ![display[t]].reset = reader[display[t]].open]
        /\ frames' = frames
    BY <1>5 DEF CreateShared, ThreadStep
  <2>2. ASSUME NEW d \in Displays
        PROVE  /\ section'[d] \in Sections /\ reader'[d] \in Readers
               /\ Whole(section'[d], reader'[d])
    <3>1. CASE d = display[t]
      <4>1. section'[d] = Opened(section[d], n) /\ reader'[d] = [reader[d] EXCEPT !.reset = reader[d].open]
        BY <1>1, <2>1, <3>1
      <4> QED
        BY <1>1, <4>1, OpenedWhole
    <3>2. CASE d # display[t]
      <4>1. section'[d] = section[d] /\ reader'[d] = reader[d]
        BY <1>1, <2>1, <3>2
      <4> QED
        BY <1>1, <4>1
    <3> QED
      BY <3>1, <3>2
  <2>3. section' \in [Displays -> Sections] /\ reader' \in [Displays -> Readers]
    BY <1>1, <2>1, <2>2
  <2>4. \A u \in Threads : thread'[u] = "write" => frames' > 0
    BY <1>1, <2>1 DEF RingInv
  <2> QED
    BY <1>1, <2>1, <2>2, <2>3, <2>4 DEF RingInv
<1>6. CASE WriteFrame(t)
  <2>1. /\ section' = [section EXCEPT ![display[t]] = WriteBegun(@)]
        /\ frames' = frames + 1 /\ reader' = reader
    BY <1>6 DEF WriteFrame
  <2>2. ASSUME NEW d \in Displays
        PROVE  section'[d] \in Sections /\ Whole(section'[d], reader[d])
    <3>1. section'[d] = section[d] \/ section'[d] = WriteBegun(section[d])
      BY <1>1, <2>1
    <3> QED
      BY <1>1, <3>1, BegunWhole
  <2>3. section' \in [Displays -> Sections]
    BY <1>1, <2>1, <2>2
  <2>4. frames' \in Nat /\ frames' > 0
    BY <1>1, <2>1
  <2> QED
    BY <1>1, <2>1, <2>2, <2>3, <2>4 DEF RingInv
<1>7. CASE FrameWritten(t)
  <2>1. /\ section' = [section EXCEPT ![display[t]] = WriteEnded(@, frames)]
        /\ thread' = [thread EXCEPT ![t] = "loop"]
        /\ frames' = frames /\ reader' = reader
        /\ thread[t] = "write"
    BY <1>7 DEF FrameWritten, ThreadStep
  <2>2. frames \in Nat \ {0}
    BY <1>1, <2>1 DEF RingInv
  <2>3. ASSUME NEW d \in Displays
        PROVE  section'[d] \in Sections /\ Whole(section'[d], reader[d])
    <3>1. section'[d] = section[d] \/ section'[d] = WriteEnded(section[d], frames)
      BY <1>1, <2>1
    <3> QED
      BY <1>1, <2>2, <3>1, EndedWhole
  <2>4. section' \in [Displays -> Sections]
    BY <1>1, <2>1, <2>3
  <2> QED
    BY <1>1, <2>1, <2>2, <2>3, <2>4 DEF RingInv
<1> QED
  BY <1>2, <1>3, <1>4, <1>5, <1>6, <1>7 DEF Thread

\* A reader takes the newest frame, which is whole, and ends with what it took.
LEMMA ReaderRing ==
  ASSUME RingInv, NEW d \in Watched, BeginRead(d) \/ EndRead(d)
  PROVE  RingInv'
<1>1. /\ section \in [Displays -> Sections] /\ reader \in [Displays -> Readers]
      /\ frames \in Nat /\ d \in Displays
      /\ \A e \in Displays : Whole(section[e], reader[e])
      /\ \A t \in Threads : thread[t] = "write" => frames > 0
  BY DxgiCaptureAssumption DEF RingInv
<1>2. thread' = thread /\ frames' = frames
  BY DEF BeginRead, EndRead, threadVars
<1>3. Slots \in Nat \ {0} /\ section[d] \in Sections /\ section[d].seq \in Nat
  BY <1>1, SlotsAssumption DEF Sections
<1>4. CASE BeginRead(d)
  <2> DEFINE s == section[d]
             new == [open |-> TRUE, seq |-> s.seq, frame |-> Newest(s), reset |-> FALSE, torn |-> FALSE]
  <2>1. section' = section /\ reader' = [reader EXCEPT ![d] = new] /\ s.seq > 0
    BY <1>4 DEF BeginRead
  <2>2. Newest(s) \in Nat
    BY <1>3 DEF Newest, Sections
  <2>3. new \in Readers
    BY <1>3, <2>2 DEF Readers
  <2>4. Whole(s, new)
    BY <1>1, <1>3, <2>1 DEF Whole, Newest, ReadSlot
  <2> HIDE DEF new
  <2> QED
    BY <1>1, <1>2, <2>1, <2>3, <2>4 DEF RingInv
<1>5. CASE EndRead(d)
  <2> DEFINE s == section[d]
             r == reader[d]
             accepted == s.seq <= r.seq + Slots - 2 /\ ~r.reset
             torn == accepted /\ (r.frame = Torn \/ SlotRead(d) # r.frame)
             new == [NotReading EXCEPT !.torn = torn]
  <2>1. reader' = [reader EXCEPT ![d] = new] /\ r.open
    BY <1>5 DEF EndRead
  <2>2. SlotRead(d) = s.slot[ReadSlot(r)]
    BY DEF SlotRead, ReadSlot
  <2>3. ~torn
    BY <1>1, <2>1, <2>2 DEF Whole
  <2>4. new \in Readers /\ ~new.open /\ ~new.torn
    BY <2>3 DEF NotReading, Readers, Torn
  <2>5. section' = [section EXCEPT ![d] = s] \/ section' = [section EXCEPT ![d] = NoSection]
    BY <1>5 DEF EndRead
  <2> HIDE DEF new, torn
  <2>6. section'[d] \in {s, NoSection} /\ reader'[d] = new
    BY <1>1, <2>1, <2>5
  <2>7. Whole(s, new)
    BY <1>1, <2>4 DEF Whole
  <2>8. ASSUME NEW e \in Displays
        PROVE  section'[e] \in Sections /\ reader'[e] \in Readers /\ Whole(section'[e], reader'[e])
    <3>1. CASE e = d
      BY <1>3, <2>4, <2>6, <2>7, <3>1, NoSectionWhole
    <3>2. CASE e # d
      BY <1>1, <2>1, <2>5, <3>2
    <3> QED
      BY <3>1, <3>2
  <2>9. section' \in [Displays -> Sections] /\ reader' \in [Displays -> Readers]
    BY <1>1, <2>1, <2>5, <2>8
  <2> QED
    BY <1>1, <1>2, <2>8, <2>9 DEF RingInv
<1> QED
  BY <1>4, <1>5

\* The service touches no ring, and a thread it starts is not writing.
LEMMA TaskRing ==
  ASSUME RingInv, NEW c \in Connections, Task(c)
  PROVE  RingInv'
<1>1. UNCHANGED shmVars
  BY DEF Task, Read, TakeMessage, LockService, QueryState, SignalThread, JoinThread, Stopped,
         StartFails, StartCaptures
<1>2. \/ thread' = thread
      \/ \E new \in SUBSET Threads :
           thread' = [t \in Threads |-> IF t \in new THEN "setup" ELSE thread[t]]
  BY DEF Task, Read, TakeMessage, LockService, QueryState, SignalThread, JoinThread, Stopped,
         StartFails, StartCaptures, threadVars
<1>3. \A t \in Threads : thread'[t] = "write" => thread[t] = "write"
  BY <1>2
<1> QED
  BY <1>1, <1>3 DEF RingInv, shmVars

LEMMA RingStep ==
  ASSUME Slots >= 2, CaptureInv, RingInv, [Next]_vars
  PROVE  RingInv'
<1>1. ASSUME NEW c \in Connections, NEW m \in Messages, Send(c, m) PROVE RingInv'
  BY <1>1 DEF Send, RingInv, shmVars, threadVars
<1>2. CASE UNCHANGED vars
  BY <1>2 DEF vars, RingInv
<1> QED
  BY <1>1, <1>2, TaskRing, ThreadRing, ReaderRing DEF Next

\* With two slots or more, a copy that was overtaken by Slots - 2 frames at most, from a ring that was
\* not made anew, is one whole frame (capture.rs:36, shared_memory.rs:88).
THEOREM OvertakenReadEver ==
  ASSUME Slots >= 2
  PROVE  Spec => []OvertakenReadIsWhole
<1>1. Init => RingInv
  <2> SUFFICES ASSUME Init PROVE RingInv
    OBVIOUS
  <2>1. NotReading \in Readers /\ ~NotReading.open /\ ~NotReading.torn
    BY DEF NotReading, Readers, Torn
  <2>2. NoSection \in Sections /\ Whole(NoSection, NotReading)
    BY <2>1, NoSectionWhole
  <2> QED
    BY <2>1, <2>2 DEF Init, RingInv
<1>2. CaptureInv /\ RingInv /\ [Next]_vars => RingInv'
  BY RingStep
<1>3. RingInv => OvertakenReadIsWhole
  BY DxgiCaptureAssumption DEF RingInv, Whole, OvertakenReadIsWhole
<1> QED
  BY <1>1, <1>2, <1>3, CaptureInvariant, PTL DEF Spec
-----------------------------------------------------------------------------
(* The bytes of a connection *)

Bytes == Messages \cup {"EOF"}

\* What comes k-th, of the buffer and then of the pipe.
Byte(b, w, k) == IF k <= Len(b) THEN b[k] ELSE w[k - Len(b)]

\* Buffer and pipe hold the messages after the first n, each with its EOF.
Stream(s, b, w, n) ==
  /\ n <= Len(s)
  /\ Len(b) + Len(w) = 2 * (Len(s) - n)
  /\ \A j \in 1 .. Len(s) - n :
       Byte(b, w, 2 * j - 1) = s[n + j] /\ Byte(b, w, 2 * j) = "EOF"

LEMMA StreamSent ==
  ASSUME NEW s \in Seq(Messages), NEW b \in Seq(Bytes), NEW w \in Seq(Bytes), NEW n \in Nat,
         Stream(s, b, w, n), NEW m \in Messages
  PROVE  /\ w \o <<m, "EOF">> \in Seq(Bytes)
         /\ Stream(Append(s, m), b, w \o <<m, "EOF">>, n)
<1> DEFINE t == Append(s, m)
           v == w \o <<m, "EOF">>
           k == Len(s) - n
<1>1. Len(b) \in Nat /\ Len(w) \in Nat /\ Len(s) \in Nat
  OBVIOUS
<1>2. <<m, "EOF">> \in Seq(Bytes) /\ Len(<<m, "EOF">>) = 2
  BY DEF Bytes
<1>3. /\ v \in Seq(Bytes)
      /\ Len(v) = Len(w) + 2
      /\ \A i \in 1 .. Len(w) : v[i] = w[i]
      /\ v[Len(w) + 1] = m /\ v[Len(w) + 2] = "EOF"
  <2>1. /\ v \in Seq(Bytes)
        /\ Len(v) = Len(w) + 2
        /\ \A i \in 1 .. Len(w) + 2 : v[i] = IF i <= Len(w) THEN w[i] ELSE <<m, "EOF">>[i - Len(w)]
    BY <1>2, ConcatProperties
  <2>2. Len(w) + 1 - Len(w) = 1 /\ Len(w) + 2 - Len(w) = 2
    BY <1>1
  <2> HIDE DEF v
  <2> QED
    BY <1>1, <2>1, <2>2
<1>4. /\ Len(t) = Len(s) + 1
      /\ \A i \in 1 .. Len(s) : t[i] = s[i]
      /\ t[Len(s) + 1] = m
  BY AppendProperties
<1>5. /\ n <= Len(s) /\ Len(b) + Len(w) = 2 * k
      /\ \A j \in 1 .. k : Byte(b, w, 2 * j - 1) = s[n + j] /\ Byte(b, w, 2 * j) = "EOF"
  BY DEF Stream
<1> HIDE DEF t, v
<1>6. k \in Nat /\ Len(t) - n = k + 1
  BY <1>1, <1>4, <1>5
<1>7. ASSUME NEW j \in 1 .. k
      PROVE  Byte(b, v, 2 * j - 1) = t[n + j] /\ Byte(b, v, 2 * j) = "EOF"
  <2>1. \A i \in 1 .. 2 * k : Byte(b, v, i) = Byte(b, w, i)
    BY <1>1, <1>3, <1>5 DEF Byte
  <2>2. 2 * j - 1 \in 1 .. 2 * k /\ 2 * j \in 1 .. 2 * k
    BY <1>6
  <2>3. n + j \in 1 .. Len(s)
    BY <1>1, <1>5, <1>6
  <2> QED
    BY <1>4, <1>5, <2>1, <2>2, <2>3
<1>8. Byte(b, v, 2 * (k + 1) - 1) = t[n + (k + 1)] /\ Byte(b, v, 2 * (k + 1)) = "EOF"
  <2>1. /\ 2 * (k + 1) - 1 = Len(b) + Len(w) + 1
        /\ 2 * (k + 1) = Len(b) + Len(w) + 2
        /\ n + (k + 1) = Len(s) + 1
    BY <1>1, <1>5, <1>6
  <2>2. Byte(b, v, Len(b) + Len(w) + 1) = m /\ Byte(b, v, Len(b) + Len(w) + 2) = "EOF"
    <3>1. /\ ~(Len(b) + Len(w) + 1 <= Len(b)) /\ ~(Len(b) + Len(w) + 2 <= Len(b))
          /\ Len(b) + Len(w) + 1 - Len(b) = Len(w) + 1
          /\ Len(b) + Len(w) + 2 - Len(b) = Len(w) + 2
      BY <1>1
    <3> QED
      BY <1>3, <3>1 DEF Byte
  <2> QED
    BY <1>4, <2>1, <2>2
<1>9. \A j \in 1 .. Len(t) - n :
        Byte(b, v, 2 * j - 1) = t[n + j] /\ Byte(b, v, 2 * j) = "EOF"
  <2>1. \A j \in 1 .. Len(t) - n : j \in 1 .. k \/ j = k + 1
    BY <1>6
  <2> QED
    BY <1>7, <1>8, <2>1
<1>10. n <= Len(t) /\ Len(b) + Len(v) = 2 * (Len(t) - n)
  BY <1>1, <1>3, <1>4, <1>5
<1>11. v \in Seq(Bytes) /\ Stream(t, b, v, n)
  BY <1>3, <1>9, <1>10 DEF Stream
<1> QED
  BY <1>11 DEF t, v

LEMMA StreamRead ==
  ASSUME NEW s \in Seq(Messages), NEW b \in Seq(Bytes), NEW w \in Seq(Bytes), NEW n \in Nat,
         Stream(s, b, w, n), NEW i \in 1 .. Len(w)
  PROVE  /\ b \o SubSeq(w, 1, i) \in Seq(Bytes)
         /\ SubSeq(w, i + 1, Len(w)) \in Seq(Bytes)
         /\ Stream(s, b \o SubSeq(w, 1, i), SubSeq(w, i + 1, Len(w)), n)
<1> DEFINE a == b \o SubSeq(w, 1, i)
           v == SubSeq(w, i + 1, Len(w))
<1>1. Len(b) \in Nat /\ Len(w) \in Nat /\ Len(s) \in Nat /\ i \in Nat
  OBVIOUS
<1>2. \A j \in 1 .. Len(w) : w[j] \in Bytes
  OBVIOUS
<1>3. /\ SubSeq(w, 1, i) \in Seq(Bytes)
      /\ Len(SubSeq(w, 1, i)) = i
      /\ \A j \in 1 .. i : SubSeq(w, 1, i)[j] = w[j]
  <2>1. \A j \in 1 .. i : w[j] \in Bytes
    BY <1>1, <1>2
  <2>2. /\ SubSeq(w, 1, i) \in Seq(Bytes)
        /\ Len(SubSeq(w, 1, i)) = IF 1 <= i THEN i - 1 + 1 ELSE 0
        /\ \A j \in 1 .. i - 1 + 1 : SubSeq(w, 1, i)[j] = w[1 + j - 1]
    BY <1>1, <2>1, SubSeqProperties
  <2>3. i - 1 + 1 = i /\ 1 <= i /\ \A j \in 1 .. i : 1 + j - 1 = j
    BY <1>1
  <2> QED
    BY <2>2, <2>3
<1>4. /\ v \in Seq(Bytes)
      /\ Len(v) = Len(w) - i
      /\ \A j \in 1 .. Len(w) - i : v[j] = w[i + j]
  <2>1. \A j \in i + 1 .. Len(w) : w[j] \in Bytes
    BY <1>1, <1>2
  <2>2. /\ v \in Seq(Bytes)
        /\ Len(v) = IF i + 1 <= Len(w) THEN Len(w) - (i + 1) + 1 ELSE 0
        /\ \A j \in 1 .. Len(w) - (i + 1) + 1 : v[j] = w[i + 1 + j - 1]
    BY <1>1, <2>1, SubSeqProperties
  <2>3. /\ Len(w) - (i + 1) + 1 = Len(w) - i
        /\ ~(i + 1 <= Len(w)) => Len(w) - i = 0
        /\ \A j \in 1 .. Len(w) - i : i + 1 + j - 1 = i + j
    BY <1>1
  <2> QED
    BY <2>2, <2>3
<1>5. /\ a \in Seq(Bytes)
      /\ Len(a) = Len(b) + i
      /\ \A j \in 1 .. Len(b) + i : a[j] = IF j <= Len(b) THEN b[j] ELSE w[j - Len(b)]
  <2>1. /\ a \in Seq(Bytes)
        /\ Len(a) = Len(b) + i
        /\ \A j \in 1 .. Len(b) + i :
             a[j] = IF j <= Len(b) THEN b[j] ELSE SubSeq(w, 1, i)[j - Len(b)]
    BY <1>3, ConcatProperties
  <2>2. \A j \in 1 .. Len(b) + i : ~(j <= Len(b)) => j - Len(b) \in 1 .. i
    BY <1>1
  <2> QED
    BY <1>3, <2>1, <2>2
<1> HIDE DEF a, v
<1>6. Len(a) + Len(v) = Len(b) + Len(w)
  BY <1>1, <1>4, <1>5
<1>7. ASSUME NEW k \in 1 .. Len(b) + Len(w)
      PROVE  Byte(a, v, k) = Byte(b, w, k)
  <2>1. CASE k <= Len(b) + i
    BY <1>1, <1>5, <2>1 DEF Byte
  <2>2. CASE ~(k <= Len(b) + i)
    <3>1. /\ k - (Len(b) + i) \in 1 .. Len(w) - i
          /\ i + (k - (Len(b) + i)) = k - Len(b)
          /\ ~(k <= Len(b))
      BY <1>1, <2>2
    <3> QED
      BY <1>4, <1>5, <2>2, <3>1 DEF Byte
  <2> QED
    BY <2>1, <2>2
<1>8. \A j \in 1 .. Len(s) - n : 2 * j - 1 \in 1 .. Len(b) + Len(w) /\ 2 * j \in 1 .. Len(b) + Len(w)
  BY <1>1 DEF Stream
<1>9. Stream(s, a, v, n)
  BY <1>6, <1>7, <1>8 DEF Stream
<1>10. a \in Seq(Bytes) /\ v \in Seq(Bytes) /\ Stream(s, a, v, n)
  BY <1>4, <1>5, <1>9
<1> QED
  BY <1>10 DEF a, v

\* The first message of the buffer is the next one sent, and the EOF is what comes after it.
LEMMA StreamTaken ==
  ASSUME NEW s \in Seq(Messages), NEW b \in Seq(Bytes), NEW w \in Seq(Bytes), NEW n \in Nat,
         Stream(s, b, w, n), Contains(b, "EOF")
  PROVE  /\ n + 1 <= Len(s) /\ Head(b) = s[n + 1]
         /\ Rest(b) \in Seq(Bytes)
         /\ Stream(s, Rest(b), w, n + 1)
<1>1. Len(b) \in Nat /\ Len(w) \in Nat /\ Len(s) \in Nat
  OBVIOUS
<1>2. PICK e \in 1 .. Len(b) : b[e] = "EOF"
  BY DEF Contains
<1>3. n + 1 <= Len(s)
  BY <1>1, <1>2 DEF Stream
<1>4. Byte(b, w, 1) = s[n + 1] /\ Byte(b, w, 2) = "EOF"
  <2>1. 1 \in 1 .. Len(s) - n /\ 2 * 1 - 1 = 1 /\ 2 * 1 = 2
    BY <1>1, <1>3
  <2> QED
    BY <2>1 DEF Stream
<1>5. b[1] = s[n + 1]
  BY <1>1, <1>2, <1>4 DEF Byte
<1>6. b[1] # "EOF"
  <2>1. s[n + 1] \in Messages
    BY <1>1, <1>3
  <2> QED
    BY <1>5, <2>1 DEF Messages, Commands
<1>7. Len(b) >= 2
  BY <1>1, <1>2, <1>6
<1>8. b[2] = "EOF"
  BY <1>4, <1>7 DEF Byte
<1>9. EofAt(b) = 2
  <2> DEFINE I == {i \in 1 .. Len(b) : b[i] = "EOF"}
  <2>1. 2 \in I /\ \A i \in I : i \in Nat /\ 2 <= i
    BY <1>1, <1>6, <1>7, <1>8
  <2>2. EofAt(b) = Min(I)
    BY <2>1 DEF EofAt, SelectInSeq
  <2> HIDE DEF I
  <2>3. \A x \in I : (\A y \in I : x <= y) => x = 2
    BY <2>1
  <2> QED
    BY <2>1, <2>2, <2>3 DEF Min
<1>10. Rest(b) = SubSeq(b, 3, Len(b))
  BY <1>9 DEF Rest
<1> DEFINE r == SubSeq(b, 3, Len(b))
<1>11. /\ r \in Seq(Bytes)
       /\ Len(r) = Len(b) - 2
       /\ \A j \in 1 .. Len(b) - 2 : r[j] = b[j + 2]
  <2>1. \A j \in 3 .. Len(b) : b[j] \in Bytes
    BY <1>1
  <2>2. /\ r \in Seq(Bytes)
        /\ Len(r) = IF 3 <= Len(b) THEN Len(b) - 3 + 1 ELSE 0
        /\ \A j \in 1 .. Len(b) - 3 + 1 : r[j] = b[3 + j - 1]
    BY <1>1, <2>1, SubSeqProperties
  <2>3. \A l \in Nat : l >= 2 => l - 3 + 1 = l - 2 /\ (~(3 <= l) => l - 2 = 0)
    OBVIOUS
  <2>4. Len(b) - 3 + 1 = Len(b) - 2 /\ (~(3 <= Len(b)) => Len(b) - 2 = 0)
    BY <1>1, <1>7, <2>3
  <2>5. Len(r) = Len(b) - 2
    BY <2>2, <2>4
  <2>6. ASSUME NEW j \in 1 .. Len(b) - 2
        PROVE  r[j] = b[j + 2]
    <3>1. 3 + j - 1 = j + 2
      OBVIOUS
    <3> QED
      BY <2>2, <2>4, <3>1
  <2> QED
    BY <2>2, <2>5, <2>6
<1> HIDE DEF r
<1>12. \A k \in 1 .. Len(b) + Len(w) - 2 : Byte(r, w, k) = Byte(b, w, k + 2)
  BY <1>1, <1>7, <1>11 DEF Byte
<1>13. n + 1 <= Len(s) /\ Len(r) + Len(w) = 2 * (Len(s) - (n + 1))
  BY <1>1, <1>3, <1>11 DEF Stream
<1>14. ASSUME NEW j \in 1 .. Len(s) - (n + 1)
       PROVE  Byte(r, w, 2 * j - 1) = s[n + 1 + j] /\ Byte(r, w, 2 * j) = "EOF"
  <2>1. /\ 2 * j - 1 \in 1 .. Len(b) + Len(w) - 2 /\ 2 * j \in 1 .. Len(b) + Len(w) - 2
        /\ j + 1 \in 1 .. Len(s) - n
        /\ 2 * j - 1 + 2 = 2 * (j + 1) - 1 /\ 2 * j + 2 = 2 * (j + 1)
        /\ n + 1 + j = n + (j + 1)
    BY <1>1, <1>11, <1>13
  <2>2. Byte(b, w, 2 * (j + 1) - 1) = s[n + (j + 1)] /\ Byte(b, w, 2 * (j + 1)) = "EOF"
    BY <2>1 DEF Stream
  <2> QED
    BY <1>12, <2>1, <2>2
<1>15. Stream(s, r, w, n + 1)
  BY <1>13, <1>14 DEF Stream
<1>16. b # <<>> /\ Head(b) = b[1]
  BY <1>1, <1>7
<1> QED
  BY <1>3, <1>5, <1>10, <1>11, <1>15, <1>16 DEF r
-----------------------------------------------------------------------------
(* The messages of a connection *)

Tasks == [at : {"read", "lock", "state", "stop", "start"}, cmd : Commands \cup {None}]

\* How many messages were taken from the buffer: the last one may still be at work.
Taken(h, t) == Len(h) + (IF t = Idle THEN 0 ELSE 1)

\* Those dealt with and the one at work are the first that were sent, and the bytes of the
\* others are in the buffer and the pipe.
PipeFits(s, b, w, h, t) ==
  /\ s \in Seq(Messages) /\ h \in Seq(Messages)
  /\ b \in Seq(Bytes) /\ w \in Seq(Bytes)
  /\ t \in Tasks
  /\ Stream(s, b, w, Taken(h, t))
  /\ \A k \in 1 .. Len(h) : h[k] = s[k]
  /\ t # Idle => t.cmd = s[Taken(h, t)]

PipeTypes ==
  /\ sent = [c \in Connections |-> sent[c]]
  /\ wire = [c \in Connections |-> wire[c]]
  /\ buf = [c \in Connections |-> buf[c]]
  /\ handled = [c \in Connections |-> handled[c]]
  /\ task = [c \in Connections |-> task[c]]

PipeInv ==
  /\ PipeTypes
  /\ \A c \in Connections : PipeFits(sent[c], buf[c], wire[c], handled[c], task[c])

LEMMA TakenType ==
  ASSUME NEW h \in Seq(Messages), NEW t
  PROVE  /\ Taken(h, t) \in Nat
         /\ t = Idle => Taken(h, t) = Len(h)
         /\ t # Idle => Taken(h, t) = Len(h) + 1
BY DEF Taken

LEMMA PipeInit == Init => PipeInv
<1> SUFFICES ASSUME Init PROVE PipeInv
  OBVIOUS
<1>1. PipeTypes
  BY DEF Init, PipeTypes
<1>2. PipeFits(<<>>, <<>>, <<>>, <<>>, Idle)
  <2>1. <<>> \in Seq(Messages) /\ <<>> \in Seq(Bytes) /\ Len(<<>>) = 0
    OBVIOUS
  <2>2. Taken(<<>>, Idle) = 0
    BY <2>1 DEF Taken
  <2>3. Idle \in Tasks
    BY DEF Idle, Tasks
  <2>4. Stream(<<>>, <<>>, <<>>, 0)
    BY <2>1 DEF Stream
  <2> QED
    BY <2>1, <2>2, <2>3, <2>4 DEF PipeFits
<1> QED
  BY <1>1, <1>2 DEF Init, PipeInv

LEMMA FitsSent ==
  ASSUME NEW s, NEW b, NEW w, NEW h, NEW t, PipeFits(s, b, w, h, t), NEW m \in Messages
  PROVE  PipeFits(Append(s, m), b, w \o <<m, "EOF">>, h, t)
<1> DEFINE n == Taken(h, t)
<1>1. n \in Nat /\ n <= Len(s) /\ Len(h) <= n /\ (t # Idle => n \in 1 .. Len(s))
  BY TakenType DEF PipeFits, Stream
<1>2. w \o <<m, "EOF">> \in Seq(Bytes) /\ Stream(Append(s, m), b, w \o <<m, "EOF">>, n)
  BY <1>1, StreamSent DEF PipeFits
<1>3. /\ Append(s, m) \in Seq(Messages)
      /\ \A k \in 1 .. Len(s) : Append(s, m)[k] = s[k]
  BY AppendProperties DEF PipeFits
<1>4. Len(h) \in Nat /\ Len(s) \in Nat
  BY DEF PipeFits
<1>5. \A k \in 1 .. Len(h) : Append(s, m)[k] = s[k]
  BY <1>1, <1>3, <1>4
<1>6. t # Idle => Append(s, m)[n] = s[n]
  BY <1>1, <1>3
<1> QED
  BY <1>2, <1>3, <1>5, <1>6 DEF PipeFits

LEMMA FitsRead ==
  ASSUME NEW s, NEW b, NEW w, NEW h, NEW t, PipeFits(s, b, w, h, t), NEW i \in 1 .. Len(w)
  PROVE  PipeFits(s, b \o SubSeq(w, 1, i), SubSeq(w, i + 1, Len(w)), h, t)
<1>1. Taken(h, t) \in Nat
  BY TakenType DEF PipeFits
<1> QED
  BY <1>1, StreamRead DEF PipeFits

\* A message that is no command is dealt with at once.
LEMMA FitsSkipped ==
  ASSUME NEW s, NEW b, NEW w, NEW h, PipeFits(s, b, w, h, Idle), Contains(b, "EOF"),
         Head(b) \notin Commands
  PROVE  PipeFits(s, Rest(b), w, Append(h, IF Head(b) = "binary" THEN Head(b) ELSE "junk"), Idle)
<1> DEFINE n == Len(h)
           m == IF Head(b) = "binary" THEN Head(b) ELSE "junk"
           g == Append(h, m)
<1>1. Taken(h, Idle) = n /\ n \in Nat
  BY TakenType DEF PipeFits
<1>2. /\ n + 1 <= Len(s) /\ Head(b) = s[n + 1]
      /\ Rest(b) \in Seq(Bytes) /\ Stream(s, Rest(b), w, n + 1)
  BY <1>1, StreamTaken DEF PipeFits
<1>3. m = s[n + 1] /\ m \in Messages
  <2>1. s[n + 1] \in Messages
    BY <1>1, <1>2 DEF PipeFits
  <2> QED
    BY <1>2, <2>1 DEF Messages
<1> HIDE DEF m
<1>4. /\ g \in Seq(Messages) /\ Len(g) = n + 1
      /\ \A k \in 1 .. n : g[k] = h[k]
      /\ g[n + 1] = m
  BY <1>3, AppendProperties DEF PipeFits
<1> HIDE DEF g
<1>5. \A k \in 1 .. Len(g) : g[k] = s[k]
  <2>1. \A k \in 1 .. n + 1 : k \in 1 .. n \/ k = n + 1
    BY <1>1
  <2> QED
    BY <1>3, <1>4, <2>1 DEF PipeFits
<1>6. Taken(g, Idle) = n + 1
  BY <1>4, TakenType
<1>7. PipeFits(s, Rest(b), w, g, Idle)
  BY <1>2, <1>4, <1>5, <1>6 DEF PipeFits
<1> QED
  BY <1>7 DEF g, m

LEMMA FitsTaken ==
  ASSUME NEW s, NEW b, NEW w, NEW h, PipeFits(s, b, w, h, Idle), Contains(b, "EOF"),
         Head(b) \in Commands
  PROVE  PipeFits(s, Rest(b), w, h, [at |-> "lock", cmd |-> Head(b)])
<1> DEFINE n == Len(h)
           t == [at |-> "lock", cmd |-> Head(b)]
<1>1. Taken(h, Idle) = n /\ n \in Nat
  BY TakenType DEF PipeFits
<1>2. /\ n + 1 <= Len(s) /\ Head(b) = s[n + 1]
      /\ Rest(b) \in Seq(Bytes) /\ Stream(s, Rest(b), w, n + 1)
  BY <1>1, StreamTaken DEF PipeFits
<1>3. t \in Tasks /\ t # Idle /\ t.cmd = s[n + 1]
  BY <1>2 DEF Tasks, Idle
<1> HIDE DEF t
<1>4. Taken(h, t) = n + 1
  BY <1>3, TakenType DEF PipeFits
<1>5. PipeFits(s, Rest(b), w, h, t)
  BY <1>2, <1>3, <1>4 DEF PipeFits
<1> QED
  BY <1>5 DEF t

LEMMA FitsAnswered ==
  ASSUME NEW s, NEW b, NEW w, NEW h, NEW t, PipeFits(s, b, w, h, t), t # Idle
  PROVE  PipeFits(s, b, w, Append(h, t.cmd), Idle)
<1> DEFINE n == Len(h)
           g == Append(h, t.cmd)
<1>1. n \in Nat /\ Taken(h, t) = n + 1
  BY TakenType DEF PipeFits
<1>2. n + 1 <= Len(s) /\ t.cmd = s[n + 1] /\ Stream(s, b, w, n + 1)
  BY <1>1 DEF PipeFits, Stream
<1>3. t.cmd \in Messages
  BY <1>1, <1>2 DEF PipeFits
<1>4. /\ g \in Seq(Messages) /\ Len(g) = n + 1
      /\ \A k \in 1 .. n : g[k] = h[k]
      /\ g[n + 1] = t.cmd
  BY <1>3, AppendProperties DEF PipeFits
<1> HIDE DEF g
<1>5. \A k \in 1 .. Len(g) : g[k] = s[k]
  <2>1. \A k \in 1 .. n + 1 : k \in 1 .. n \/ k = n + 1
    BY <1>1
  <2> QED
    BY <1>2, <1>4, <2>1 DEF PipeFits
<1>6. Taken(g, Idle) = n + 1
  BY <1>4, TakenType
<1>7. Idle \in Tasks
  BY DEF Idle, Tasks
<1>8. PipeFits(s, b, w, g, Idle)
  BY <1>2, <1>4, <1>5, <1>6, <1>7 DEF PipeFits
<1> QED
  BY <1>8 DEF g

LEMMA FitsMoved ==
  ASSUME NEW s, NEW b, NEW w, NEW h, NEW t, PipeFits(s, b, w, h, t), t # Idle,
         NEW l \in {"lock", "state", "stop", "start"}
  PROVE  PipeFits(s, b, w, h, [t EXCEPT !.at = l])
<1> DEFINE u == [t EXCEPT !.at = l]
<1>1. u \in Tasks /\ u # Idle /\ u.cmd = t.cmd
  BY DEF PipeFits, Tasks, Idle
<1> HIDE DEF u
<1>2. Taken(h, u) = Taken(h, t)
  BY <1>1 DEF Taken
<1>3. PipeFits(s, b, w, h, u)
  BY <1>1, <1>2 DEF PipeFits
<1> QED
  BY <1>3 DEF u
-----------------------------------------------------------------------------
(* The steps *)

\* A step of one connection leaves the others alone.
OneMoved(c) ==
  /\ PipeTypes'
  /\ \A d \in Connections \ {c} :
       /\ sent'[d] = sent[d] /\ buf'[d] = buf[d] /\ wire'[d] = wire[d]
       /\ handled'[d] = handled[d] /\ task'[d] = task[d]

LEMMA OneMoves ==
  ASSUME PipeInv, NEW c \in Connections, OneMoved(c),
         PipeFits(sent'[c], buf'[c], wire'[c], handled'[c], task'[c])
  PROVE  PipeInv'
<1>1. ASSUME NEW d \in Connections
      PROVE  PipeFits(sent'[d], buf'[d], wire'[d], handled'[d], task'[d])
  <2>1. CASE d = c
    BY <2>1
  <2>2. CASE d # c
    BY <2>2 DEF PipeInv, OneMoved
  <2> QED
    BY <2>1, <2>2
<1> QED
  BY <1>1 DEF PipeInv, OneMoved

LEMMA NoneMoves ==
  ASSUME PipeInv, UNCHANGED pipeVars
  PROVE  PipeInv'
BY DEF PipeInv, PipeTypes, pipeVars

LEMMA PipeTask ==
  ASSUME PipeInv, NEW c \in Connections, Task(c)
  PROVE  PipeInv'
<1>1. PipeFits(sent[c], buf[c], wire[c], handled[c], task[c])
  BY DEF PipeInv
<1>2. PipeTypes
  BY DEF PipeInv
<1>3. task[c].at # "read" => task[c] # Idle
  BY DEF Idle
<1>4. CASE Read(c)
  <2>1. PICK n \in 1 .. Len(wire[c]) :
          /\ buf' = [buf EXCEPT ![c] = buf[c] \o SubSeq(wire[c], 1, n)]
          /\ wire' = [wire EXCEPT ![c] = SubSeq(wire[c], n + 1, Len(wire[c]))]
    BY <1>4 DEF Read
  <2>2. sent' = sent /\ handled' = handled /\ task' = task
    BY <1>4 DEF Read
  <2>3. PipeFits(sent[c], buf[c] \o SubSeq(wire[c], 1, n), SubSeq(wire[c], n + 1, Len(wire[c])),
                 handled[c], task[c])
    BY <1>1, FitsRead
  <2>4. OneMoved(c)
    BY <1>2, <2>1, <2>2 DEF PipeTypes, OneMoved
  <2>5. /\ buf'[c] = buf[c] \o SubSeq(wire[c], 1, n)
        /\ wire'[c] = SubSeq(wire[c], n + 1, Len(wire[c]))
    BY <1>2, <2>1 DEF PipeTypes
  <2> QED
    BY <2>2, <2>3, <2>4, <2>5, OneMoves
<1>5. CASE TakeMessage(c)
  <2> DEFINE m == Head(buf[c])
  <2>1. /\ task[c] = Idle /\ Contains(buf[c], "EOF")
        /\ sent' = sent /\ wire' = wire
        /\ buf' = [buf EXCEPT ![c] = Rest(buf[c])]
    BY <1>5 DEF TakeMessage, HasMessage
  <2>2. CASE m \in Commands
    <3>1. /\ task' = [task EXCEPT ![c] = [at |-> "lock", cmd |-> m]]
          /\ handled' = [handled EXCEPT ![c] = handled[c]]
      BY <1>5, <2>2 DEF TakeMessage
    <3>3. OneMoved(c)
      BY <1>2, <2>1, <3>1 DEF PipeTypes, OneMoved
    <3>4. /\ task'[c] = [at |-> "lock", cmd |-> m] /\ handled'[c] = handled[c]
          /\ buf'[c] = Rest(buf[c])
      BY <1>2, <2>1, <3>1 DEF PipeTypes
    <3>2. PipeFits(sent[c], Rest(buf[c]), wire[c], handled[c], [at |-> "lock", cmd |-> m])
      BY <1>1, <2>1, <2>2, FitsTaken
    <3> QED
      BY <2>1, <3>2, <3>3, <3>4, OneMoves
  <2>3. CASE m \notin Commands
    <3> DEFINE g == Append(handled[c], IF m = "binary" THEN m ELSE "junk")
    <3>1. /\ task' = [task EXCEPT ![c] = task[c]]
          /\ handled' = [handled EXCEPT ![c] = g]
      BY <1>5, <2>3 DEF TakeMessage
    <3>2. PipeFits(sent[c], Rest(buf[c]), wire[c], g, task[c])
      BY <1>1, <2>1, <2>3, FitsSkipped
    <3> HIDE DEF g
    <3>3. OneMoved(c)
      BY <1>2, <2>1, <3>1 DEF PipeTypes, OneMoved
    <3>4. task'[c] = task[c] /\ handled'[c] = g /\ buf'[c] = Rest(buf[c])
      BY <1>2, <2>1, <3>1 DEF PipeTypes
    <3> QED
      BY <2>1, <3>2, <3>3, <3>4, OneMoves
  <2> QED
    BY <2>2, <2>3
<1>6. ASSUME Answer(c), task[c] # Idle, sent' = sent, buf' = buf, wire' = wire
      PROVE  PipeInv'
  <2>1. /\ task' = [task EXCEPT ![c] = Idle]
        /\ handled' = [handled EXCEPT ![c] = Append(handled[c], task[c].cmd)]
    BY <1>6 DEF Answer
  <2>2. PipeFits(sent[c], buf[c], wire[c], Append(handled[c], task[c].cmd), Idle)
    BY <1>1, <1>6, FitsAnswered
  <2>3. OneMoved(c)
    BY <1>2, <1>6, <2>1 DEF PipeTypes, OneMoved
  <2>4. task'[c] = Idle /\ handled'[c] = Append(handled[c], task[c].cmd)
    BY <1>2, <2>1 DEF PipeTypes
  <2> QED
    BY <1>6, <2>2, <2>3, <2>4, OneMoves
<1>7. ASSUME NEW l \in {"lock", "state", "stop", "start"}, Goto(c, l), task[c] # Idle,
             sent' = sent, buf' = buf, wire' = wire, handled' = handled
      PROVE  PipeInv'
  <2>1. task' = [task EXCEPT ![c] = [task[c] EXCEPT !.at = l]]
    BY <1>7 DEF Goto
  <2>2. PipeFits(sent[c], buf[c], wire[c], handled[c], [task[c] EXCEPT !.at = l])
    BY <1>1, <1>7, FitsMoved
  <2>3. OneMoved(c)
    BY <1>2, <1>7, <2>1 DEF PipeTypes, OneMoved
  <2>4. task'[c] = [task[c] EXCEPT !.at = l]
    BY <1>2, <2>1 DEF PipeTypes
  <2> QED
    BY <1>7, <2>2, <2>3, <2>4, OneMoves
<1>8. CASE LockService(c)
  BY <1>3, <1>7, <1>8 DEF LockService
<1>9. CASE QueryState(c) \/ StartFails(c)
  BY <1>3, <1>6, <1>9 DEF QueryState, StartFails
<1>10. CASE SignalThread(c) \/ JoinThread(c)
  BY <1>10, NoneMoves DEF SignalThread, JoinThread
<1>11. CASE Stopped(c)
  BY <1>3, <1>6, <1>7, <1>11 DEF Stopped
<1>12. ASSUME NEW targets \in SUBSET Displays, StartCaptures(c, targets)
       PROVE  PipeInv'
  BY <1>3, <1>6, <1>12 DEF StartCaptures
<1> QED
  BY <1>4, <1>5, <1>8, <1>9, <1>10, <1>11, <1>12 DEF Task

LEMMA PipeStep ==
  ASSUME PipeInv, [Next]_vars
  PROVE  PipeInv'
<1>1. ASSUME NEW c \in Connections, NEW m \in Messages, Send(c, m)
      PROVE  PipeInv'
  <2>1. /\ sent' = [sent EXCEPT ![c] = Append(sent[c], m)]
        /\ wire' = [wire EXCEPT ![c] = wire[c] \o <<m, "EOF">>]
        /\ buf' = buf /\ handled' = handled /\ task' = task
    BY <1>1 DEF Send
  <2>2. PipeFits(Append(sent[c], m), buf[c], wire[c] \o <<m, "EOF">>, handled[c], task[c])
    BY FitsSent DEF PipeInv
  <2>3. OneMoved(c)
    BY <2>1 DEF PipeInv, PipeTypes, OneMoved
  <2>4. sent'[c] = Append(sent[c], m) /\ wire'[c] = wire[c] \o <<m, "EOF">>
    BY <2>1 DEF PipeInv, PipeTypes
  <2> QED
    BY <2>1, <2>2, <2>3, <2>4, OneMoves
<1>2. ASSUME NEW t \in Threads, Thread(t)
      PROVE  UNCHANGED pipeVars
  BY <1>2 DEF Thread, SetupFails, CreateDuplication, CreateShared, LooksAtTerminate, NoFrame,
              CaptureFails, WriteFrame, FrameWritten
<1>3. ASSUME NEW d \in Watched, BeginRead(d) \/ EndRead(d)
      PROVE  UNCHANGED pipeVars
  BY <1>3 DEF BeginRead, EndRead
<1>4. UNCHANGED vars => UNCHANGED pipeVars
  BY DEF vars, pipeVars
<1> QED
  BY <1>1, <1>2, <1>3, <1>4, PipeTask, NoneMoves DEF Next

\* Buffer, pipe, the task and what is handled are what was sent, cut anywhere.
THEOREM PipeInvariant == Spec => []PipeInv
BY PipeInit, PipeStep, PTL DEF Spec

\* For any number of connections and messages, and reads that cut the bytes anywhere, every
\* message is dealt with once, as what it is and in its order (control.rs:92 to 111).
THEOREM AnsweredInOrderEver == Spec => []AnsweredInOrder
<1>1. PipeInv => AnsweredInOrder
  <2> SUFFICES ASSUME PipeInv, NEW c \in Connections
               PROVE  IsPrefix(handled[c], sent[c])
    BY DEF AnsweredInOrder
  <2> DEFINE s == sent[c]
             h == handled[c]
  <2>1. PipeFits(s, buf[c], wire[c], h, task[c])
    BY DEF PipeInv
  <2> HIDE DEF s, h
  <2>2. /\ s \in Seq(Messages) /\ h \in Seq(Messages) /\ Len(h) <= Len(s)
        /\ \A k \in 1 .. Len(h) : h[k] = s[k]
    BY <2>1, TakenType DEF PipeFits, Stream
  <2>3. SubSeq(h, 1, Len(h)) = SubSeq(s, 1, Len(h))
    BY <2>2
  <2> QED
    BY <2>2, <2>3 DEF IsPrefix, s, h
<1> QED
  BY <1>1, PipeInvariant, PTL
=============================================================================
