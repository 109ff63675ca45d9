-------------------------- MODULE MonitorRegistry --------------------------
(***************************************************************************)
(* The driver's table of virtual monitors (MONITOR_MODES) and the handlers *)
(* that change it: rust/virtual-display-driver/src/ipc.rs, with            *)
(* DeviceContext::create_monitor of context.rs.  Every connected client    *)
(* has a task of the pipe server; the tasks run concurrently on a          *)
(* multi-threaded runtime and meet at the table's mutex, at the device     *)
(* context's write lock, at the operating system (IddCxMonitorCreate,      *)
(* ...Arrival, ...Departure) and at a broadcast channel of capacity one.   *)
(*                                                                         *)
(* Everything done under one acquisition of MONITOR_MODES is one action.   *)
(***************************************************************************)
EXTENDS Integers, FiniteSets

CONSTANTS
  Clients,          \* connected pipe clients, one server task each
  Writers,          \* those that send Notify, Remove and RemoveAll
  Ids,              \* monitor identifiers
  ModeLists,        \* values of Monitor.modes, compared as wholes
  Names,            \* values of Monitor.name
  Objects,          \* monitor handles the OS has room for (MAX_MONITORS)
  CreateFails,      \* may IddCxMonitorCreate fail although there is room?
  ArrivalFails,     \* may MonitorContext::init or IddCxMonitorArrival fail?
  DepartureFails,   \* may IddCxMonitorDeparture of a plugged monitor fail?
  SendsMalformed,   \* may a Notify list be one has_duplicates refuses?
  NoClient, NoId, NoEntry, NoObject, NoMonitor, Malformed

ASSUME ClientAssumption ==
  /\ Writers \subseteq Clients
  /\ NoClient \notin Clients
  /\ NoObject \notin Objects
  /\ NoId \notin Ids

ASSUME SwitchAssumption ==
  {CreateFails, ArrivalFails, DepartureFails, SendsMalformed} \subseteq BOOLEAN

\* What a client says of one monitor, and of all of them: a list of distinct ids.
Data  == [name : Names, modes : ModeLists, enabled : BOOLEAN]
Views == UNION {[S -> Data] : S \in SUBSET Ids}

\* A row of MONITOR_MODES, and what the OS keeps of a monitor it created.
Entry     == [data : Data, object : Objects \cup {NoObject}]
OsMonitor == [state : {"created", "arrived"}, serial : Ids]

ASSUME NullAssumption ==
  /\ NoEntry \notin Entry
  /\ NoMonitor \notin OsMonitor
  /\ Malformed \notin Views

VARIABLES
  table,     \* MONITOR_MODES
  os,        \* the monitors the OS holds, by handle
  context,   \* who holds the device context's write lock
  pc,        \* where each client's handler is
  todo,      \* should_arrive: the ids it has still to create
  target,    \* the id create_monitor works on
  handle,    \* the handle IddCxMonitorCreate returned to it
  outbox,    \* the list the handler will broadcast
  slot,      \* the broadcast channel: one value, [from, view]
  unread,    \* the server tasks that have not received that value
  mirror     \* the state each client was last told of

vars == <<table, os, context, pc, todo, target, handle, outbox, slot, unread, mirror>>

handlerVars == <<todo, target, handle>>
channelVars == <<slot, unread, mirror>>

NoView == [i \in {} |-> NoEntry]

Init ==
  /\ table   = [i \in Ids |-> NoEntry]
  /\ os      = [o \in Objects |-> NoMonitor]
  /\ context = NoClient
  /\ pc      = [c \in Clients |-> "idle"]
  /\ todo    = [c \in Clients |-> {}]
  /\ target  = [c \in Clients |-> NoId]
  /\ handle  = [c \in Clients |-> NoObject]
  /\ outbox  = [c \in Clients |-> NoView]
  /\ slot    = [from |-> NoClient, view |-> NoView]
  /\ unread  = {}
  /\ mirror  = [c \in Clients |-> NoView]
-----------------------------------------------------------------------------
(* The table *)

Present   == {i \in Ids : table[i] # NoEntry}
Handle(i) == IF table[i] = NoEntry THEN NoObject ELSE table[i].object

\* The list a State reply and a Remove broadcast carry.
CurrentView == [i \in Present |-> table[i].data]

\* Faulty variant: a disabled monitor is not detached.
DetachesOnModeChange(i, view) ==
  /\ table[i] # NoEntry
  /\ table[i].data.modes # view[i].modes

\* Faulty variant: a monitor whose modes change is not detached.
DetachesWhenDisabled(i, view) ==
  /\ table[i] # NoEntry
  /\ ~view[i].enabled

\* ipc.rs: "should only detach if modes changed, or if state is false".
Detaches(i, view) ==
  /\ table[i] # NoEntry
  /\ table[i].data.modes # view[i].modes \/ ~view[i].enabled

\* Faulty variant: object.take() is forgotten, the handle stays in the row.
MergedWithoutTake(view) ==
  [i \in Ids |-> IF i \in DOMAIN view
                 THEN [data |-> view[i], object |-> Handle(i)]
                 ELSE NoEntry]

\* The table after notify(): rows missing from the list go, the others take
\* the list's data and keep their handle unless they are detached.
Merged(view) ==
  [i \in Ids |-> IF i \in DOMAIN view
                 THEN [data   |-> view[i],
                       object |-> IF Detaches(i, view) THEN NoObject ELSE Handle(i)]
                 ELSE NoEntry]

\* Faulty variant: every enabled monitor of the list arrives, plugged or not.
ArrivalsAlways(view) == {i \in DOMAIN view : view[i].enabled}

\* Faulty variant: a row without a handle is taken for plugged.
ArrivalsOnModeChange(view) ==
  {i \in DOMAIN view : /\ view[i].enabled
                       /\ table[i] = NoEntry \/ Detaches(i, view)}

\* The ids whose should_arrive is true.
Arrivals(view) ==
  {i \in DOMAIN view :
     /\ view[i].enabled
     /\ \/ table[i] = NoEntry
        \/ ~table[i].data.enabled
        \/ table[i].data.modes # view[i].modes
        \/ table[i].object = NoObject}

HandlesOf(S) == {Handle(i) : i \in S} \ {NoObject}

\* IddCxMonitorDeparture of every handle in objs.  An error is only logged.  A
\* monitor that has not arrived cannot depart: the OS keeps it.
Depart(objs) ==
  \E gone \in SUBSET objs :
    /\ DepartureFails \/ gone = objs
    /\ os' = [o \in Objects |->
                IF o \in gone /\ os[o] # NoMonitor /\ os[o].state = "arrived"
                THEN NoMonitor ELSE os[o]]

Goto(c, label) == pc' = [pc EXCEPT ![c] = label]
-----------------------------------------------------------------------------
(* DriverCommand::Notify *)

\* notify() up to drop(lock): departures, new table, list of arrivals.
NotifyMerge(c, view) ==
  /\ pc[c] = "idle"
  /\ table' = Merged(view)
  /\ Depart(HandlesOf({i \in Ids : i \notin DOMAIN view \/ Detaches(i, view)}))
  /\ todo' = [todo EXCEPT ![c] = Arrivals(view)]
  /\ outbox' = [outbox EXCEPT ![c] = view]
  /\ Goto(c, "merged")
  /\ UNCHANGED <<context, target, handle, channelVars>>

\* has_duplicates: notify() returns early, process_message broadcasts all the same.
NotifyRefused(c) ==
  /\ SendsMalformed
  /\ pc[c] = "idle"
  /\ outbox' = [outbox EXCEPT ![c] = Malformed]
  /\ Goto(c, "send")
  /\ UNCHANGED <<table, os, context, handlerVars, channelVars>>

\* DeviceContext::get_mut: the write lock is held for the whole callback.
EnterContext(c) ==
  /\ pc[c] = "merged"
  /\ context = NoClient
  /\ context' = c
  /\ Goto(c, "creating")
  /\ UNCHANGED <<table, os, handlerVars, outbox, channelVars>>

\* create_monitor(i): IddCxMonitorCreate returns a handle ...
CreateMonitor(c, i) ==
  /\ pc[c] = "creating"
  /\ i \in todo[c]
  /\ \E o \in Objects :
       /\ os[o] = NoMonitor
       /\ os' = [os EXCEPT ![o] = [state |-> "created", serial |-> i]]
       /\ handle' = [handle EXCEPT ![c] = o]
  /\ target' = [target EXCEPT ![c] = i]
  /\ todo' = [todo EXCEPT ![c] = @ \ {i}]
  /\ Goto(c, "created")
  /\ UNCHANGED <<table, context, outbox, channelVars>>

\* ... or fails: nothing is stored, the error is logged, the next id is tried.
CreateMonitorFails(c, i) ==
  /\ pc[c] = "creating"
  /\ i \in todo[c]
  /\ CreateFails \/ \A o \in Objects : os[o] # NoMonitor
  /\ todo' = [todo EXCEPT ![c] = @ \ {i}]
  /\ UNCHANGED <<table, os, context, pc, target, handle, outbox, channelVars>>

\* The table is locked again: the handle goes to the row with that id, if there
\* is one by now, whatever the row holds by now.
StoreObject(c) ==
  /\ pc[c] = "created"
  /\ table' = [i \in Ids |-> IF i = target[c] /\ i \in Present
                             THEN [table[i] EXCEPT !.object = handle[c]]
                             ELSE table[i]]
  /\ Goto(c, "stored")
  /\ UNCHANGED <<os, context, handlerVars, outbox, channelVars>>

\* create_monitor returns: its locals are gone.
Drop(c) ==
  /\ target' = [target EXCEPT ![c] = NoId]
  /\ handle' = [handle EXCEPT ![c] = NoObject]

\* IddCxMonitorArrival: the OS sees the monitor plugged in.
Arrive(c) ==
  /\ pc[c] = "stored"
  /\ os' = [os EXCEPT ![handle[c]].state = "arrived"]
  /\ Drop(c)
  /\ Goto(c, "creating")
  /\ UNCHANGED <<table, context, todo, outbox, channelVars>>

\* It fails, or MonitorContext::init before it: the stored handle stays.
ArriveFails(c) ==
  /\ ArrivalFails
  /\ pc[c] = "stored"
  /\ Drop(c)
  /\ Goto(c, "creating")
  /\ UNCHANGED <<table, os, context, todo, outbox, channelVars>>

\* The callback returns and the write lock is dropped.
LeaveContext(c) ==
  /\ pc[c] = "creating"
  /\ todo[c] = {}
  /\ context' = NoClient
  /\ Goto(c, "send")
  /\ UNCHANGED <<table, os, handlerVars, outbox, channelVars>>
-----------------------------------------------------------------------------
(* DriverCommand::Remove and RemoveAll *)

\* remove(ids): rows go and their monitors depart under one lock.
Remove(c, S) ==
  /\ pc[c] = "idle"
  /\ table' = [i \in Ids |-> IF i \in S THEN NoEntry ELSE table[i]]
  /\ Depart(HandlesOf(S))
  /\ Goto(c, "removed")
  /\ UNCHANGED <<context, handlerVars, outbox, channelVars>>

\* remove_all(): the same for every row.
RemoveAll(c) ==
  /\ pc[c] = "idle"
  /\ table' = [i \in Ids |-> NoEntry]
  /\ Depart(HandlesOf(Ids))
  /\ outbox' = [outbox EXCEPT ![c] = NoView]
  /\ Goto(c, "send")
  /\ UNCHANGED <<context, handlerVars, channelVars>>
-----------------------------------------------------------------------------
(* The broadcast channel: capacity one, a new value replaces an unread one *)

Publish(c, view) ==
  /\ slot' = [from |-> c, view |-> view]
  /\ unread' = Clients

\* Faulty variant: Remove broadcasts an empty list, as RemoveAll does.
SendEmptySnapshot(c) ==
  /\ pc[c] = "removed"
  /\ slot' = [from |-> c, view |-> NoView]
  /\ unread' = Clients
  /\ Goto(c, "idle")
  /\ UNCHANGED <<table, os, context, handlerVars, outbox, mirror>>

\* Remove locks the table again and sends a snapshot while it holds the lock.
SendSnapshot(c) ==
  /\ pc[c] = "removed"
  /\ Publish(c, CurrentView)
  /\ Goto(c, "idle")
  /\ UNCHANGED <<table, os, context, handlerVars, outbox, mirror>>

\* Notify and RemoveAll send what they were given, with no lock held.
Send(c) ==
  /\ pc[c] = "send"
  /\ Publish(c, outbox[c])
  /\ outbox' = [outbox EXCEPT ![c] = NoView]
  /\ Goto(c, "idle")
  /\ UNCHANGED <<table, os, context, handlerVars, mirror>>

\* Faulty variant: the whole (sender, list) pair is written to the pipe.
ForwardPair(c) ==
  /\ pc[c] = "idle"
  /\ c \in unread
  /\ unread' = unread \ {c}
  /\ mirror' = [mirror EXCEPT ![c] = IF slot.from = c THEN @ ELSE slot]
  /\ UNCHANGED <<table, os, context, pc, handlerVars, outbox, slot>>

\* Faulty variant: the test on the sender is inverted.
ForwardOwnOnly(c) ==
  /\ pc[c] = "idle"
  /\ c \in unread
  /\ unread' = unread \ {c}
  /\ mirror' = [mirror EXCEPT ![c] = IF slot.from = c THEN slot.view ELSE @]
  /\ UNCHANGED <<table, os, context, pc, handlerVars, outbox, slot>>

\* The task's select! takes the rx.recv() branch.  Its own value is skipped; a
\* lagged receiver continues and gets the value that is in the slot.
Forward(c) ==
  /\ pc[c] = "idle"
  /\ c \in unread
  /\ unread' = unread \ {c}
  /\ mirror' = [mirror EXCEPT ![c] = IF slot.from = c THEN @ ELSE slot.view]
  /\ UNCHANGED <<table, os, context, pc, handlerVars, outbox, slot>>

\* RequestCommand::State: the reply is a snapshot under the lock.
RequestState(c) ==
  /\ pc[c] = "idle"
  /\ mirror' = [mirror EXCEPT ![c] = CurrentView]
  /\ UNCHANGED <<table, os, context, pc, handlerVars, outbox, slot, unread>>
-----------------------------------------------------------------------------
HandlerStep(c) ==
  \/ EnterContext(c)
  \/ \E i \in Ids : CreateMonitor(c, i) \/ CreateMonitorFails(c, i)
  \/ StoreObject(c)
  \/ Arrive(c)
  \/ ArriveFails(c)
  \/ LeaveContext(c)
  \/ SendSnapshot(c)
  \/ Send(c)

Command(c) ==
  \/ \E view \in Views : NotifyMerge(c, view)
  \/ NotifyRefused(c)
  \/ \E S \in SUBSET Ids : Remove(c, S)
  \/ RemoveAll(c)

Next ==
  \/ \E c \in Writers : Command(c)
  \/ \E c \in Clients : HandlerStep(c) \/ Forward(c) \/ RequestState(c)

Spec == Init /\ [][Next]_vars

\* A handler that has started runs on; the runtime polls every task, and select!
\* picks between its ready branches at random.  Commands are never owed.
Fairness ==
  \A c \in Clients : WF_vars(HandlerStep(c)) /\ WF_vars(Forward(c))

FairSpec == Spec /\ Fairness
-----------------------------------------------------------------------------
(* Properties *)

Labels == {"idle", "merged", "creating", "created", "stored", "removed", "send"}

\* Every variable keeps its type: among others, a client is only ever told of a
\* list of distinct monitors or of a list the driver refused.
TypeOK ==
  /\ table   \in [Ids -> Entry \cup {NoEntry}]
  /\ os      \in [Objects -> OsMonitor \cup {NoMonitor}]
  /\ context \in Clients \cup {NoClient}
  /\ pc      \in [Clients -> Labels]
  /\ todo    \in [Clients -> SUBSET Ids]
  /\ target  \in [Clients -> Ids \cup {NoId}]
  /\ handle  \in [Clients -> Objects \cup {NoObject}]
  /\ outbox  \in [Clients -> Views \cup {Malformed}]
  /\ slot    \in [from : Clients \cup {NoClient}, view : Views \cup {Malformed}]
  /\ unread  \subseteq Clients
  /\ mirror  \in [Clients -> Views \cup {Malformed}]

Quiescent == \A c \in Clients : pc[c] = "idle"
Plugged   == {o \in Objects : os[o] # NoMonitor /\ os[o].state = "arrived"}

\* A handle in the table is a monitor the OS still holds, created for that very
\* id: no interleaving of handlers makes a row refer to a monitor that has
\* departed, or to another row's monitor, so none departs twice.
HandlesFaithful ==
  \A i \in Ids : Handle(i) # NoObject =>
    /\ os[Handle(i)] # NoMonitor
    /\ os[Handle(i)].serial = i

\* With one writer and an OS that only ever refuses to create: when no handler
\* runs, the monitors plugged in are exactly the handles of the table, and only
\* enabled rows have one.  notify() promises it: "Adds, updates, or removes
\* monitors as needed".
TableMatchesOs ==
  Quiescent =>
    /\ Plugged = HandlesOf(Present)
    /\ \A i \in Present : Handle(i) # NoObject => table[i].data.enabled

\* A Notify that lists an enabled monitor which is not plugged in plans to plug it
\* in: the comment "OR monitor is enabled and the monitor was disconnected".
DisconnectedIsRetried ==
  \A c \in Clients : pc[c] = "merged" =>
    \A i \in DOMAIN outbox[c] :
      outbox[c][i].enabled => i \in todo[c] \/ Handle(i) \in Plugged

\* A row gives up the handle of a plugged monitor only in the step in which that
\* monitor departs: nothing is left plugged in that no row knows of.
NoHandleLost ==
  [][\A i \in Ids : Handle(i) \in Plugged /\ Handle(i)' # Handle(i)
                      => Handle(i) \notin Plugged']_vars

\* The registry implements MonitorService: the table is what was declared, the
\* monitors plugged in are what is shown.  With one writer, and nothing failing but
\* creation: "Only detaches/reattaches if required".
Service == INSTANCE MonitorService WITH
  declared <- CurrentView,
  shown    <- {os[o].serial : o \in Plugged}

ImplementsService == Service!Spec

\* Clients that only listen have the table's state once all is quiet: the doc of
\* receive_events, "always reflect the real state of the driver".
ListenersAgree ==
  Quiescent /\ unread = {} =>
    \A c \in Clients \ Writers : mirror[c] = CurrentView

\* Once every row was removed, by Remove ("Remove a monitor from system") or by RemoveAll,
\* and no command runs, nothing stays plugged in.
\* No run has it: a Remove or RemoveAll of another client between notify's drop(lock) and
\* the arrival of the monitor breaks it (ipc.rs:722).
EmptyTableUnplugs == Quiescent /\ Present = {} => Plugged = {}

\* When the writers fall silent the listeners learn the final state and keep it.
ListenersCatchUp ==
  <>[](\A c \in Writers : pc[c] = "idle") =>
    \A c \in Clients \ Writers : <>[](mirror[c] = CurrentView)
=============================================================================
