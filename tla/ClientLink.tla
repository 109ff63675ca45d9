----------------------------- MODULE ClientLink -----------------------------
(***************************************************************************)
(* One connection between a client and the driver, seen from the client    *)
(* library rust/driver-ipc/src: Client of client.rs, whose receive task    *)
(* copies every message of the pipe into a broadcast channel; the tasks    *)
(* that call request_state on copies of that Client; DriverClient of       *)
(* driver_client.rs, which asks for the state once and then follows the    *)
(* events.  The other end is the connection's server task in               *)
(* rust/virtual-display-driver/src/ipc.rs.                                 *)
(*                                                                         *)
(* The driver's state is a version number: another client changes it, and  *)
(* announces one change before it makes the next.  MonitorRegistry has     *)
(* what several writers do to the order of announcements.                  *)
(***************************************************************************)
EXTENDS Integers, Sequences, SequencesExt, FiniteSetsExt

CONSTANTS
  Tasks,         \* tasks that request the state
  Builder,       \* the one that runs DriverClient::new_with
  Watcher,       \* the task DriverClient spawns to follow the events
  Capacity,      \* messages the client's broadcast channel keeps
  MaxChanges,    \* bound: changes of the driver's state
  MaxInFlight,   \* bound: messages in either direction of the pipe
  Breaks         \* may the pipe break?

ASSUME LinkAssumption ==
  /\ Builder \in Tasks
  /\ Watcher \notin Tasks
  /\ Capacity \in Nat \ {0}
  /\ MaxChanges \in Nat
  /\ MaxInFlight \in Nat \ {0}
  /\ Breaks \in BOOLEAN

Versions  == 0..MaxChanges
Receivers == Tasks \cup {Watcher}

Reply(version) == [kind |-> "reply", version |-> version]
Event(version) == [kind |-> "event", version |-> version]
Error          == [kind |-> "error"]

VARIABLES
  driver,     \* the version of the driver's state
  slot,       \* the version in the driver's broadcast channel
  unread,     \* the server task has not received it
  up,         \* the pipe is open
  requests,   \* the State requests in the pipe towards the driver
  replies,    \* the pipe towards the client
  reader,     \* the client's receive task: "running" or "failed"
  inbox,      \* what each receiver of the client's channel has not received
  pc,         \* where each requesting task is
  oldest,     \* the oldest version that could answer it when it subscribed
  watcher,    \* "none", "gap" until it subscribes, "following", "ended"
  watched,    \* state_rx: the version DriverClient::refresh_state would take
  base,       \* the version announced when the watcher subscribed
  lagged      \* the channel has overwritten a message the watcher had not had

vars == <<driver, slot, unread, up, requests, replies, reader,
          inbox, pc, oldest, watcher, watched, base, lagged>>

driverVars == <<driver, slot, unread>>
taskVars   == <<pc, oldest>>
watchVars  == <<watcher, watched, base>>
channelVars == <<inbox, lagged>>

Init ==
  /\ driver   = 0
  /\ slot     = 0
  /\ unread   = FALSE
  /\ up       = TRUE
  /\ requests = 0
  /\ replies  = <<>>
  /\ reader   = "running"
  /\ inbox    = [r \in Receivers |-> <<>>]
  /\ pc       = [t \in Tasks |-> "idle"]
  /\ oldest   = [t \in Tasks |-> 0]
  /\ watcher  = "none"
  /\ watched  = 0
  /\ base     = 0
  /\ lagged   = FALSE
-----------------------------------------------------------------------------
(* The driver *)

\* Another client's command has changed the state ...
Change ==
  /\ driver < MaxChanges
  /\ slot = driver
  /\ driver' = driver + 1
  /\ UNCHANGED <<slot, unread, up, requests, replies, reader, channelVars, taskVars, watchVars>>

\* ... and its handler broadcasts it.
Announce ==
  /\ slot # driver
  /\ slot' = driver
  /\ unread' = TRUE
  /\ UNCHANGED <<driver, up, requests, replies, reader, channelVars, taskVars, watchVars>>

\* RequestCommand::State: the reply is the state of this moment.
ServerAnswers ==
  /\ up
  /\ requests > 0
  /\ Len(replies) < MaxInFlight
  /\ requests' = requests - 1
  /\ replies' = Append(replies, Reply(driver))
  /\ UNCHANGED <<driverVars, up, reader, channelVars, taskVars, watchVars>>

\* The rx.recv() branch of the server task's select!.
ServerForwards ==
  /\ up
  /\ unread
  /\ Len(replies) < MaxInFlight
  /\ unread' = FALSE
  /\ replies' = Append(replies, Event(slot))
  /\ UNCHANGED <<driver, slot, up, requests, reader, channelVars, taskVars, watchVars>>

\* The server task or the driver ends: the requests are lost, and of what is on its
\* way to the client all but a beginning may be.
Break ==
  /\ Breaks
  /\ up
  /\ up' = FALSE
  /\ requests' = 0
  /\ \E n \in 0..Len(replies) : replies' = SubSeq(replies, 1, n)
  /\ UNCHANGED <<driverVars, reader, channelVars, taskVars, watchVars>>
-----------------------------------------------------------------------------
(* The receive task and its broadcast channel *)

Subscribed(r) == IF r = Watcher THEN watcher = "following" ELSE pc[r] # "idle"

\* A full channel overwrites its oldest message; a receiver that has not had it yet
\* is told that it lagged, and goes on with the next.
KeepNewest(s) == IF Len(s) > Capacity THEN Tail(s) ELSE s

Deliver(m) ==
  /\ inbox' = [r \in Receivers |->
                 IF Subscribed(r) THEN KeepNewest(Append(inbox[r], m)) ELSE inbox[r]]
  /\ lagged' = (lagged \/ Len(inbox[Watcher]) = Capacity)

\* Faulty variant: the receive buffer is cleared, not drained up to the last message.
ReaderClears ==
  /\ reader = "running"
  /\ replies # <<>>
  /\ Deliver(Head(replies))
  /\ replies' = <<>>
  /\ UNCHANGED <<driverVars, up, requests, reader, taskVars, watchVars>>

ReaderDelivers ==
  /\ reader = "running"
  /\ replies # <<>>
  /\ Deliver(Head(replies))
  /\ replies' = Tail(replies)
  /\ UNCHANGED <<driverVars, up, requests, reader, taskVars, watchVars>>

\* receive_command returns an error: it is kept in receive_error and sent to every
\* receiver, and the channel closes.
ReaderFails ==
  /\ reader = "running"
  /\ ~up
  /\ replies = <<>>
  /\ reader' = "failed"
  /\ Deliver(Error)
  /\ UNCHANGED <<driverVars, up, requests, replies, taskVars, watchVars>>
-----------------------------------------------------------------------------
(* request_state *)

\* A request that is not answered yet will be answered by the present state or a
\* later one; a reply may be on its way already.
OldestAnswer ==
  Min({driver} \cup {m.version : m \in {n \in Range(replies) : n.kind = "reply"}})

\* Faulty variant: the Client's own receiver is used, with what piled up in it.
SubscribeToBacklog(t) ==
  /\ pc[t] = "idle"
  /\ pc' = [pc EXCEPT ![t] = "subscribed"]
  /\ oldest' = [oldest EXCEPT ![t] = OldestAnswer]
  /\ inbox' = [inbox EXCEPT ![t] = <<Reply(0)>>]
  /\ UNCHANGED <<driverVars, up, lagged, requests, replies, reader, watchVars>>

\* command_rx.resubscribe(): only what arrives from now on.
Subscribe(t) ==
  /\ pc[t] = "idle"
  /\ pc' = [pc EXCEPT ![t] = "subscribed"]
  /\ oldest' = [oldest EXCEPT ![t] = OldestAnswer]
  /\ UNCHANGED <<driverVars, up, requests, replies, reader, channelVars, watchVars>>

\* send_command.  A write to a broken pipe is noticed now or by the next write.
Send(t) ==
  /\ pc[t] = "subscribed"
  /\ requests < MaxInFlight
  /\ pc' = [pc EXCEPT ![t] = "waiting"]
  /\ requests' = IF up THEN requests + 1 ELSE requests
  /\ UNCHANGED <<driverVars, up, replies, reader, channelVars, oldest, watchVars>>

\* request_state returns; its receiver is dropped.
Return(t) ==
  /\ pc' = [pc EXCEPT ![t] = "idle"]
  /\ inbox' = [inbox EXCEPT ![t] = <<>>]
  /\ oldest' = [oldest EXCEPT ![t] = 0]

SendFails(t) ==
  /\ pc[t] = "subscribed"
  /\ ~up
  /\ Return(t)
  /\ UNCHANGED <<driverVars, up, lagged, requests, replies, reader, watchVars>>

\* The first State reply is taken for the answer, whoever asked.  The answer to
\* new_with's request is the first value of the watch channel.
TakeReply(t) ==
  /\ pc[t] = "waiting"
  /\ inbox[t] # <<>>
  /\ Head(inbox[t]).kind = "reply"
  /\ Return(t)
  /\ IF t = Builder /\ watcher = "none"
     THEN /\ watcher' = "gap"
          /\ watched' = Head(inbox[t]).version
     ELSE UNCHANGED <<watcher, watched>>
  /\ UNCHANGED <<driverVars, up, lagged, requests, replies, reader, base>>

TakeEvent(t) ==
  /\ pc[t] = "waiting"
  /\ inbox[t] # <<>>
  /\ Head(inbox[t]).kind = "event"
  /\ inbox' = [inbox EXCEPT ![t] = Tail(@)]
  /\ UNCHANGED <<driverVars, up, lagged, requests, replies, reader, taskVars, watchVars>>

TakeError(t) ==
  /\ pc[t] = "waiting"
  /\ inbox[t] # <<>>
  /\ Head(inbox[t]).kind = "error"
  /\ Return(t)
  /\ UNCHANGED <<driverVars, up, lagged, requests, replies, reader, watchVars>>

\* Faulty variant: a closed channel is waited on like one that lagged.
ClosedContinues(t) ==
  /\ pc[t] = "waiting"
  /\ inbox[t] = <<>>
  /\ reader = "failed"
  /\ UNCHANGED vars

\* The channel is closed: the error is the one in receive_error.
Closed(t) ==
  /\ pc[t] = "waiting"
  /\ inbox[t] = <<>>
  /\ reader = "failed"
  /\ Return(t)
  /\ UNCHANGED <<driverVars, up, lagged, requests, replies, reader, watchVars>>

\* Five seconds pass first.
TimesOut(t) ==
  /\ pc[t] = "waiting"
  /\ Return(t)
  /\ UNCHANGED <<driverVars, up, lagged, requests, replies, reader, watchVars>>
-----------------------------------------------------------------------------
(* DriverClient::new_with, after request_state *)

\* receive_events(): again, only what arrives from now on.
WatcherSubscribes ==
  /\ watcher = "gap"
  /\ watcher' = "following"
  /\ base' = slot
  /\ UNCHANGED <<driverVars, up, requests, replies, reader, channelVars, taskVars, watched>>

\* Everything but a Changed event is skipped.
WatcherTakes ==
  /\ watcher = "following"
  /\ inbox[Watcher] # <<>>
  /\ inbox' = [inbox EXCEPT ![Watcher] = Tail(@)]
  /\ watched' = LET m == Head(inbox[Watcher])
                IN  IF m.kind = "event" THEN m.version ELSE watched
  /\ UNCHANGED <<driverVars, up, lagged, requests, replies, reader, taskVars, watcher, base>>

WatcherEnds ==
  /\ watcher = "following"
  /\ inbox[Watcher] = <<>>
  /\ reader = "failed"
  /\ watcher' = "ended"
  /\ UNCHANGED <<driverVars, up, requests, replies, reader, channelVars, taskVars, watched, base>>
-----------------------------------------------------------------------------
Driver  == Change \/ Announce \/ ServerAnswers \/ ServerForwards \/ Break
Reader  == ReaderDelivers \/ ReaderFails
Watch   == WatcherSubscribes \/ WatcherTakes \/ WatcherEnds
Wait(t) == TakeReply(t) \/ TakeEvent(t) \/ TakeError(t) \/ Closed(t)

Next ==
  \/ Driver
  \/ Reader
  \/ Watch
  \/ \E t \in Tasks : Subscribe(t) \/ Send(t) \/ SendFails(t) \/ Wait(t) \/ TimesOut(t)

Spec == Init /\ [][Next]_vars

\* Both ends are polled by their runtimes.  Nothing need ever be asked or changed,
\* no timeout need ever fire, and the pipe need not break.
Fairness ==
  /\ WF_vars(ServerAnswers)
  /\ WF_vars(ServerForwards)
  /\ WF_vars(Reader)
  /\ WF_vars(Watch)
  /\ \A t \in Tasks : WF_vars(Send(t) \/ SendFails(t)) /\ WF_vars(Wait(t))

FairSpec == Spec /\ Fairness
-----------------------------------------------------------------------------
(* Properties *)

Messages == {Reply(v) : v \in Versions} \cup {Event(v) : v \in Versions}

\* Every variable keeps its type; no receiver is kept more messages than the channel
\* holds.
TypeOK ==
  /\ driver \in Versions /\ slot \in Versions /\ unread \in BOOLEAN /\ up \in BOOLEAN
  /\ requests \in 0..MaxInFlight
  /\ replies \in Seq(Messages)
  /\ reader \in {"running", "failed"}
  /\ inbox \in [Receivers -> Seq(Messages \cup {Error})]
  /\ \A r \in Receivers : Len(inbox[r]) <= Capacity
  /\ pc \in [Tasks -> {"idle", "subscribed", "waiting"}]
  /\ oldest \in [Tasks -> Versions]
  /\ watcher \in {"none", "gap", "following", "ended"}
  /\ watched \in Versions /\ base \in Versions /\ lagged \in BOOLEAN

\* No reply a request can take is older than the oldest that was under way when it
\* subscribed: alone on the connection, it gets a state it could have seen.
AnswerNotTooOld ==
  \A t \in Tasks : \A m \in Range(inbox[t]) :
    m.kind = "reply" => m.version >= oldest[t]

\* Nothing that concerns the watcher is under way.
Quiet ==
  /\ up
  /\ slot = driver
  /\ ~unread
  /\ replies = <<>>
  /\ inbox[Watcher] = <<>>

\* Once it follows the events the watcher ends up with the newest change announced
\* since, unless it lagged: refresh_state then gives the driver's state.
WatcherKeepsUp ==
  Quiet /\ watcher = "following" /\ slot # base /\ ~lagged => watched = slot

\* The same of a DriverClient that has just been made.  refresh_state: "Manually
\* synchronize with the driver".
\* No run has it: new_with itself breaks it.
ClientInSync == Quiet /\ watcher = "following" => watched = slot

\* Every request returns, even if no timeout fires, the pipe breaks at any point, or
\* other messages flood the channel: the reply can be overwritten unread only by more
\* events than the channel holds, and here there are fewer.
RequestsReturn == \A t \in Tasks : pc[t] = "waiting" ~> pc[t] = "idle"
=============================================================================
