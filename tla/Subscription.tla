---------------------------- MODULE Subscription ----------------------------
(***************************************************************************)
(* The life of a client's event stream, from rust/driver-ipc/src.  Copies  *)
(* of a Client share one connection, whose receive task runs until the     *)
(* last copy is dropped (client.rs).  add_event_receiver makes an event    *)
(* stream and spawns a task that calls a callback for each event, until    *)
(* its EventsSubscription cancels it or the stream ends (sync/client.rs).  *)
(*                                                                         *)
(* The owner of the subscription runs on a thread of its own, or is the    *)
(* callback; every call on a channel that the other side can see is one    *)
(* action.                                                                 *)
(***************************************************************************)
EXTENDS Integers, FiniteSets

CONSTANTS
  Copies,      \* Client values
  First,       \* the one connect_to returned
  MaxEvents,   \* bound: events the driver sends, fewer than the channel keeps
  Breaks,      \* may the pipe break?
  Panics       \* may the callback panic?

ASSUME SubscriptionAssumption ==
  /\ First \in Copies
  /\ MaxEvents \in Nat
  /\ {Breaks, Panics} \subseteq BOOLEAN

VARIABLES
  copy,       \* where each Client is
  reader,     \* the receive task
  aborted,    \* notify_waiters has woken it in its select!
  left,       \* events the driver has still to send
  inbox,      \* events, and the receive error, in the stream
  task,       \* the subscription's task
  token,      \* the abort channel's one place is taken
  held,       \* the EventsSubscription has not been dropped
  result,     \* has the task sent a panic, and what is result_rx: "open", "spent" (a value or
              \* the end was received from it) or "taken"
  user,       \* the owner's call: "idle", "looked" in cancel, "awaiting" in cancel_async, or
              \* "panicked" when the last one did
  accepted    \* tokens that cancel calls have put into the abort channel

vars == <<copy, reader, aborted, left, inbox, task, token, held, result, user, accepted>>

readerVars == <<reader, aborted, left>>
taskVars   == <<task, token, result>>
ownerVars  == <<held, user, accepted>>

Init ==
  /\ copy     = [c \in Copies |-> IF c = First THEN "live" ELSE "unused"]
  /\ reader   = "select"
  /\ aborted  = FALSE
  /\ left     = MaxEvents
  /\ inbox    = 0
  /\ task     = "check"
  /\ token    = FALSE
  /\ held     = TRUE
  /\ result   = [panic |-> FALSE, rx |-> "open"]
  /\ user     = "idle"
  /\ accepted = 0
-----------------------------------------------------------------------------
(* Copies of the Client *)

Open == {c \in Copies : copy[c] \in {"live", "dropping"}}

\* Arc::strong_count of what the copies and the receive task share.
StrongCount == Cardinality(Open) + IF reader \in {"select", "busy"} THEN 1 ELSE 0

Clone(c, d) ==
  /\ copy[c] = "live"
  /\ copy[d] = "unused"
  /\ copy' = [copy EXCEPT ![d] = "live"]
  /\ UNCHANGED <<readerVars, inbox, taskVars, ownerVars>>

\* Faulty variant: off by one, the receive task's own reference is forgotten twice.
DropNotifiesEarly(c) ==
  /\ copy[c] = "live"
  /\ copy' = [copy EXCEPT ![c] = "dropping"]
  /\ aborted' = (aborted \/ (StrongCount <= 3 /\ reader = "select"))
  /\ UNCHANGED <<reader, left, inbox, taskVars, ownerVars>>

\* Drop::drop: the last copy wakes the receive task, if it waits at this moment.
DropNotifies(c) ==
  /\ copy[c] = "live"
  /\ copy' = [copy EXCEPT ![c] = "dropping"]
  /\ aborted' = (aborted \/ (StrongCount = 2 /\ reader = "select"))
  /\ UNCHANGED <<reader, left, inbox, taskVars, ownerVars>>

\* Only then are its fields dropped, and the count goes down.
DropReleases(c) ==
  /\ copy[c] = "dropping"
  /\ copy' = [copy EXCEPT ![c] = "gone"]
  /\ UNCHANGED <<readerVars, inbox, taskVars, ownerVars>>
-----------------------------------------------------------------------------
(* receive_command *)

\* The readable() branch of select!; a notification that came as well is lost.
ReaderWakes ==
  /\ reader = "select"
  /\ left > 0
  /\ reader' = "busy"
  /\ aborted' = FALSE
  /\ left' = left - 1
  /\ UNCHANGED <<copy, inbox, taskVars, ownerVars>>

ReaderAborts ==
  /\ reader = "select"
  /\ aborted
  /\ reader' = "aborted"
  /\ UNCHANGED <<copy, aborted, left, inbox, taskVars, ownerVars>>

\* The event is sent to the channel; without any receiver the task ends.
ReaderSends ==
  /\ reader = "busy"
  /\ IF task # "ended"
     THEN inbox' = inbox + 1 /\ reader' = "select"
     ELSE inbox' = inbox /\ reader' = IF Open = {} THEN "aborted" ELSE "select"
  /\ UNCHANGED <<copy, aborted, left, taskVars, ownerVars>>

\* A read error: it is sent as well, and the channel closes.
ReaderFails ==
  /\ Breaks
  /\ reader = "select"
  /\ reader' = "failed"
  /\ inbox' = IF task = "ended" THEN inbox ELSE inbox + 1
  /\ UNCHANGED <<copy, aborted, left, taskVars, ownerVars>>
-----------------------------------------------------------------------------
(* The subscription's task *)

StreamEnded == inbox = 0 /\ reader \in {"aborted", "failed"}

\* Faulty variant: the test of is_closed is inverted.
TaskChecksInverted ==
  /\ task = "check"
  /\ task' = IF held THEN "stream" ELSE "select"
  /\ UNCHANGED <<copy, readerVars, inbox, token, result, ownerVars>>

\* The loop's condition: with the sender dropped, abort_rx.is_closed() holds, even if
\* a token was sent before, and only the stream is waited for.
TaskChecks ==
  /\ task = "check"
  /\ task' = IF held THEN "select" ELSE "stream"
  /\ UNCHANGED <<copy, readerVars, inbox, token, result, ownerVars>>

TaskTakesEvent ==
  /\ task \in {"select", "stream"}
  /\ inbox > 0
  /\ inbox' = inbox - 1
  /\ task' = "callback"
  /\ UNCHANGED <<copy, readerVars, token, result, ownerVars>>

TaskEndsStream ==
  /\ task \in {"select", "stream"}
  /\ StreamEnded
  /\ task' = "leaving"
  /\ UNCHANGED <<copy, readerVars, inbox, token, result, ownerVars>>

\* abort_rx.recv() yields a token, or nothing because the sender is dropped.
TaskTakesToken ==
  /\ task = "select"
  /\ token \/ ~held
  /\ token' = FALSE
  /\ task' = "leaving"
  /\ UNCHANGED <<copy, readerVars, inbox, result, ownerVars>>

CallbackReturns ==
  /\ task = "callback"
  /\ task' = "check"
  /\ UNCHANGED <<copy, readerVars, inbox, token, result, ownerVars>>

\* The panic goes to result_rx, if the owner still has it.
CallbackPanics ==
  /\ Panics
  /\ task = "callback"
  /\ result' = [result EXCEPT !.panic = TRUE]
  /\ task' = "leaving"
  /\ UNCHANGED <<copy, readerVars, inbox, token, ownerVars>>

\* The task's ends of the channels, and the stream, are dropped.
TaskEnds ==
  /\ task = "leaving"
  /\ task' = "ended"
  /\ inbox' = 0
  /\ UNCHANGED <<copy, readerVars, token, result, ownerVars>>
-----------------------------------------------------------------------------
(* The owner of the EventsSubscription *)

\* try_send: the place is free and the receiver alive.
Accepts == ~token /\ task # "ended"

SendToken ==
  /\ token' = (token \/ Accepts)
  /\ accepted' = IF Accepts THEN accepted + 1 ELSE accepted

\* Once result_rx is taken, each call returns Ok(false) at once.
Owner == user \in {"idle", "panicked"} /\ held /\ result.rx # "taken"

\* The oneshot channel is complete: it has the panic, or its sender is gone.
Complete == result.panic \/ task = "ended"

\* cancel, rx.try_recv(): the panic is returned, or nothing is left to do; either empties
\* the receiver for good, and it stays in result_rx.
CancelLooks ==
  /\ Owner
  /\ IF result.rx = "open" /\ ~Complete
     THEN user' = "looked" /\ UNCHANGED result
     ELSE user' = "idle" /\ result' = [result EXCEPT !.rx = "spent"]
  /\ UNCHANGED <<copy, readerVars, inbox, task, token, held, accepted>>

CancelSends ==
  /\ user = "looked"
  /\ SendToken
  /\ user' = "idle"
  /\ UNCHANGED <<copy, readerVars, inbox, task, result, held>>

\* cancel_async, or cancel_blocking: result_rx is taken and awaited; tokio panics when a
\* receiver that is spent is awaited.
CancelAsync ==
  /\ Owner
  /\ SendToken
  /\ result' = [result EXCEPT !.rx = "taken"]
  /\ user' = IF result.rx = "spent" THEN "panicked" ELSE "awaiting"
  /\ UNCHANGED <<copy, readerVars, inbox, task, held>>

\* Faulty variant: the result is not waited for.
AwaitNothing ==
  /\ user = "awaiting"
  /\ user' = "idle"
  /\ UNCHANGED <<copy, readerVars, inbox, taskVars, held, accepted>>

AwaitReturns ==
  /\ user = "awaiting"
  /\ Complete
  /\ user' = "idle"
  /\ UNCHANGED <<copy, readerVars, inbox, taskVars, held, accepted>>

\* The subscription is dropped, and with it the sender of the abort channel.
DropSubscription ==
  /\ user \in {"idle", "panicked"}
  /\ held
  /\ held' = FALSE
  /\ UNCHANGED <<copy, readerVars, inbox, taskVars, user, accepted>>
-----------------------------------------------------------------------------
Reader == ReaderWakes \/ ReaderAborts \/ ReaderSends
Task   == TaskChecks \/ TaskTakesEvent \/ TaskEndsStream \/ TaskTakesToken
            \/ CallbackReturns \/ CallbackPanics \/ TaskEnds
Call   == CancelSends \/ AwaitReturns

Next ==
  \/ \E c, d \in Copies : Clone(c, d)
  \/ \E c \in Copies : DropNotifies(c) \/ DropReleases(c)
  \/ Reader
  \/ ReaderFails
  \/ Task
  \/ Call
  \/ CancelLooks
  \/ CancelAsync
  \/ DropSubscription

Spec == Init /\ [][Next]_vars

\* Both tasks are polled, callbacks return, and calls and drops that have begun are
\* completed.  select! picks between ready branches at random: strong fairness for the
\* abort token.  Nobody need cancel or drop anything.
Fairness ==
  /\ WF_vars(Reader)
  /\ WF_vars(Task)
  /\ SF_vars(TaskTakesToken)
  /\ WF_vars(Call)
  /\ \A c \in Copies : WF_vars(DropReleases(c))

FairSpec == Spec /\ Fairness
-----------------------------------------------------------------------------
(* Properties *)

\* Every variable keeps its type; two tokens are accepted at most, the second in the
\* moment between the first being taken and the task ending.
TypeOK ==
  /\ copy \in [Copies -> {"unused", "live", "dropping", "gone"}]
  /\ reader \in {"select", "busy", "aborted", "failed"}
  /\ {aborted, token, held} \subseteq BOOLEAN
  /\ left \in 0..MaxEvents
  /\ inbox \in 0..(MaxEvents + 1)
  /\ task \in {"check", "select", "stream", "callback", "leaving", "ended"}
  /\ result \in [panic : BOOLEAN, rx : {"open", "spent", "taken"}]
  /\ user \in {"idle", "looked", "awaiting", "panicked"}
  /\ accepted \in 0..2

\* The stream is not closed while a copy is in use, whatever is cloned and dropped at
\* the same time: it "will only be closed after all copies are dropped".
StreamOutlivesCopies == reader = "aborted" => \A c \in Copies : copy[c] # "live"

\* When cancel_async has returned, or panicked, or cancel has received the callback's
\* panic or the end, the callback does not run any more: cancel_async "waits until the
\* callback either returns or panics".
QuietAfterAwait ==
  result.rx = "spent" \/ (result.rx = "taken" /\ user # "awaiting")
    => task \in {"leaving", "ended"}

\* A cancelled subscription ends, as long as its owner keeps the EventsSubscription.
HeldCancelEnds == accepted > 0 ~> task = "ended" \/ ~held

\* A cancel_async that waits returns, even if a cancel has put its token in before, the
\* callback is running, it panics, or the pipe breaks.  It waits unless an earlier cancel
\* has emptied the receiver; then it panics (NeverPanics).
AwaitTerminates == user = "awaiting" ~> user = "idle"

\* After a panic was returned, and when the subscription was cancelled already, "any
\* subsequent calls will return `Ok(false)`": none of them panics.
\* No run has it: cancel_async after a cancel that found the task ended breaks it.
NeverPanics == user # "panicked"

\* "Cancel the subscription": once a cancel has returned Ok(true), it ends, whatever
\* the owner does next.
\* No run has it: a drop during the callback breaks it.
CancelledEnds == accepted > 0 ~> task = "ended"
=============================================================================
