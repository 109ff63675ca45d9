------------------------- MODULE SubscriptionProofs -------------------------
(***************************************************************************)
(* Theorems about Subscription for any number of Client copies and events. *)
(***************************************************************************)
EXTENDS Subscription, FiniteSetTheorems, TLAPS

(* The inductive invariant *)

Running == {"check", "select", "stream", "callback"}

Types ==
  /\ copy \in [Copies -> {"unused", "live", "dropping", "gone"}]
  /\ reader \in {"select", "busy", "aborted", "failed"}
  /\ aborted \in BOOLEAN /\ token \in BOOLEAN /\ held \in BOOLEAN
  /\ left \in Nat /\ inbox \in Nat /\ accepted \in Nat
  /\ task \in Running \cup {"leaving", "ended"}
  /\ result \in [panic : BOOLEAN, rx : {"open", "spent", "taken"}]
  /\ user \in {"idle", "looked", "awaiting", "panicked"}

\* A read error is the one thing in the stream that the driver did not send.
EventsFit ==
  /\ left <= MaxEvents
  /\ left + inbox + (IF reader = "busy" THEN 1 ELSE 0)
       <= MaxEvents + (IF reader = "failed" THEN 1 ELSE 0)

\* A cancel that is accepted leaves its token, and the task takes one at most.
CancelsCounted ==
  /\ task \in Running => accepted = IF token THEN 1 ELSE 0
  /\ accepted <= IF token THEN 2 ELSE 1

\* Counting the copies is only possible while there are finitely many; the receive task is
\* woken, or ends, after the last of them has begun to go.
LastCopyWakes ==
  /\ IsFiniteSet(Open)
  /\ reader = "busy" => ~aborted
  /\ reader = "aborted" \/ (reader = "select" /\ aborted) => \A c \in Copies : copy[c] # "live"

\* Nothing is in the result channel, and nothing has come out of it, before the task leaves
\* its loop.
ResultIsLast ==
  result.panic \/ result.rx = "spent" \/ (result.rx = "taken" /\ user # "awaiting")
    => task \in {"leaving", "ended"}

SubscriptionInv == Types /\ EventsFit /\ CancelsCounted /\ LastCopyWakes /\ ResultIsLast

LEMMA StartInv == Init => SubscriptionInv
<1> SUFFICES ASSUME Init PROVE SubscriptionInv
  OBVIOUS
<1>1. Types
  BY SubscriptionAssumption DEF Init, Types, Running
<1>2. EventsFit /\ CancelsCounted /\ ResultIsLast
  BY SubscriptionAssumption DEF Init, EventsFit, CancelsCounted, ResultIsLast, Running
<1>3. Open = {First}
  BY SubscriptionAssumption DEF Init, Open
<1>4. LastCopyWakes
  BY <1>3, FS_Singleton DEF Init, LastCopyWakes
<1> QED
  BY <1>1, <1>2, <1>4 DEF SubscriptionInv
-----------------------------------------------------------------------------
(* The steps, part by part *)

LEMMA TypesStep ==
  ASSUME SubscriptionInv, [Next]_vars
  PROVE  Types'
<1> USE DEF SubscriptionInv, Types, Running, readerVars, taskVars, ownerVars
<1>1. ASSUME NEW c \in Copies, NEW d \in Copies, Clone(c, d)
      PROVE  Types'
  BY <1>1 DEF Clone
<1>2. ASSUME NEW c \in Copies, DropNotifies(c) \/ DropReleases(c)
      PROVE  Types'
  <2>1. aborted' \in BOOLEAN
    BY <1>2 DEF DropNotifies, DropReleases
  <2> QED
    BY <1>2, <2>1 DEF DropNotifies, DropReleases
<1>3. CASE ReaderWakes
  <2>1. left' \in Nat
    BY <1>3 DEF ReaderWakes
  <2> QED
    BY <1>3, <2>1 DEF ReaderWakes
<1>4. CASE ReaderSends
  BY <1>4 DEF ReaderSends
<1>5. CASE ReaderAborts \/ ReaderFails
  BY <1>5 DEF ReaderAborts, ReaderFails
<1>6. CASE TaskChecks \/ TaskTakesEvent \/ TaskEndsStream
  BY <1>6 DEF TaskChecks, TaskTakesEvent, TaskEndsStream
<1>7. CASE TaskTakesToken
  <2>1. token' = FALSE /\ task' = "leaving"
    BY <1>7 DEF TaskTakesToken
  <2>2. UNCHANGED <<copy, readerVars, inbox, result, ownerVars>>
    BY <1>7 DEF TaskTakesToken
  <2> QED
    BY <2>1, <2>2
<1>8. CASE CallbackReturns \/ CallbackPanics \/ TaskEnds
  <2>1. CASE CallbackPanics
    BY <2>1 DEF CallbackPanics
  <2>2. CASE CallbackReturns \/ TaskEnds
    BY <2>2 DEF CallbackReturns, TaskEnds
  <2> QED
    BY <1>8, <2>1, <2>2
<1>9. CASE CancelSends \/ CancelAsync
  <2>1. token' \in BOOLEAN /\ accepted' \in Nat
    <3>1. token' \in BOOLEAN
      BY <1>9 DEF CancelSends, CancelAsync, SendToken
    <3>2. accepted' \in Nat
      BY <1>9 DEF CancelSends, CancelAsync, SendToken
    <3> QED
      BY <3>1, <3>2
  <2> QED
    BY <1>9, <2>1 DEF CancelSends, CancelAsync
<1>10. CASE AwaitReturns \/ CancelLooks \/ DropSubscription
  BY <1>10 DEF AwaitReturns, CancelLooks, DropSubscription
<1>11. CASE UNCHANGED vars
  BY <1>11 DEF vars
<1> QED
  BY <1>1, <1>2, <1>3, <1>4, <1>5, <1>6, <1>7, <1>8, <1>9, <1>10, <1>11
     DEF Next, Reader, Task, Call

LEMMA EventsStep ==
  ASSUME SubscriptionInv, [Next]_vars
  PROVE  EventsFit'
<1> USE SubscriptionAssumption DEF SubscriptionInv, Types, EventsFit, readerVars
<1>1. CASE Reader \/ ReaderFails
  BY <1>1 DEF Reader, ReaderWakes, ReaderAborts, ReaderSends, ReaderFails
<1>2. CASE Task
  BY <1>2 DEF Task, TaskChecks, TaskTakesEvent, TaskEndsStream, TaskTakesToken, CallbackReturns,
              CallbackPanics, TaskEnds
<1>3. CASE UNCHANGED <<reader, left, inbox>>
  BY <1>3
<1>4. ASSUME NEW c \in Copies,
             \/ DropNotifies(c) \/ DropReleases(c) \/ \E d \in Copies : Clone(c, d)
      PROVE  UNCHANGED <<reader, left, inbox>>
  BY <1>4 DEF DropNotifies, DropReleases, Clone
<1>5. ASSUME Call \/ CancelLooks \/ CancelAsync \/ DropSubscription \/ UNCHANGED vars
      PROVE  UNCHANGED <<reader, left, inbox>>
  BY <1>5 DEF Call, CancelSends, AwaitReturns, CancelLooks, CancelAsync, DropSubscription, vars
<1> QED
  BY <1>1, <1>2, <1>3, <1>4, <1>5 DEF Next

LEMMA CancelsStep ==
  ASSUME SubscriptionInv, [Next]_vars
  PROVE  CancelsCounted'
<1> USE DEF SubscriptionInv, Types, CancelsCounted, Running
<1>1. CASE Task
  <2>1. UNCHANGED accepted
    BY <1>1 DEF Task, TaskChecks, TaskTakesEvent, TaskEndsStream, TaskTakesToken, CallbackReturns,
                CallbackPanics, TaskEnds, ownerVars
  <2>2. CASE TaskTakesToken
    BY <2>1, <2>2 DEF TaskTakesToken
  <2>3. CASE UNCHANGED token /\ (task' \in Running => task \in Running)
    BY <2>1, <2>3
  <2> QED
    BY <1>1, <2>2, <2>3 DEF Task, TaskChecks, TaskTakesEvent, TaskEndsStream, CallbackReturns,
                            CallbackPanics, TaskEnds
<1>2. CASE CancelSends \/ CancelAsync
  <2>1. CASE Accepts
    <3>1. token' = TRUE /\ accepted' = accepted + 1 /\ task' = task
      BY <1>2, <2>1 DEF CancelSends, CancelAsync, SendToken
    <3> QED
      BY <2>1, <3>1 DEF Accepts
  <2>2. CASE ~Accepts
    <3>1. token' = token /\ accepted' = accepted /\ task' = task
      BY <1>2, <2>2 DEF CancelSends, CancelAsync, SendToken
    <3> QED
      BY <3>1
  <2> QED
    BY <2>1, <2>2
<1>3. CASE UNCHANGED <<task, token, accepted>>
  BY <1>3
<1>4. ASSUME NEW c \in Copies,
             \/ DropNotifies(c) \/ DropReleases(c) \/ \E d \in Copies : Clone(c, d)
      PROVE  UNCHANGED <<task, token, accepted>>
  BY <1>4 DEF DropNotifies, DropReleases, Clone, taskVars, ownerVars
<1>5. ASSUME Reader \/ ReaderFails
      PROVE  UNCHANGED <<task, token, accepted>>
  BY <1>5 DEF Reader, ReaderWakes, ReaderAborts, ReaderSends, ReaderFails, taskVars, ownerVars
<1>6. ASSUME AwaitReturns \/ CancelLooks \/ DropSubscription \/ UNCHANGED vars
      PROVE  UNCHANGED <<task, token, accepted>>
  BY <1>6 DEF AwaitReturns, CancelLooks, DropSubscription, vars, taskVars
<1> QED
  BY <1>1, <1>2, <1>3, <1>4, <1>5, <1>6 DEF Next, Call

LEMMA ResultStep ==
  ASSUME SubscriptionInv, [Next]_vars
  PROVE  ResultIsLast'
<1> USE DEF SubscriptionInv, Types, ResultIsLast, Running
<1>1. CASE Task
  BY <1>1 DEF Task, TaskChecks, TaskTakesEvent, TaskEndsStream, TaskTakesToken, CallbackReturns,
              CallbackPanics, TaskEnds, ownerVars
<1>2. CASE CancelLooks
  BY <1>2 DEF CancelLooks, Owner, Complete
<1>3. CASE AwaitReturns
  BY <1>3 DEF AwaitReturns, Complete, taskVars
<1>4. CASE CancelAsync
  BY <1>4 DEF CancelAsync, Owner
<1>5. CASE CancelSends
  BY <1>5 DEF CancelSends
<1>6. CASE UNCHANGED <<task, result, user>>
  BY <1>6
<1>7. ASSUME NEW c \in Copies,
             \/ DropNotifies(c) \/ DropReleases(c) \/ \E d \in Copies : Clone(c, d)
      PROVE  UNCHANGED <<task, result, user>>
  BY <1>7 DEF DropNotifies, DropReleases, Clone, taskVars, ownerVars
<1>8. ASSUME Reader \/ ReaderFails
      PROVE  UNCHANGED <<task, result, user>>
  BY <1>8 DEF Reader, ReaderWakes, ReaderAborts, ReaderSends, ReaderFails, taskVars, ownerVars
<1>9. ASSUME DropSubscription \/ UNCHANGED vars
      PROVE  UNCHANGED <<task, result, user>>
  BY <1>9 DEF DropSubscription, vars, taskVars
<1> QED
  BY <1>1, <1>2, <1>3, <1>4, <1>5, <1>6, <1>7, <1>8, <1>9 DEF Next, Call

\* strong_count is two: the receive task, and the copy that is about to go.
LEMMA LastOpen ==
  ASSUME IsFiniteSet(Open), StrongCount = 2, reader = "select", NEW c \in Open
  PROVE  Open = {c}
<1>1. Cardinality(Open) = 1
  BY FS_CardinalityType DEF StrongCount
<1> QED
  BY <1>1, FS_Singleton

LEMMA CopiesStep ==
  ASSUME SubscriptionInv, [Next]_vars
  PROVE  LastCopyWakes'
<1>1. ASSUME UNCHANGED copy
      PROVE  IsFiniteSet(Open)'
  BY <1>1 DEF SubscriptionInv, LastCopyWakes, Open
<1>2. ASSUME NEW c \in Copies, NEW d \in Copies, Clone(c, d)
      PROVE  LastCopyWakes'
  <2>1. Open' = Open \cup {d}
    BY <1>2 DEF Clone, Open, SubscriptionInv, Types
  <2>2. IsFiniteSet(Open)'
    BY <2>1, FS_AddElement DEF SubscriptionInv, LastCopyWakes
  <2> QED
    BY <1>2, <2>2 DEF Clone, readerVars, SubscriptionInv, LastCopyWakes
<1>3. ASSUME NEW c \in Copies, DropNotifies(c)
      PROVE  LastCopyWakes'
  <2>1. copy' = [copy EXCEPT ![c] = "dropping"] /\ UNCHANGED reader
    BY <1>3 DEF DropNotifies
  <2>2. c \in Open /\ Open' = Open
    BY <1>3, <2>1 DEF DropNotifies, Open, SubscriptionInv, Types
  <2>3. aborted' = (aborted \/ (StrongCount = 2 /\ reader = "select"))
    BY <1>3 DEF DropNotifies
  <2>4. ASSUME StrongCount = 2, reader = "select", NEW d \in Copies
        PROVE  copy'[d] # "live"
    <3>1. d # c => d \notin Open
      BY <2>2, <2>4, LastOpen DEF SubscriptionInv, LastCopyWakes
    <3> QED
      BY <2>1, <3>1 DEF Open, SubscriptionInv, Types
  <2>5. \A d \in Copies : copy'[d] = "live" => copy[d] = "live"
    BY <2>1 DEF SubscriptionInv, Types
  <2> QED
    BY <2>1, <2>2, <2>3, <2>4, <2>5 DEF SubscriptionInv, LastCopyWakes
<1>4. ASSUME NEW c \in Copies, DropReleases(c)
      PROVE  LastCopyWakes'
  <2>1. copy' = [copy EXCEPT ![c] = "gone"] /\ UNCHANGED readerVars
    BY <1>4 DEF DropReleases
  <2>2. Open' = Open \ {c}
    BY <2>1 DEF Open, SubscriptionInv, Types
  <2>3. IsFiniteSet(Open)'
    BY <2>2, FS_RemoveElement DEF SubscriptionInv, LastCopyWakes
  <2>4. \A d \in Copies : copy'[d] = "live" => copy[d] = "live"
    BY <2>1 DEF SubscriptionInv, Types
  <2> QED
    BY <2>1, <2>3, <2>4 DEF readerVars, SubscriptionInv, LastCopyWakes
<1>5. CASE ReaderWakes
  BY <1>1, <1>5 DEF ReaderWakes, SubscriptionInv, LastCopyWakes
<1>6. CASE ReaderAborts
  BY <1>1, <1>6 DEF ReaderAborts, SubscriptionInv, LastCopyWakes
<1>7. CASE ReaderSends
  BY <1>1, <1>7 DEF ReaderSends, SubscriptionInv, LastCopyWakes, Open
<1>8. CASE ReaderFails
  BY <1>1, <1>8 DEF ReaderFails, SubscriptionInv, LastCopyWakes
<1>9. ASSUME UNCHANGED <<copy, reader, aborted>>
      PROVE  LastCopyWakes'
  BY <1>1, <1>9 DEF SubscriptionInv, LastCopyWakes
<1>10. ASSUME \/ Task \/ Call \/ CancelLooks \/ CancelAsync \/ DropSubscription
              \/ UNCHANGED vars
       PROVE  UNCHANGED <<copy, reader, aborted>>
  BY <1>10 DEF Task, TaskChecks, TaskTakesEvent, TaskEndsStream, TaskTakesToken, CallbackReturns,
               CallbackPanics, TaskEnds, Call, CancelSends, AwaitReturns, CancelLooks, CancelAsync,
               DropSubscription, vars, readerVars
<1> QED
  BY <1>2, <1>3, <1>4, <1>5, <1>6, <1>7, <1>8, <1>9, <1>10 DEF Next, Reader
-----------------------------------------------------------------------------
(* The theorems *)

\* The invariant from which the theorems below follow.
THEOREM SubscriptionInvariant == Spec => []SubscriptionInv
<1>1. SubscriptionInv /\ [Next]_vars => SubscriptionInv'
  BY TypesStep, EventsStep, CancelsStep, ResultStep, CopiesStep DEF SubscriptionInv
<1> QED
  BY <1>1, StartInv, PTL DEF Spec

\* Every variable keeps its type: the stream never holds more than the driver has sent and one
\* error, and two cancels at most are accepted.
THEOREM SubscriptionTypes == Spec => []TypeOK
<1>1. SubscriptionInv => TypeOK
  <2> SUFFICES ASSUME SubscriptionInv PROVE TypeOK
    OBVIOUS
  <2>1. left \in 0..MaxEvents /\ inbox \in 0..(MaxEvents + 1)
    BY SubscriptionAssumption DEF SubscriptionInv, Types, EventsFit
  <2>2. accepted \in 0..2
    BY DEF SubscriptionInv, Types, CancelsCounted
  <2> QED
    BY <2>1, <2>2 DEF SubscriptionInv, Types, Running, TypeOK
<1> QED
  BY <1>1, SubscriptionInvariant, PTL

\* However many copies are cloned and dropped at the same time, the receive task ends of its
\* own accord only when the last one has begun to go.
THEOREM StreamAlwaysOutlives == Spec => []StreamOutlivesCopies
<1>1. SubscriptionInv => StreamOutlivesCopies
  BY DEF SubscriptionInv, LastCopyWakes, StreamOutlivesCopies
<1> QED
  BY <1>1, SubscriptionInvariant, PTL

\* Whatever races with it, a cancel_async that has returned, and a cancel that has received
\* the callback's panic or the end, has seen the callback's task leave.
THEOREM AlwaysQuietAfterAwait == Spec => []QuietAfterAwait
<1>1. SubscriptionInv => QuietAfterAwait
  BY DEF SubscriptionInv, ResultIsLast, QuietAfterAwait
<1> QED
  BY <1>1, SubscriptionInvariant, PTL
=============================================================================
