-------------------------- MODULE ClientLinkProofs --------------------------
(***************************************************************************)
(* Theorems about ClientLink for any number of requesting tasks and        *)
(* messages, and channels of any capacity.                                 *)
(***************************************************************************)
EXTENDS ClientLink, SequenceTheorems, WellFoundedInduction, TLAPS

(* Numbers and messages *)

\* A set of natural numbers has a least element.
LEMMA LeastElement ==
  ASSUME NEW T \in SUBSET Nat, T # {}
  PROVE  \E n \in T : \A m \in T : n <= m
<1> DEFINE R == {ss \in Nat \X Nat : ss[1] < ss[2]}
<1>1. IsWellFoundedOn(R, Nat)
  BY NatLessThanWellFounded DEF OpToRel
<1>2. \A m, n \in Nat : m < n => <<m, n>> \in R
  OBVIOUS
<1> HIDE DEF R
<1>3. PICK n \in T : \A m \in T : ~(<<m, n>> \in R)
  BY <1>1, WFMin
<1>4. ASSUME NEW m \in T PROVE n <= m
  <2>1. m \in Nat /\ n \in Nat
    BY <1>3, <1>4
  <2>2. ~(m < n)
    BY <1>2, <1>3, <2>1
  <2> QED
    BY <2>1, <2>2
<1> QED
  BY <1>4

LEMMA MessageParts ==
  ASSUME NEW m \in Messages \cup {Error}
  PROVE  /\ m.kind \in {"reply", "event", "error"}
         /\ m.kind # "error" => m \in Messages /\ m.version \in Versions
         /\ m \in Messages => m.kind # "error"
BY DEF Messages, Reply, Event, Error

LEMMA MessagesAreMessages ==
  ASSUME NEW v \in Versions
  PROVE  /\ Reply(v) \in Messages /\ Reply(v).kind = "reply" /\ Reply(v).version = v
         /\ Event(v) \in Messages /\ Event(v).kind = "event" /\ Event(v).version = v
BY DEF Messages, Reply, Event

\* The two sequences a message can be in: the pipe, and a receiver's inbox.
Inboxes == Seq(Messages \cup {Error})

LEMMA PipeIsInbox ==
  ASSUME NEW s \in Seq(Messages)
  PROVE  s \in Inboxes
BY SeqMonotonic DEF Inboxes

\* Where the events are.
Events(s) == {k \in 1..Len(s) : s[k].kind = "event"}

LastEventIs(s, v) ==
  \A k \in Events(s) : (\A j \in Events(s) : j <= k) => s[k].version = v

\* A sequence with one message more.
LEMMA Appended ==
  ASSUME NEW s \in Inboxes, NEW m \in Messages \cup {Error}
  PROVE  /\ Append(s, m) \in Inboxes
         /\ Len(Append(s, m)) = Len(s) + 1
         /\ \A k \in 1..Len(s) : Append(s, m)[k] = s[k]
         /\ Append(s, m)[Len(s) + 1] = m
         /\ Events(Append(s, m)) = Events(s) \cup (IF m.kind = "event" THEN {Len(s) + 1} ELSE {})
<1>1. /\ Append(s, m) \in Inboxes
      /\ Len(Append(s, m)) = Len(s) + 1
      /\ \A k \in 1..Len(s) : Append(s, m)[k] = s[k]
      /\ Append(s, m)[Len(s) + 1] = m
  BY DEF Inboxes
<1>2. Len(s) \in Nat
  BY DEF Inboxes
<1> QED
  BY <1>1, <1>2 DEF Events

\* A sequence without its first message.
LEMMA Shortened ==
  ASSUME NEW s \in Inboxes, s # <<>>
  PROVE  /\ Head(s) \in Messages \cup {Error}
         /\ Head(s) = s[1]
         /\ Tail(s) \in Inboxes
         /\ Len(s) \in Nat \ {0}
         /\ Len(Tail(s)) = Len(s) - 1
         /\ \A k \in 1..Len(Tail(s)) : Tail(s)[k] = s[k + 1]
         /\ \A k \in 1..Len(Tail(s)) : k \in Events(Tail(s)) <=> k + 1 \in Events(s)
<1>1. /\ Head(s) \in Messages \cup {Error}
      /\ Tail(s) \in Inboxes
      /\ Len(Tail(s)) = Len(s) - 1
      /\ \A k \in 1..Len(Tail(s)) : Tail(s)[k] = s[k + 1]
  BY HeadTailProperties DEF Inboxes
<1>2. Len(s) \in Nat \ {0} /\ Head(s) = s[1]
  BY EmptySeq DEF Inboxes
<1> QED
  BY <1>1, <1>2 DEF Events

\* The last event stays the last one when another message, or none, is behind it.
LEMMA LastAppended ==
  ASSUME NEW s \in Inboxes, NEW m \in Messages \cup {Error}, NEW v
  PROVE  /\ m.kind # "event" => /\ Events(Append(s, m)) = Events(s)
                                /\ LastEventIs(s, v) => LastEventIs(Append(s, m), v)
         /\ m.kind = "event" => /\ Events(Append(s, m)) # {}
                                /\ LastEventIs(Append(s, m), m.version)
<1>1. /\ \A k \in 1..Len(s) : Append(s, m)[k] = s[k]
      /\ Append(s, m)[Len(s) + 1] = m
      /\ Events(Append(s, m)) = Events(s) \cup (IF m.kind = "event" THEN {Len(s) + 1} ELSE {})
      /\ Len(s) \in Nat
  BY Appended DEF Inboxes
<1>2. CASE m.kind # "event"
  BY <1>1, <1>2 DEF LastEventIs, Events
<1>3. CASE m.kind = "event"
  <2>1. Events(Append(s, m)) = Events(s) \cup {Len(s) + 1}
    BY <1>1, <1>3
  <2>2. ASSUME NEW k \in Events(Append(s, m)), \A j \in Events(Append(s, m)) : j <= k
        PROVE  k = Len(s) + 1
    BY <1>1, <2>1, <2>2 DEF Events
  <2> QED
    BY <1>1, <1>3, <2>1, <2>2 DEF LastEventIs
<1> QED
  BY <1>2, <1>3

LEMMA LastShortened ==
  ASSUME NEW s \in Inboxes, s # <<>>, NEW v
  PROVE  /\ LastEventIs(s, v) => LastEventIs(Tail(s), v)
         /\ Events(Tail(s)) # {} => Events(s) # {}
         /\ Events(Tail(s)) = {} =>
              /\ Head(s).kind # "event" => Events(s) = {}
              /\ Head(s).kind = "event" => /\ Events(s) # {}
                                           /\ LastEventIs(s, v) => Head(s).version = v
<1>1. /\ Head(s) = s[1]
      /\ Len(s) \in Nat \ {0}
      /\ Len(Tail(s)) = Len(s) - 1
      /\ \A k \in 1..Len(Tail(s)) : Tail(s)[k] = s[k + 1]
      /\ \A k \in 1..Len(Tail(s)) : k \in Events(Tail(s)) <=> k + 1 \in Events(s)
  BY Shortened
<1>2. Events(Tail(s)) \subseteq 1..Len(Tail(s)) /\ Events(s) \subseteq 1..Len(s)
  BY DEF Events
<1>3. \A k \in Events(s) : k = 1 \/ k - 1 \in Events(Tail(s))
  BY <1>1, <1>2
<1>4. ASSUME LastEventIs(s, v), NEW k \in Events(Tail(s)), \A j \in Events(Tail(s)) : j <= k
      PROVE  Tail(s)[k].version = v
  <2>1. k + 1 \in Events(s)
    BY <1>1, <1>2
  <2>2. \A j \in Events(s) : j <= k + 1
    BY <1>1, <1>2, <1>3, <1>4
  <2> QED
    BY <1>1, <1>2, <1>4, <2>1, <2>2 DEF LastEventIs
<1>5. ASSUME Events(Tail(s)) = {}, Head(s).kind = "event"
      PROVE  1 \in Events(s) /\ \A j \in Events(s) : j <= 1
  <2>1. 1 \in Events(s)
    BY <1>1, <1>5 DEF Events
  <2>2. \A j \in Events(s) : j = 1
    BY <1>3, <1>5
  <2> QED
    BY <2>1, <2>2
<1>6. ASSUME Events(Tail(s)) = {}, Head(s).kind # "event"
      PROVE  Events(s) = {}
  BY <1>1, <1>3, <1>6 DEF Events
<1>7. Events(Tail(s)) # {} => Events(s) # {}
  BY <1>1, <1>2
<1> QED
  BY <1>1, <1>4, <1>5, <1>6, <1>7 DEF LastEventIs
-----------------------------------------------------------------------------
(* The inductive invariant *)

\* Only a receiver that is subscribed is kept messages.
OnlySubscribers == \A r \in Receivers : ~Subscribed(r) => inbox[r] = <<>>

\* No reply in s is older than v.
NoneOlder(s, v) == \A k \in 1..Len(s) : s[k].kind = "reply" => s[k].version >= v

\* Nothing that could still answer a request is older than what was under way when it
\* subscribed: the present state, the replies in the pipe, those it was kept.
NotTooOld ==
  \A t \in Tasks : pc[t] # "idle" =>
    /\ oldest[t] <= driver
    /\ NoneOlder(replies, oldest[t])
    /\ NoneOlder(inbox[t], oldest[t])

\* Once the server task has forwarded a change, it is the last event on the way to the
\* watcher, or the watcher has it.
EventsArrive ==
  watcher = "following" /\ ~lagged /\ up /\ slot # base /\ ~unread =>
    /\ LastEventIs(replies, slot)
    /\ Events(replies) = {} =>
         /\ LastEventIs(inbox[Watcher], slot)
         /\ Events(inbox[Watcher]) = {} => watched = slot

LinkInv == TypeOK /\ OnlySubscribers /\ NotTooOld /\ EventsArrive

LEMMA LinkStarts == Init => LinkInv
<1> SUFFICES ASSUME Init PROVE LinkInv
  OBVIOUS
<1>1. TypeOK
  <2>1. replies \in Seq(Messages) /\ inbox \in [Receivers -> Seq(Messages \cup {Error})]
    BY DEF Init
  <2>2. \A r \in Receivers : Len(inbox[r]) <= Capacity
    BY LinkAssumption DEF Init
  <2>3. 0 \in Versions /\ 0 \in 0..MaxInFlight
    BY LinkAssumption DEF Versions
  <2> QED
    BY <2>1, <2>2, <2>3 DEF Init, TypeOK
<1>2. OnlySubscribers /\ NotTooOld /\ EventsArrive
  BY DEF Init, OnlySubscribers, NotTooOld, EventsArrive
<1> QED
  BY <1>1, <1>2 DEF LinkInv

\* What TypeOK says of one receiver.
LEMMA InboxType ==
  ASSUME TypeOK, NEW r \in Receivers
  PROVE  inbox[r] \in Inboxes /\ Len(inbox[r]) \in Nat /\ Len(inbox[r]) <= Capacity
BY DEF TypeOK, Inboxes

LEMMA PipeType ==
  ASSUME TypeOK
  PROVE  /\ replies \in Inboxes /\ replies \in Seq(Messages) /\ Len(replies) \in Nat
         /\ \A k \in 1..Len(replies) : replies[k] \in Messages
<1>1. replies \in Seq(Messages)
  BY DEF TypeOK
<1> QED
  BY <1>1, PipeIsInbox, LenProperties, ElementOfSeq

LEMMA Distinct == Watcher \in Receivers /\ \A t \in Tasks : t \in Receivers /\ t # Watcher
BY LinkAssumption DEF Receivers

\* A message is kept for every subscriber, and pushes the oldest out of a full inbox.
LEMMA Delivered ==
  ASSUME TypeOK, NEW m \in Messages \cup {Error}, Deliver(m)
  PROVE  /\ inbox' \in [Receivers -> Inboxes]
         /\ \A r \in Receivers :
              /\ Len(inbox'[r]) <= Capacity
              /\ ~Subscribed(r) => inbox'[r] = inbox[r]
              /\ Subscribed(r) /\ Len(inbox[r]) < Capacity => inbox'[r] = Append(inbox[r], m)
              /\ Subscribed(r) /\ Len(inbox[r]) = Capacity
                   => /\ Append(inbox[r], m) # <<>>
                      /\ inbox'[r] = Tail(Append(inbox[r], m))
         /\ lagged' = (lagged \/ Len(inbox[Watcher]) = Capacity)
<1>1. /\ inbox' = [r \in Receivers |->
                     IF Subscribed(r) THEN KeepNewest(Append(inbox[r], m)) ELSE inbox[r]]
      /\ lagged' = (lagged \/ Len(inbox[Watcher]) = Capacity)
  BY DEF Deliver
<1>2. ASSUME NEW r \in Receivers
      PROVE  /\ inbox'[r] \in Inboxes
             /\ Len(inbox'[r]) <= Capacity
             /\ ~Subscribed(r) => inbox'[r] = inbox[r]
             /\ Subscribed(r) /\ Len(inbox[r]) < Capacity => inbox'[r] = Append(inbox[r], m)
             /\ Subscribed(r) /\ Len(inbox[r]) = Capacity
                  => /\ Append(inbox[r], m) # <<>>
                     /\ inbox'[r] = Tail(Append(inbox[r], m))
  <2> DEFINE s == Append(inbox[r], m)
  <2>1. inbox[r] \in Inboxes /\ Len(inbox[r]) \in Nat /\ Len(inbox[r]) <= Capacity
    BY InboxType
  <2>2. s \in Inboxes /\ Len(s) = Len(inbox[r]) + 1
    BY <2>1, Appended
  <2>3. inbox'[r] = IF Subscribed(r) THEN KeepNewest(s) ELSE inbox[r]
    BY <1>1
  <2> HIDE DEF s
  <2>4. s # <<>>
    BY <2>1, <2>2, EmptySeq
  <2>5. Tail(s) \in Inboxes /\ Len(Tail(s)) = Len(s) - 1
    BY <2>2, <2>4, Shortened
  <2>6. CASE ~Subscribed(r)
    BY <2>1, <2>3, <2>6
  <2>7. CASE Subscribed(r) /\ Len(inbox[r]) < Capacity
    <3>1. inbox'[r] = s
      BY <2>1, <2>2, <2>3, <2>7, LinkAssumption DEF KeepNewest
    <3> QED
      BY <2>1, <2>2, <2>7, <3>1, LinkAssumption DEF s
  <2>8. CASE Subscribed(r) /\ Len(inbox[r]) = Capacity
    <3>1. inbox'[r] = Tail(s)
      BY <2>1, <2>2, <2>3, <2>8, LinkAssumption DEF KeepNewest
    <3> QED
      BY <2>1, <2>2, <2>4, <2>5, <2>8, <3>1, LinkAssumption DEF s
  <2> QED
    BY <2>1, <2>6, <2>7, <2>8, LinkAssumption
<1>3. inbox' \in [Receivers -> Inboxes]
  BY <1>1, <1>2
<1> QED
  BY <1>1, <1>2, <1>3
-----------------------------------------------------------------------------
(* Replies that are not too old *)

LEMMA OlderAppended ==
  ASSUME NEW s \in Inboxes, NEW m \in Messages \cup {Error}, NEW v,
         NoneOlder(s, v), m.kind = "reply" => m.version >= v
  PROVE  NoneOlder(Append(s, m), v)
<1>1. /\ Len(Append(s, m)) = Len(s) + 1
      /\ \A k \in 1..Len(s) : Append(s, m)[k] = s[k]
      /\ Append(s, m)[Len(s) + 1] = m
      /\ Len(s) \in Nat
  BY Appended DEF Inboxes
<1> QED
  BY <1>1 DEF NoneOlder

LEMMA OlderShortened ==
  ASSUME NEW s \in Inboxes, s # <<>>, NEW v, NoneOlder(s, v)
  PROVE  /\ NoneOlder(Tail(s), v)
         /\ Head(s).kind = "reply" => Head(s).version >= v
<1>1. /\ Head(s) = s[1]
      /\ Len(s) \in Nat \ {0}
      /\ Len(Tail(s)) = Len(s) - 1
      /\ \A k \in 1..Len(Tail(s)) : Tail(s)[k] = s[k + 1]
  BY Shortened
<1> QED
  BY <1>1 DEF NoneOlder

\* OldestAnswer bounds everything that can still be an answer.
LEMMA OldestBounds ==
  ASSUME TypeOK
  PROVE  /\ OldestAnswer \in Versions
         /\ OldestAnswer <= driver
         /\ NoneOlder(replies, OldestAnswer)
<1> DEFINE R == {n \in Range(replies) : n.kind = "reply"}
           T == {driver} \cup {m.version : m \in R}
<1>1. /\ DOMAIN replies = 1..Len(replies)
      /\ \A k \in 1..Len(replies) : replies[k] \in Messages
  BY PipeType, LenProperties
<1>2. R = {n \in {replies[k] : k \in 1..Len(replies)} : n.kind = "reply"}
  BY <1>1 DEF Range
<1>3. \A m \in R : m.version \in Versions
  BY <1>1, <1>2, MessageParts
<1>4. T \subseteq Versions /\ driver \in T
  BY <1>3 DEF TypeOK
<1>5. \E n \in T : \A m \in T : n <= m
  <2> HIDE DEF T
  <2>1. T \in SUBSET Nat /\ T # {}
    BY <1>4 DEF Versions
  <2> QED
    BY <2>1, LeastElement
<1>6. OldestAnswer = Min(T)
  BY DEF OldestAnswer
<1>7. OldestAnswer \in T /\ \A m \in T : OldestAnswer <= m
  <2> HIDE DEF T
  <2> QED
    BY <1>5, <1>6 DEF Min
<1>8. ASSUME NEW k \in 1..Len(replies), replies[k].kind = "reply"
      PROVE  replies[k].version \in T
  BY <1>2, <1>8
<1>9. ASSUME NEW k \in 1..Len(replies), replies[k].kind = "reply"
      PROVE  replies[k].version >= OldestAnswer
  BY <1>4, <1>7, <1>8, <1>9 DEF Versions
<1> QED
  BY <1>4, <1>7, <1>9 DEF NoneOlder
-----------------------------------------------------------------------------
(* The types *)

\* The receivers of the client's channel, once a message was delivered.
LEMMA DeliverTypes ==
  ASSUME LinkInv, NEW m \in Messages \cup {Error}, Deliver(m), UNCHANGED <<pc, watcher>>
  PROVE  /\ inbox' \in [Receivers -> Inboxes]
         /\ \A r \in Receivers : Len(inbox'[r]) <= Capacity
         /\ lagged' \in BOOLEAN
         /\ OnlySubscribers'
<1>1. /\ inbox' \in [Receivers -> Inboxes]
      /\ \A r \in Receivers : Len(inbox'[r]) <= Capacity /\ (~Subscribed(r) => inbox'[r] = inbox[r])
      /\ lagged' = (lagged \/ Len(inbox[Watcher]) = Capacity)
  BY Delivered DEF LinkInv
<1>2. lagged' \in BOOLEAN
  BY <1>1 DEF LinkInv, TypeOK
<1>3. \A r \in Receivers : Subscribed(r)' <=> Subscribed(r)
  BY DEF Subscribed
<1> QED
  BY <1>1, <1>2, <1>3 DEF LinkInv, OnlySubscribers

\* One receiver takes what it was kept, or drops it.
LEMMA TakeTypes ==
  ASSUME LinkInv, NEW r \in Receivers, NEW s \in Inboxes, Len(s) <= Capacity,
         inbox' = [inbox EXCEPT ![r] = s]
  PROVE  /\ inbox' \in [Receivers -> Inboxes]
         /\ \A q \in Receivers : Len(inbox'[q]) <= Capacity
         /\ inbox'[r] = s /\ \A q \in Receivers \ {r} : inbox'[q] = inbox[q]
BY DEF LinkInv, TypeOK, Inboxes

LEMMA TailFits ==
  ASSUME LinkInv, NEW r \in Receivers, inbox[r] # <<>>
  PROVE  Tail(inbox[r]) \in Inboxes /\ Len(Tail(inbox[r])) <= Capacity
<1>1. inbox[r] \in Inboxes /\ Len(inbox[r]) \in Nat /\ Len(inbox[r]) <= Capacity
  BY InboxType DEF LinkInv
<1> QED
  BY <1>1, Shortened, LinkAssumption

LEMMA NothingFits == <<>> \in Inboxes /\ Len(<<>>) <= Capacity
BY EmptySeq, LinkAssumption DEF Inboxes

\* request_state returns: the task has neither a receiver nor messages.
LEMMA ReturnTypes ==
  ASSUME LinkInv, NEW t \in Tasks, Return(t), UNCHANGED <<watcher, watched>> \/ watcher = "none"
  PROVE  /\ inbox' \in [Receivers -> Inboxes]
         /\ \A r \in Receivers : Len(inbox'[r]) <= Capacity
         /\ pc' \in [Tasks -> {"idle", "subscribed", "waiting"}]
         /\ oldest' \in [Tasks -> Versions]
         /\ watcher' # "following" => inbox'[Watcher] = <<>>
         /\ \A q \in Tasks : pc'[q] = "idle" => inbox'[q] = <<>>
<1>1. t \in Receivers /\ t # Watcher /\ Watcher \in Receivers /\ Tasks \subseteq Receivers
  BY Distinct
<1>2. /\ inbox' \in [Receivers -> Inboxes]
      /\ \A q \in Receivers : Len(inbox'[q]) <= Capacity
      /\ inbox'[t] = <<>> /\ \A q \in Receivers \ {t} : inbox'[q] = inbox[q]
  BY <1>1, NothingFits, TakeTypes DEF Return
<1>3. 0 \in Versions
  BY LinkAssumption DEF Versions
<1>4. pc' \in [Tasks -> {"idle", "subscribed", "waiting"}] /\ oldest' \in [Tasks -> Versions]
  BY <1>3 DEF Return, LinkInv, TypeOK
<1>5. watcher # "following" => inbox[Watcher] = <<>>
  BY <1>1 DEF LinkInv, OnlySubscribers, Subscribed
<1>6. \A q \in Tasks : pc[q] = "idle" => inbox[q] = <<>>
  BY Distinct DEF LinkInv, OnlySubscribers, Subscribed
<1>7. watcher' # "following" => inbox'[Watcher] = <<>>
  BY <1>1, <1>2, <1>5
<1>8. \A q \in Tasks : pc'[q] = "idle" => inbox'[q] = <<>>
  BY <1>1, <1>2, <1>6 DEF Return, LinkInv, TypeOK
<1> QED
  BY <1>2, <1>4, <1>7, <1>8

LEMMA TypeStep ==
  ASSUME LinkInv, [Next]_vars
  PROVE  TypeOK' /\ OnlySubscribers'
<1> USE DEF driverVars, taskVars, watchVars, channelVars
<1>a. TypeOK /\ OnlySubscribers
  BY DEF LinkInv
<1>b. \A r \in Receivers : UNCHANGED <<pc, watcher>> => (Subscribed(r)' <=> Subscribed(r))
  BY DEF Subscribed
<1>1. CASE Change \/ Announce
  <2>1. driver' \in Versions /\ slot' \in Versions /\ unread' \in BOOLEAN
    <3>1. CASE Change
      BY <1>a, <3>1, LinkAssumption DEF Change, TypeOK, Versions
    <3>2. CASE Announce
      BY <1>a, <3>2 DEF Announce, TypeOK
    <3> QED
      BY <1>1, <3>1, <3>2
  <2>2. UNCHANGED <<up, requests, replies, reader, inbox, lagged, pc, oldest, watcher, watched, base>>
    BY <1>1 DEF Change, Announce
  <2> QED
    BY <1>a, <2>1, <2>2 DEF TypeOK, OnlySubscribers, Subscribed
<1>2. CASE ServerAnswers
  <2>1. replies' \in Seq(Messages)
    BY <1>a, <1>2, MessagesAreMessages DEF ServerAnswers, TypeOK
  <2>2. requests' \in 0..MaxInFlight
    BY <1>a, <1>2, LinkAssumption DEF ServerAnswers, TypeOK
  <2> QED
    BY <1>a, <1>2, <2>1, <2>2 DEF ServerAnswers, TypeOK, OnlySubscribers, Subscribed
<1>3. CASE ServerForwards
  <2>1. replies' \in Seq(Messages)
    BY <1>a, <1>3, MessagesAreMessages DEF ServerForwards, TypeOK
  <2> QED
    BY <1>a, <1>3, <2>1 DEF ServerForwards, TypeOK, OnlySubscribers, Subscribed
<1>4. CASE Break
  <2>1. replies' \in Seq(Messages)
    <3>1. PICK n \in 0..Len(replies) : replies' = SubSeq(replies, 1, n)
      BY <1>4 DEF Break
    <3>2. \A k \in 1..n : replies[k] \in Messages
      BY <1>a, PipeType
    <3>3. n \in Int
      OBVIOUS
    <3> QED
      BY <3>1, <3>2, <3>3, SubSeqProperties
  <2>2. 0 \in 0..MaxInFlight
    BY LinkAssumption
  <2> QED
    BY <1>a, <1>4, <2>1, <2>2 DEF Break, TypeOK, OnlySubscribers, Subscribed
<1>5. CASE ReaderDelivers
  <2>1. Head(replies) \in Messages /\ Tail(replies) \in Seq(Messages)
    BY <1>a, <1>5, PipeType, HeadTailProperties DEF ReaderDelivers
  <2>2. /\ inbox' \in [Receivers -> Inboxes]
        /\ \A r \in Receivers : Len(inbox'[r]) <= Capacity
        /\ lagged' \in BOOLEAN
        /\ OnlySubscribers'
    BY <1>5, <2>1, DeliverTypes DEF ReaderDelivers
  <2> QED
    BY <1>a, <1>5, <2>1, <2>2 DEF ReaderDelivers, TypeOK, Inboxes
<1>6. CASE ReaderFails
  <2>1. /\ inbox' \in [Receivers -> Inboxes]
        /\ \A r \in Receivers : Len(inbox'[r]) <= Capacity
        /\ lagged' \in BOOLEAN
        /\ OnlySubscribers'
    BY <1>6, DeliverTypes DEF ReaderFails
  <2> QED
    BY <1>a, <1>6, <2>1 DEF ReaderFails, TypeOK, Inboxes
<1>7. CASE WatcherSubscribes \/ WatcherEnds
  BY <1>a, <1>7 DEF WatcherSubscribes, WatcherEnds, TypeOK, OnlySubscribers, Subscribed
<1>8. CASE WatcherTakes
  <2>1. /\ Tail(inbox[Watcher]) \in Inboxes /\ Len(Tail(inbox[Watcher])) <= Capacity
        /\ inbox' = [inbox EXCEPT ![Watcher] = Tail(inbox[Watcher])]
    BY <1>8, Distinct, TailFits DEF WatcherTakes
  <2>2. /\ inbox' \in [Receivers -> Inboxes]
        /\ \A q \in Receivers : Len(inbox'[q]) <= Capacity
        /\ \A q \in Receivers \ {Watcher} : inbox'[q] = inbox[q]
    BY <2>1, Distinct, TakeTypes
  <2>3. Head(inbox[Watcher]) \in Messages \cup {Error}
    BY <1>a, <1>8, Distinct, InboxType, Shortened DEF WatcherTakes
  <2>4. watched' \in Versions
    BY <1>a, <1>8, <2>3, MessageParts DEF WatcherTakes, TypeOK
  <2>5. OnlySubscribers'
    BY <1>a, <1>8, <2>2 DEF WatcherTakes, OnlySubscribers, Subscribed
  <2> QED
    BY <1>a, <1>8, <2>2, <2>4, <2>5 DEF WatcherTakes, TypeOK, Inboxes
<1>9. ASSUME NEW t \in Tasks, Subscribe(t) \/ Send(t)
      PROVE  TypeOK' /\ OnlySubscribers'
  <2>1. /\ pc' \in [Tasks -> {"idle", "subscribed", "waiting"}]
        /\ \A q \in Tasks : pc[q] # "idle" => pc'[q] # "idle"
    BY <1>a, <1>9 DEF Subscribe, Send, TypeOK
  <2>2. oldest' \in [Tasks -> Versions]
    BY <1>a, <1>9, OldestBounds DEF Subscribe, Send, TypeOK
  <2>3. requests' \in 0..MaxInFlight
    BY <1>a, <1>9, LinkAssumption DEF Subscribe, Send, TypeOK
  <2>4. UNCHANGED <<driver, slot, unread, up, replies, reader, inbox, lagged, watcher, watched, base>>
    BY <1>9 DEF Subscribe, Send
  <2>5. OnlySubscribers'
    BY <1>a, <2>1, <2>4 DEF OnlySubscribers, Subscribed, Receivers
  <2> QED
    BY <1>a, <2>1, <2>2, <2>3, <2>4, <2>5 DEF TypeOK
<1>10. ASSUME NEW t \in Tasks, TakeReply(t)
       PROVE  TypeOK' /\ OnlySubscribers'
  <2>1. Return(t) /\ (UNCHANGED <<watcher, watched>> \/ watcher = "none")
    BY <1>10 DEF TakeReply
  <2>2. Head(inbox[t]) \in Messages \cup {Error} /\ Head(inbox[t]).kind = "reply"
    BY <1>a, <1>10, Distinct, InboxType, Shortened DEF TakeReply
  <2>3. watcher' \in {"none", "gap", "following", "ended"} /\ watched' \in Versions
    BY <1>a, <1>10, <2>2, MessageParts DEF TakeReply, TypeOK
  <2>4. UNCHANGED <<driver, slot, unread, up, requests, replies, reader, lagged, base>>
    BY <1>10 DEF TakeReply
  <2> QED
    BY <1>a, <2>1, <2>3, <2>4, ReturnTypes DEF TypeOK, Inboxes, OnlySubscribers, Subscribed, Receivers
<1>11. ASSUME NEW t \in Tasks, SendFails(t) \/ TakeError(t) \/ Closed(t) \/ TimesOut(t)
       PROVE  TypeOK' /\ OnlySubscribers'
  <2>1. /\ Return(t)
        /\ UNCHANGED <<driver, slot, unread, up, lagged, requests, replies, reader, watcher, watched,
                       base>>
    BY <1>11 DEF SendFails, TakeError, Closed, TimesOut
  <2> QED
    BY <1>a, <2>1, ReturnTypes DEF TypeOK, Inboxes, OnlySubscribers, Subscribed, Receivers
<1>12. ASSUME NEW t \in Tasks, TakeEvent(t)
       PROVE  TypeOK' /\ OnlySubscribers'
  <2>1. /\ Tail(inbox[t]) \in Inboxes /\ Len(Tail(inbox[t])) <= Capacity
        /\ inbox' = [inbox EXCEPT ![t] = Tail(inbox[t])]
    BY <1>12, Distinct, TailFits DEF TakeEvent
  <2>2. /\ inbox' \in [Receivers -> Inboxes]
        /\ \A q \in Receivers : Len(inbox'[q]) <= Capacity
        /\ \A q \in Receivers \ {t} : inbox'[q] = inbox[q]
    BY <2>1, Distinct, TakeTypes
  <2>3. OnlySubscribers'
    BY <1>a, <1>12, <2>2, Distinct DEF TakeEvent, OnlySubscribers, Subscribed
  <2> QED
    BY <1>a, <1>12, <2>2, <2>3 DEF TakeEvent, TypeOK, Inboxes
<1>13. CASE UNCHANGED vars
  BY <1>a, <1>13 DEF vars, TypeOK, OnlySubscribers, Subscribed
<1> QED
  BY <1>1, <1>2, <1>3, <1>4, <1>5, <1>6, <1>7, <1>8, <1>9, <1>10, <1>11, <1>12, <1>13
     DEF Next, Driver, Reader, Watch, Wait
-----------------------------------------------------------------------------
(* Answers *)

\* A message that is delivered is not older than what its receivers asked for.
LEMMA DeliverNotTooOld ==
  ASSUME LinkInv, NEW m \in Messages \cup {Error}, Deliver(m), NEW t \in Tasks, pc[t] # "idle",
         m.kind = "reply" => m.version >= oldest[t]
  PROVE  NoneOlder(inbox'[t], oldest[t])
<1>1. t \in Receivers /\ Subscribed(t)
  BY Distinct DEF Subscribed
<1>2. inbox[t] \in Inboxes /\ Len(inbox[t]) <= Capacity /\ Len(inbox[t]) \in Nat
  BY <1>1, InboxType DEF LinkInv
<1>3. NoneOlder(Append(inbox[t], m), oldest[t])
  BY <1>2, OlderAppended DEF LinkInv, NotTooOld
<1>4. Append(inbox[t], m) \in Inboxes
  BY <1>2, Appended
<1>5. CASE Len(inbox[t]) < Capacity
  BY <1>1, <1>3, <1>5, Delivered DEF LinkInv
<1>6. CASE Len(inbox[t]) = Capacity
  <2>1. inbox'[t] = Tail(Append(inbox[t], m)) /\ Append(inbox[t], m) # <<>>
    BY <1>1, <1>6, Delivered DEF LinkInv
  <2> QED
    BY <1>3, <1>4, <2>1, OlderShortened
<1> QED
  BY <1>2, <1>5, <1>6, LinkAssumption

\* The tasks that go on waiting, when nothing but another task's call moves.
LEMMA OthersNotTooOld ==
  ASSUME LinkInv, UNCHANGED <<driver, replies>>,
         \A t \in Tasks : pc'[t] # "idle" => /\ pc[t] # "idle"
                                             /\ UNCHANGED <<inbox[t], oldest[t]>>
  PROVE  NotTooOld'
BY DEF LinkInv, NotTooOld

LEMMA AnswerStep ==
  ASSUME LinkInv, [Next]_vars
  PROVE  NotTooOld'
<1> USE DEF driverVars, taskVars, watchVars, channelVars
<1>a. TypeOK /\ NotTooOld
  BY DEF LinkInv
<1>b. replies \in Inboxes /\ \A k \in 1..Len(replies) : replies[k] \in Messages
  BY <1>a, PipeType
<1>c. \A t \in Tasks : inbox[t] \in Inboxes
  BY <1>a, Distinct, InboxType
<1>d. driver \in Nat /\ \A t \in Tasks : oldest[t] \in Nat
  BY <1>a DEF TypeOK, Versions
<1>1. CASE Change
  BY <1>a, <1>d, <1>1 DEF Change, NotTooOld
<1>2. CASE ServerAnswers
  <2>1. ASSUME NEW t \in Tasks, pc[t] # "idle"
        PROVE  NoneOlder(replies', oldest[t])
    <3>1. replies' = Append(replies, Reply(driver)) /\ driver \in Versions
      BY <1>a, <1>2 DEF ServerAnswers, TypeOK
    <3>2. Reply(driver) \in Messages /\ Reply(driver).version = driver
      BY <3>1, MessagesAreMessages
    <3> QED
      BY <1>a, <1>b, <1>d, <2>1, <3>1, <3>2, OlderAppended DEF NotTooOld
  <2> QED
    BY <1>a, <1>2, <2>1 DEF ServerAnswers, NotTooOld
<1>3. CASE ServerForwards
  <2>1. ASSUME NEW t \in Tasks, pc[t] # "idle"
        PROVE  NoneOlder(replies', oldest[t])
    <3>1. replies' = Append(replies, Event(slot)) /\ slot \in Versions
      BY <1>a, <1>3 DEF ServerForwards, TypeOK
    <3>2. Event(slot) \in Messages /\ Event(slot).kind = "event"
      BY <3>1, MessagesAreMessages
    <3> QED
      BY <1>a, <1>b, <2>1, <3>1, <3>2, OlderAppended DEF NotTooOld
  <2> QED
    BY <1>a, <1>3, <2>1 DEF ServerForwards, NotTooOld
<1>4. CASE Break
  <2>1. PICK n \in 0..Len(replies) : replies' = SubSeq(replies, 1, n)
    BY <1>4 DEF Break
  <2>2. \A k \in 1..n : replies[k] \in Messages
    BY <1>a, <1>b, PipeType
  <2>3. n \in Int
    OBVIOUS
  <2>4. Len(replies') = n /\ \A k \in 1..n : replies'[k] = replies[k]
    BY <2>1, <2>2, <2>3, SubSeqProperties
  <2>5. ASSUME NEW t \in Tasks, pc[t] # "idle"
        PROVE  NoneOlder(replies', oldest[t])
    <3>1. NoneOlder(replies, oldest[t])
      BY <1>a, <2>5 DEF NotTooOld
    <3> QED
      BY <1>a, <2>4, <3>1, PipeType DEF NoneOlder
  <2> QED
    BY <1>a, <1>4, <2>5 DEF Break, NotTooOld
<1>5. CASE ReaderDelivers
  <2>1. /\ replies # <<>> /\ Deliver(Head(replies)) /\ replies' = Tail(replies)
        /\ UNCHANGED <<driver, pc, oldest>>
    BY <1>5 DEF ReaderDelivers
  <2>2. Head(replies) \in Messages \cup {Error}
    BY <1>b, <2>1, Shortened
  <2>3. ASSUME NEW t \in Tasks, pc[t] # "idle"
        PROVE  NoneOlder(replies', oldest[t]) /\ NoneOlder(inbox'[t], oldest[t])
    <3>1. /\ NoneOlder(Tail(replies), oldest[t])
          /\ Head(replies).kind = "reply" => Head(replies).version >= oldest[t]
      BY <1>a, <1>b, <2>1, <2>3, OlderShortened DEF NotTooOld
    <3> QED
      BY <2>1, <2>2, <2>3, <3>1, DeliverNotTooOld
  <2> QED
    BY <1>a, <2>1, <2>3 DEF NotTooOld
<1>6. CASE ReaderFails
  <2>1. Deliver(Error) /\ UNCHANGED <<driver, replies, pc, oldest>> /\ Error.kind # "reply"
    BY <1>6 DEF ReaderFails, Error
  <2>2. \A t \in Tasks : pc[t] # "idle" => NoneOlder(inbox'[t], oldest[t])
    BY <2>1, DeliverNotTooOld
  <2> QED
    BY <1>a, <2>1, <2>2 DEF NotTooOld
<1>7. ASSUME UNCHANGED <<driver, replies, inbox, pc, oldest>>
      PROVE  NotTooOld'
  BY <1>a, <1>7 DEF NotTooOld
<1>8. CASE WatcherTakes
  <2>1. \A t \in Tasks : UNCHANGED <<inbox[t], oldest[t], pc[t]>>
    BY <1>a, <1>8, Distinct DEF WatcherTakes, TypeOK
  <2> QED
    BY <1>8, <2>1, OthersNotTooOld DEF WatcherTakes
<1>9. ASSUME NEW t \in Tasks, Subscribe(t)
      PROVE  NotTooOld'
  <2>1. /\ oldest'[t] = OldestAnswer
        /\ \A q \in Tasks \ {t} : oldest'[q] = oldest[q] /\ pc'[q] = pc[q]
        /\ UNCHANGED <<driver, replies, inbox>>
    BY <1>a, <1>9 DEF Subscribe, TypeOK
  <2>2. inbox[t] = <<>>
    BY <1>9, Distinct DEF Subscribe, LinkInv, OnlySubscribers, Subscribed
  <2>3. NoneOlder(inbox[t], OldestAnswer)
    BY <2>2 DEF NoneOlder
  <2> QED
    BY <1>a, <2>1, <2>3, OldestBounds DEF NotTooOld
<1>10. ASSUME NEW t \in Tasks, Send(t)
       PROVE  NotTooOld'
  BY <1>a, <1>10, OthersNotTooOld DEF Send, TypeOK
<1>11. ASSUME NEW t \in Tasks, Return(t), UNCHANGED <<driver, replies>>
       PROVE  NotTooOld'
  <2>1. \A q \in Tasks : pc'[q] # "idle" => pc[q] # "idle" /\ UNCHANGED <<inbox[q], oldest[q]>>
    BY <1>a, <1>11, Distinct DEF Return, TypeOK
  <2> QED
    BY <1>11, <2>1, OthersNotTooOld
<1>12. ASSUME NEW t \in Tasks,
              TakeReply(t) \/ SendFails(t) \/ TakeError(t) \/ Closed(t) \/ TimesOut(t)
       PROVE  Return(t) /\ UNCHANGED <<driver, replies>>
  BY <1>12 DEF TakeReply, SendFails, TakeError, Closed, TimesOut
<1>13. ASSUME NEW t \in Tasks, TakeEvent(t)
       PROVE  NotTooOld'
  <2>1. /\ inbox' = [inbox EXCEPT ![t] = Tail(inbox[t])] /\ inbox[t] # <<>>
        /\ UNCHANGED <<driver, replies, pc, oldest>>
    BY <1>13 DEF TakeEvent
  <2>2. inbox'[t] = Tail(inbox[t]) /\ \A q \in Tasks \ {t} : inbox'[q] = inbox[q]
    BY <1>a, <2>1, Distinct DEF TypeOK
  <2>3. NoneOlder(inbox[t], oldest[t]) => NoneOlder(inbox'[t], oldest[t])
    BY <1>c, <2>1, <2>2, OlderShortened
  <2> QED
    BY <1>a, <2>1, <2>2, <2>3 DEF NotTooOld
<1>14. ASSUME Announce \/ WatcherSubscribes \/ WatcherEnds \/ UNCHANGED vars
       PROVE  UNCHANGED <<driver, replies, inbox, pc, oldest>>
  BY <1>14 DEF Announce, WatcherSubscribes, WatcherEnds, vars
<1> QED
  BY <1>1, <1>2, <1>3, <1>4, <1>5, <1>6, <1>7, <1>8, <1>9, <1>10, <1>11, <1>12, <1>13, <1>14
     DEF Next, Driver, Reader, Watch, Wait
-----------------------------------------------------------------------------
(* Events *)

\* The last event moves from the pipe to the watcher's inbox, unless the inbox is full.
LEMMA DeliverEvents ==
  ASSUME LinkInv, replies # <<>>, Deliver(Head(replies)), replies' = Tail(replies),
         watcher = "following", ~lagged', NEW v, LastEventIs(replies, v),
         Events(replies) = {} => LastEventIs(inbox[Watcher], v)
  PROVE  /\ ~lagged
         /\ LastEventIs(replies', v)
         /\ Events(replies') = {} =>
              /\ LastEventIs(inbox'[Watcher], v)
              /\ Events(inbox'[Watcher]) = {} => Events(replies) = {} /\ Events(inbox[Watcher]) = {}
<1> DEFINE m == Head(replies)
<1>1. replies \in Inboxes /\ inbox[Watcher] \in Inboxes /\ Subscribed(Watcher)
  BY PipeType, Distinct, InboxType DEF LinkInv, Subscribed
<1>2. m \in Messages \cup {Error}
  BY <1>1, Shortened
<1>3. ~lagged /\ Len(inbox[Watcher]) # Capacity
  BY <1>2, Delivered DEF LinkInv
<1>4. inbox'[Watcher] = Append(inbox[Watcher], m)
  <2>1. Len(inbox[Watcher]) < Capacity
    BY <1>3, Distinct, InboxType, LinkAssumption DEF LinkInv
  <2> QED
    BY <1>1, <1>2, <2>1, Distinct, Delivered DEF LinkInv
<1>5. /\ LastEventIs(replies', v)
      /\ Events(replies') = {} =>
           /\ m.kind # "event" => Events(replies) = {}
           /\ m.kind = "event" => m.version = v
  BY <1>1, LastShortened
<1>6. /\ m.kind # "event" => /\ Events(inbox'[Watcher]) = Events(inbox[Watcher])
                             /\ LastEventIs(inbox[Watcher], v) => LastEventIs(inbox'[Watcher], v)
      /\ m.kind = "event" => Events(inbox'[Watcher]) # {} /\ LastEventIs(inbox'[Watcher], m.version)
  BY <1>1, <1>2, <1>4, LastAppended
<1> HIDE DEF m
<1> QED
  BY <1>3, <1>5, <1>6

\* The watcher takes the message that is first in its inbox.
LEMMA TakeEvents ==
  ASSUME LinkInv, inbox[Watcher] # <<>>, inbox' = [inbox EXCEPT ![Watcher] = Tail(inbox[Watcher])],
         watched' = LET m == Head(inbox[Watcher]) IN IF m.kind = "event" THEN m.version ELSE watched,
         NEW v, LastEventIs(inbox[Watcher], v), Events(inbox[Watcher]) = {} => watched = v
  PROVE  /\ LastEventIs(inbox'[Watcher], v)
         /\ Events(inbox'[Watcher]) = {} => watched' = v
<1>1. inbox[Watcher] \in Inboxes /\ inbox'[Watcher] = Tail(inbox[Watcher])
  BY Distinct, InboxType DEF LinkInv, TypeOK
<1>2. /\ LastEventIs(inbox'[Watcher], v)
      /\ Events(inbox'[Watcher]) = {} =>
           /\ Head(inbox[Watcher]).kind # "event" => Events(inbox[Watcher]) = {}
           /\ Head(inbox[Watcher]).kind = "event" => Head(inbox[Watcher]).version = v
  BY <1>1, LastShortened
<1> QED
  BY <1>2

LEMMA EventStep ==
  ASSUME LinkInv, [Next]_vars
  PROVE  EventsArrive'
<1> USE DEF driverVars, taskVars, watchVars, channelVars
<1>a. TypeOK /\ EventsArrive
  BY DEF LinkInv
<1>b. replies \in Inboxes /\ inbox[Watcher] \in Inboxes
  BY <1>a, PipeType, Distinct, InboxType
<1>1. CASE Announce
  BY <1>1 DEF Announce, EventsArrive
<1>2. CASE ServerAnswers
  <2>1. replies' = Append(replies, Reply(driver)) /\ driver \in Versions
    BY <1>a, <1>2 DEF ServerAnswers, TypeOK
  <2>2. Reply(driver) \in Messages /\ Reply(driver).kind # "event"
    BY <2>1, MessagesAreMessages
  <2>3. /\ Events(replies') = Events(replies)
        /\ \A v : LastEventIs(replies, v) => LastEventIs(replies', v)
    BY <1>b, <2>1, <2>2, LastAppended
  <2> QED
    BY <1>a, <1>2, <2>3 DEF ServerAnswers, EventsArrive
<1>3. CASE ServerForwards
  <2>1. replies' = Append(replies, Event(slot)) /\ slot \in Versions
    BY <1>a, <1>3 DEF ServerForwards, TypeOK
  <2>2. Event(slot) \in Messages /\ Event(slot).kind = "event" /\ Event(slot).version = slot
    BY <2>1, MessagesAreMessages
  <2>3. Events(replies') # {} /\ LastEventIs(replies', slot)
    BY <1>b, <2>1, <2>2, LastAppended
  <2> QED
    BY <1>3, <2>3 DEF ServerForwards, EventsArrive
<1>4. CASE Break
  BY <1>4 DEF Break, EventsArrive
<1>5. CASE ReaderDelivers
  <2> SUFFICES ASSUME watcher = "following", ~lagged', up, slot # base, ~unread
               PROVE  /\ LastEventIs(replies', slot)
                      /\ Events(replies') = {} =>
                           /\ LastEventIs(inbox'[Watcher], slot)
                           /\ Events(inbox'[Watcher]) = {} => watched = slot
    BY <1>5 DEF ReaderDelivers, EventsArrive
  <2>1. replies # <<>> /\ Deliver(Head(replies)) /\ replies' = Tail(replies)
    BY <1>5 DEF ReaderDelivers
  <2>2. ~lagged
    <3>1. Head(replies) \in Messages \cup {Error}
      BY <1>b, <2>1, Shortened
    <3> QED
      BY <1>a, <2>1, <3>1, Delivered
  <2>3. /\ LastEventIs(replies, slot)
        /\ Events(replies) = {} =>
             /\ LastEventIs(inbox[Watcher], slot)
             /\ Events(inbox[Watcher]) = {} => watched = slot
    BY <1>a, <2>2 DEF EventsArrive
  <2> QED
    BY <2>1, <2>3, DeliverEvents
<1>6. CASE ReaderFails
  BY <1>6 DEF ReaderFails, EventsArrive
<1>7. CASE WatcherSubscribes \/ WatcherEnds
  BY <1>7 DEF WatcherSubscribes, WatcherEnds, EventsArrive
<1>8. CASE WatcherTakes
  <2> SUFFICES ASSUME watcher = "following", ~lagged, up, slot # base, ~unread
               PROVE  /\ LastEventIs(replies, slot)
                      /\ Events(replies) = {} =>
                           /\ LastEventIs(inbox'[Watcher], slot)
                           /\ Events(inbox'[Watcher]) = {} => watched' = slot
    BY <1>8 DEF WatcherTakes, EventsArrive
  <2> QED
    BY <1>a, <1>8, TakeEvents DEF WatcherTakes, EventsArrive
<1>9. ASSUME UNCHANGED <<slot, unread, up, replies, inbox[Watcher], watcher, watched, base, lagged>>
      PROVE  EventsArrive'
  BY <1>a, <1>9 DEF EventsArrive
<1>10. CASE Change \/ UNCHANGED vars
  BY <1>9, <1>10 DEF Change, vars
<1>11. ASSUME NEW t \in Tasks, Subscribe(t) \/ Send(t)
       PROVE  EventsArrive'
  BY <1>9, <1>11 DEF Subscribe, Send
<1>12. ASSUME NEW t \in Tasks,
              SendFails(t) \/ TakeError(t) \/ Closed(t) \/ TimesOut(t) \/ TakeEvent(t)
       PROVE  EventsArrive'
  <2>1. inbox'[Watcher] = inbox[Watcher]
    BY <1>a, <1>12, Distinct DEF SendFails, TakeError, Closed, TimesOut, TakeEvent, Return, TypeOK
  <2>2. UNCHANGED <<slot, unread, up, replies, watcher, watched, base, lagged>>
    BY <1>12 DEF SendFails, TakeError, Closed, TimesOut, TakeEvent
  <2> QED
    BY <1>9, <2>1, <2>2
<1>13. ASSUME NEW t \in Tasks, TakeReply(t)
       PROVE  EventsArrive'
  <2>1. CASE watcher = "none"
    BY <1>13, <2>1 DEF TakeReply, EventsArrive
  <2>2. CASE watcher # "none"
    <3>1. inbox'[Watcher] = inbox[Watcher]
      BY <1>a, <1>13, Distinct DEF TakeReply, Return, TypeOK
    <3>2. UNCHANGED <<slot, unread, up, replies, watcher, watched, base, lagged>>
      BY <1>13, <2>2 DEF TakeReply
    <3> QED
      BY <1>9, <3>1, <3>2
  <2> QED
    BY <2>1, <2>2
<1> QED
  BY <1>1, <1>2, <1>3, <1>4, <1>5, <1>6, <1>7, <1>8, <1>10, <1>11, <1>12, <1>13
     DEF Next, Driver, Reader, Watch, Wait
-----------------------------------------------------------------------------
(* The theorems *)

\* The invariant from which the theorems below follow.
THEOREM LinkInvariant == Spec => []LinkInv
<1>1. LinkInv /\ [Next]_vars => LinkInv'
  BY TypeStep, AnswerStep, EventStep DEF LinkInv
<1> QED
  BY <1>1, LinkStarts, PTL DEF Spec

\* Every variable keeps its type: among others, no receiver is kept more messages than the
\* channel's capacity.
THEOREM LinkTypes == Spec => []TypeOK
<1>1. LinkInv => TypeOK
  BY DEF LinkInv
<1> QED
  BY <1>1, LinkInvariant, PTL

\* However many tasks ask at the same time, time out and ask again, and wherever the pipe breaks,
\* no reply that a request can take is older than the oldest under way when it subscribed.
THEOREM AnswerNeverTooOld == Spec => []AnswerNotTooOld
<1>1. LinkInv => AnswerNotTooOld
  <2> SUFFICES ASSUME LinkInv, NEW t \in Tasks, NEW m \in Range(inbox[t]), m.kind = "reply"
               PROVE  m.version >= oldest[t]
    BY DEF AnswerNotTooOld
  <2>1. inbox[t] \in Inboxes /\ DOMAIN inbox[t] = 1..Len(inbox[t]) /\ Len(inbox[t]) \in Nat
    BY Distinct, InboxType, LenProperties DEF LinkInv, Inboxes
  <2>2. PICK k \in 1..Len(inbox[t]) : m = inbox[t][k]
    BY <2>1 DEF Range
  <2>3. pc[t] # "idle"
    <3>1. inbox[t] # <<>>
      BY <2>1, <2>2
    <3> QED
      BY <3>1, Distinct DEF LinkInv, OnlySubscribers, Subscribed
  <2> QED
    BY <2>2, <2>3 DEF LinkInv, NotTooOld, NoneOlder
<1> QED
  BY <1>1, LinkInvariant, PTL

\* Whatever the tasks ask in between, the newest change that was announced since the watcher
\* subscribed is what it ends up with, unless its inbox overflowed.
THEOREM WatcherAlwaysKeepsUp == Spec => []WatcherKeepsUp
<1>1. LinkInv => WatcherKeepsUp
  <2>1. Events(<<>>) = {}
    BY DEF Events
  <2> QED
    BY <2>1 DEF LinkInv, EventsArrive, WatcherKeepsUp, Quiet
<1> QED
  BY <1>1, LinkInvariant, PTL
=============================================================================
