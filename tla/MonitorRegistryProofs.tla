----------------------- MODULE MonitorRegistryProofs -----------------------
(***************************************************************************)
(* Theorems about MonitorRegistry, ModeReport and MonitorDescription for   *)
(* any number of clients, ids, modes and handles.                          *)
(***************************************************************************)
EXTENDS ModeReport, MonitorDescription, TLAPS

(* Lemmas about the operators of the table *)

LEMMA ViewData ==
  ASSUME NEW view \in Views, NEW i \in DOMAIN view
  PROVE  i \in Ids /\ view[i] \in Data
BY DEF Views

LEMMA NoViewIsView == NoView \in Views
<1>1. DOMAIN NoView = {}
  BY DEF NoView
<1>2. NoView \in [{} -> Data]
  BY DEF NoView
<1>3. QED
  BY <1>2 DEF Views

\* The handle of a row is a handle of the OS or none at all.
LEMMA HandleType ==
  ASSUME TypeOK, NEW i \in Ids
  PROVE  Handle(i) \in Objects \cup {NoObject}
BY NullAssumption DEF TypeOK, Handle, Entry

LEMMA RowType ==
  ASSUME TypeOK, NEW i \in Present
  PROVE  /\ table[i] \in Entry
         /\ Handle(i) = table[i].object
BY NullAssumption DEF TypeOK, Present, Handle

LEMMA CurrentViewIsView ==
  ASSUME TypeOK
  PROVE  CurrentView \in Views
<1>1. \A i \in Present : table[i].data \in Data
  BY RowType DEF Entry
<1>2. CurrentView \in [Present -> Data]
  BY <1>1 DEF CurrentView
<1>3. Present \in SUBSET Ids
  BY DEF Present
<1>4. QED
  BY <1>2, <1>3 DEF Views

LEMMA MergedType ==
  ASSUME TypeOK, NEW view \in Views
  PROVE  Merged(view) \in [Ids -> Entry \cup {NoEntry}]
<1>1. ASSUME NEW i \in Ids, i \in DOMAIN view
      PROVE  [data   |-> view[i],
              object |-> IF Detaches(i, view) THEN NoObject ELSE Handle(i)] \in Entry
  BY <1>1, ViewData, HandleType DEF Entry
<1>2. QED
  BY <1>1 DEF Merged

\* Departures touch only handles that were given up, and only free monitors.
LEMMA DepartType ==
  ASSUME TypeOK, NEW objs, Depart(objs)
  PROVE  /\ os' \in [Objects -> OsMonitor \cup {NoMonitor}]
         /\ \A o \in Objects : os'[o] = os[o] \/ os'[o] = NoMonitor
         /\ \A o \in Objects \ objs : os'[o] = os[o]
         /\ \A o \in Objects : os[o] # NoMonitor /\ os[o].state = "created"
                                  => os'[o] = os[o]
<1>1. PICK gone \in SUBSET objs :
        os' = [o \in Objects |->
                 IF o \in gone /\ os[o] # NoMonitor /\ os[o].state = "arrived"
                 THEN NoMonitor ELSE os[o]]
  BY DEF Depart
<1>2. QED
  BY <1>1 DEF TypeOK
-----------------------------------------------------------------------------
(* The inductive invariant, for any number of writers and any failures *)

Creating == {"creating", "created", "stored"}

\* Only the holder of the context creates, and what it has created is still there,
\* not plugged in, with the serial of the id it was created for.
CreatorInv ==
  \A c \in Clients :
    /\ context = c <=> pc[c] \in Creating
    /\ pc[c] \in {"created", "stored"} =>
         /\ handle[c] \in Objects
         /\ target[c] \in Ids
         /\ os[handle[c]] = [state |-> "created", serial |-> target[c]]

HandleInv == TypeOK /\ CreatorInv /\ HandlesFaithful

(* Type correctness *)

LEMMA TypeInit == Init => TypeOK
BY NoViewIsView DEF Init, TypeOK, Labels

LEMMA TypeStep ==
  ASSUME TypeOK, CreatorInv, [Next]_vars
  PROVE  TypeOK'
<1>1. ASSUME NEW c \in Writers, NEW view \in Views, NotifyMerge(c, view)
      PROVE  TypeOK'
  <2>1. Arrivals(view) \subseteq Ids
    BY ViewData DEF Arrivals
  <2>2. os' \in [Objects -> OsMonitor \cup {NoMonitor}]
    BY <1>1, DepartType DEF NotifyMerge
  <2>3. c \in Clients
    BY ClientAssumption
  <2>4. QED
    BY <1>1, <2>1, <2>2, <2>3, MergedType
       DEF NotifyMerge, TypeOK, Goto, Labels, channelVars
<1>2. ASSUME NEW c \in Writers, NotifyRefused(c)
      PROVE  TypeOK'
  BY <1>2, ClientAssumption
     DEF NotifyRefused, TypeOK, Goto, Labels, handlerVars, channelVars
<1>3. ASSUME NEW c \in Writers, NEW S \in SUBSET Ids, Remove(c, S)
      PROVE  TypeOK'
  <2>1. os' \in [Objects -> OsMonitor \cup {NoMonitor}]
    BY <1>3, DepartType DEF Remove
  <2>2. QED
    BY <1>3, <2>1, ClientAssumption
       DEF Remove, TypeOK, Goto, Labels, handlerVars, channelVars
<1>4. ASSUME NEW c \in Writers, RemoveAll(c)
      PROVE  TypeOK'
  <2>1. os' \in [Objects -> OsMonitor \cup {NoMonitor}]
    BY <1>4, DepartType DEF RemoveAll
  <2>2. QED
    BY <1>4, <2>1, ClientAssumption, NoViewIsView
       DEF RemoveAll, TypeOK, Goto, Labels, handlerVars, channelVars
<1>5. ASSUME NEW c \in Clients, EnterContext(c)
      PROVE  TypeOK'
  BY <1>5 DEF EnterContext, TypeOK, Goto, Labels, handlerVars, channelVars
<1>6. ASSUME NEW c \in Clients, NEW i \in Ids, CreateMonitor(c, i)
      PROVE  TypeOK'
  <2>1. PICK o \in Objects :
          /\ os' = [os EXCEPT ![o] = [state |-> "created", serial |-> i]]
          /\ handle' = [handle EXCEPT ![c] = o]
    BY <1>6 DEF CreateMonitor
  <2>2. [state |-> "created", serial |-> i] \in OsMonitor
    BY DEF OsMonitor
  <2>3. QED
    BY <1>6, <2>1, <2>2 DEF CreateMonitor, TypeOK, Goto, Labels, channelVars
<1>7. ASSUME NEW c \in Clients, NEW i \in Ids, CreateMonitorFails(c, i)
      PROVE  TypeOK'
  BY <1>7 DEF CreateMonitorFails, TypeOK, channelVars
<1>8. ASSUME NEW c \in Clients, StoreObject(c)
      PROVE  TypeOK'
  <2>1. ASSUME NEW i \in Ids, i \in Present
        PROVE  [table[i] EXCEPT !.object = handle[c]] \in Entry
    BY <2>1, RowType DEF TypeOK, Entry
  <2>2. table' \in [Ids -> Entry \cup {NoEntry}]
    BY <1>8, <2>1 DEF StoreObject, TypeOK
  <2>3. QED
    BY <1>8, <2>2 DEF StoreObject, TypeOK, Goto, Labels, handlerVars, channelVars
<1>9. ASSUME NEW c \in Clients, Arrive(c)
      PROVE  TypeOK'
  <2>1. /\ handle[c] \in Objects
        /\ os[handle[c]] = [state |-> "created", serial |-> target[c]]
        /\ target[c] \in Ids
    BY <1>9 DEF Arrive, CreatorInv
  <2>2. [os[handle[c]] EXCEPT !.state = "arrived"] \in OsMonitor
    BY <2>1 DEF OsMonitor
  <2>3. os' \in [Objects -> OsMonitor \cup {NoMonitor}]
    BY <1>9, <2>1, <2>2 DEF Arrive, TypeOK
  <2>4. QED
    BY <1>9, <2>3 DEF Arrive, Drop, TypeOK, Goto, Labels, channelVars
<1>10. ASSUME NEW c \in Clients, ArriveFails(c)
       PROVE  TypeOK'
  BY <1>10 DEF ArriveFails, Drop, TypeOK, Goto, Labels, channelVars
<1>11. ASSUME NEW c \in Clients, LeaveContext(c)
       PROVE  TypeOK'
  BY <1>11 DEF LeaveContext, TypeOK, Goto, Labels, handlerVars, channelVars
<1>12. ASSUME NEW c \in Clients, SendSnapshot(c)
       PROVE  TypeOK'
  BY <1>12, CurrentViewIsView
     DEF SendSnapshot, Publish, TypeOK, Goto, Labels, handlerVars
<1>13. ASSUME NEW c \in Clients, Send(c)
       PROVE  TypeOK'
  BY <1>13, NoViewIsView DEF Send, Publish, TypeOK, Goto, Labels, handlerVars
<1>14. ASSUME NEW c \in Clients, Forward(c)
       PROVE  TypeOK'
  BY <1>14 DEF Forward, TypeOK, handlerVars
<1>15. ASSUME NEW c \in Clients, RequestState(c)
       PROVE  TypeOK'
  BY <1>15, CurrentViewIsView DEF RequestState, TypeOK, handlerVars
<1>16. CASE UNCHANGED vars
  BY <1>16 DEF TypeOK, vars
<1>17. QED
  BY <1>1, <1>2, <1>3, <1>4, <1>5, <1>6, <1>7, <1>8, <1>9, <1>10, <1>11,
     <1>12, <1>13, <1>14, <1>15, <1>16 DEF Next, Command, HandlerStep
-----------------------------------------------------------------------------
(* Handles *)

\* What NotifyMerge, Remove and RemoveAll have in common: the rows of S give up
\* their handles, those monitors depart, nothing else moves.
LEMMA GivingUp ==
  ASSUME HandleInv, TypeOK',
         NEW S \in SUBSET Ids,
         Depart(HandlesOf(S)),
         \A i \in Ids : Handle(i)' = IF i \in S THEN NoObject ELSE Handle(i)
  PROVE  /\ HandlesFaithful'
         /\ \A o \in Objects : os[o] # NoMonitor /\ os[o].state = "created"
                                  => os'[o] = os[o]
<1>1. \A o \in Objects : os[o] # NoMonitor /\ os[o].state = "created"
                           => os'[o] = os[o]
  BY DepartType DEF HandleInv
<1>2. ASSUME NEW i \in Ids, Handle(i)' # NoObject
      PROVE  os'[Handle(i)'] # NoMonitor /\ os'[Handle(i)'].serial = i
  <2>1. i \notin S /\ Handle(i)' = Handle(i)
    BY <1>2
  <2>2. Handle(i) \in Objects
    BY <1>2, <2>1, HandleType DEF HandleInv
  <2>3. os[Handle(i)] # NoMonitor /\ os[Handle(i)].serial = i
    BY <1>2, <2>1 DEF HandleInv, HandlesFaithful
  <2>4. \A j \in S : Handle(j) # Handle(i)
    BY <2>1, <2>2, <2>3, ClientAssumption DEF HandleInv, HandlesFaithful
  <2>5. Handle(i) \notin HandlesOf(S)
    BY <2>4 DEF HandlesOf
  <2>6. os'[Handle(i)] = os[Handle(i)]
    BY <2>2, <2>5, DepartType DEF HandleInv
  <2>7. QED
    BY <2>1, <2>3, <2>6
<1>3. QED
  BY <1>1, <1>2 DEF HandlesFaithful

\* The handles of the table after the merge of notify().
LEMMA MergedHandles ==
  ASSUME TypeOK, NEW view \in Views, table' = Merged(view), NEW i \in Ids
  PROVE  Handle(i)' = IF i \notin DOMAIN view \/ Detaches(i, view)
                      THEN NoObject ELSE Handle(i)
<1>1. CASE i \notin DOMAIN view
  <2>1. table'[i] = NoEntry
    BY <1>1 DEF Merged
  <2>2. QED
    BY <1>1, <2>1 DEF Handle
<1>2. CASE i \in DOMAIN view
  <2>1. table'[i] = [data   |-> view[i],
                     object |-> IF Detaches(i, view) THEN NoObject ELSE Handle(i)]
    BY <1>2 DEF Merged
  <2>2. table'[i] \in Entry
    BY <1>2, <2>1, ViewData, HandleType DEF Entry
  <2>3. Handle(i)' = table'[i].object
    BY <2>2, NullAssumption DEF Handle
  <2>4. QED
    BY <1>2, <2>1, <2>3
<1>3. QED
  BY <1>1, <1>2

\* The handles of the table once some rows are removed.
LEMMA RemovedHandles ==
  ASSUME NEW S \in SUBSET Ids, NEW i \in Ids,
         table' = [j \in Ids |-> IF j \in S THEN NoEntry ELSE table[j]]
  PROVE  Handle(i)' = IF i \in S THEN NoObject ELSE Handle(i)
BY DEF Handle

\* Actions that leave the table and the OS alone and move one handler between
\* labels, none of them with a handle in hand.
LEMMA HandlerMoves ==
  ASSUME HandleInv, TypeOK', NEW c \in Clients, NEW label \in Labels,
         pc[c] \notin {"created", "stored"}, label \notin {"created", "stored"},
         Goto(c, label),
         \/ /\ pc[c] \in Creating <=> label \in Creating
            /\ context' = context
         \/ pc[c] \notin Creating /\ label \in Creating
            /\ context = NoClient /\ context' = c
         \/ pc[c] \in Creating /\ label \notin Creating /\ context' = NoClient,
         UNCHANGED <<table, os, target, handle>>
  PROVE  CreatorInv' /\ HandlesFaithful'
<1>1. HandlesFaithful'
  BY DEF HandleInv, HandlesFaithful, Handle
<1>2. \A d \in Clients : pc'[d] = IF d = c THEN label ELSE pc[d]
  BY DEF Goto, HandleInv, TypeOK
<1>3. \A d \in Clients : context' = d <=> pc'[d] \in Creating
  BY <1>2, ClientAssumption DEF HandleInv, CreatorInv
<1>4. QED
  BY <1>1, <1>2, <1>3 DEF HandleInv, CreatorInv

\* What an action that departs monitors does to the creators.
LEMMA CreatorsUndisturbed ==
  ASSUME HandleInv, TypeOK', NEW c \in Clients, NEW label \in Labels,
         pc[c] \notin Creating, label \notin Creating, Goto(c, label),
         \A o \in Objects : os[o] # NoMonitor /\ os[o].state = "created"
                            => os'[o] = os[o],
         UNCHANGED <<context, target, handle>>
  PROVE  CreatorInv'
<1>1. \A d \in Clients : pc'[d] = IF d = c THEN label ELSE pc[d]
  BY DEF Goto, HandleInv, TypeOK
<1>2. ASSUME NEW d \in Clients, pc'[d] \in {"created", "stored"}
      PROVE  /\ handle[d] \in Objects
             /\ target[d] \in Ids
             /\ os'[handle[d]] = [state |-> "created", serial |-> target[d]]
  <2>1. pc[d] \in {"created", "stored"}
    BY <1>1, <1>2 DEF Creating
  <2>2. /\ handle[d] \in Objects
        /\ target[d] \in Ids
        /\ os[handle[d]] = [state |-> "created", serial |-> target[d]]
    BY <2>1 DEF HandleInv, CreatorInv
  <2>3. os[handle[d]] # NoMonitor /\ os[handle[d]].state = "created"
    BY <2>2, NullAssumption DEF OsMonitor
  <2>4. QED
    BY <2>2, <2>3
<1>3. \A d \in Clients : context' = d <=> pc'[d] \in Creating
  BY <1>1 DEF HandleInv, CreatorInv
<1>4. QED
  BY <1>2, <1>3 DEF CreatorInv

LEMMA HandleStep ==
  ASSUME HandleInv, [Next]_vars
  PROVE  HandleInv'
<1>0. TypeOK'
  BY TypeStep DEF HandleInv
<1>1. ASSUME NEW c \in Writers, NEW view \in Views, NotifyMerge(c, view)
      PROVE  CreatorInv' /\ HandlesFaithful'
  <2> DEFINE S == {i \in Ids : i \notin DOMAIN view \/ Detaches(i, view)}
  <2>1. \A i \in Ids : Handle(i)' = IF i \in S THEN NoObject ELSE Handle(i)
    BY <1>1, MergedHandles DEF NotifyMerge, HandleInv
  <2>2. Depart(HandlesOf(S))
    BY <1>1 DEF NotifyMerge
  <2>3. /\ HandlesFaithful'
        /\ \A o \in Objects : os[o] # NoMonitor /\ os[o].state = "created"
                               => os'[o] = os[o]
    <3> HIDE DEF S
    <3>1. S \in SUBSET Ids
      BY DEF S
    <3>2. QED
      BY <1>0, <2>1, <2>2, <3>1, GivingUp
  <2>4. c \in Clients
    BY ClientAssumption
  <2>5. CreatorInv'
    BY <1>0, <1>1, <2>3, <2>4, CreatorsUndisturbed DEF NotifyMerge, Labels, Creating
  <2>6. QED
    BY <2>3, <2>5
<1>2. ASSUME NEW c \in Writers, NotifyRefused(c)
      PROVE  CreatorInv' /\ HandlesFaithful'
  BY <1>0, <1>2, HandlerMoves, ClientAssumption
     DEF NotifyRefused, Labels, Creating, handlerVars
<1>3. ASSUME NEW c \in Writers, NEW S \in SUBSET Ids, Remove(c, S)
      PROVE  CreatorInv' /\ HandlesFaithful'
  <2>1. \A i \in Ids : Handle(i)' = IF i \in S THEN NoObject ELSE Handle(i)
    BY <1>3, RemovedHandles DEF Remove
  <2>2. /\ HandlesFaithful'
        /\ \A o \in Objects : os[o] # NoMonitor /\ os[o].state = "created"
                               => os'[o] = os[o]
    BY <1>0, <1>3, <2>1, GivingUp DEF Remove
  <2>3. c \in Clients
    BY ClientAssumption
  <2>4. CreatorInv'
    BY <1>0, <1>3, <2>2, <2>3, CreatorsUndisturbed
       DEF Remove, Labels, Creating, handlerVars
  <2>5. QED
    BY <2>2, <2>4
<1>4. ASSUME NEW c \in Writers, RemoveAll(c)
      PROVE  CreatorInv' /\ HandlesFaithful'
  <2>1. table' = [j \in Ids |-> IF j \in Ids THEN NoEntry ELSE table[j]]
    BY <1>4 DEF RemoveAll
  <2>2. \A i \in Ids : Handle(i)' = IF i \in Ids THEN NoObject ELSE Handle(i)
    BY <2>1, RemovedHandles
  <2>3. /\ HandlesFaithful'
        /\ \A o \in Objects : os[o] # NoMonitor /\ os[o].state = "created"
                               => os'[o] = os[o]
    BY <1>0, <1>4, <2>2, GivingUp DEF RemoveAll
  <2>4. c \in Clients
    BY ClientAssumption
  <2>5. CreatorInv'
    BY <1>0, <1>4, <2>3, <2>4, CreatorsUndisturbed
       DEF RemoveAll, Labels, Creating, handlerVars
  <2>6. QED
    BY <2>3, <2>5
<1>5. ASSUME NEW c \in Clients, EnterContext(c)
      PROVE  CreatorInv' /\ HandlesFaithful'
  BY <1>0, <1>5, HandlerMoves DEF EnterContext, Labels, Creating, handlerVars
<1>6. ASSUME NEW c \in Clients, NEW i \in Ids, CreateMonitor(c, i)
      PROVE  CreatorInv' /\ HandlesFaithful'
  <2>1. PICK o \in Objects :
          /\ os[o] = NoMonitor
          /\ os' = [os EXCEPT ![o] = [state |-> "created", serial |-> i]]
          /\ handle' = [handle EXCEPT ![c] = o]
    BY <1>6 DEF CreateMonitor
  <2>2. /\ target' = [target EXCEPT ![c] = i]
        /\ pc' = [pc EXCEPT ![c] = "created"]
        /\ pc[c] = "creating"
        /\ UNCHANGED <<table, context>>
    BY <1>6 DEF CreateMonitor, Goto
  <2>3. \A j \in Ids : Handle(j) # NoObject => Handle(j) # o
    BY <2>1 DEF HandleInv, HandlesFaithful
  <2>4. \A j \in Ids : Handle(j)' = Handle(j)
    BY <2>2 DEF Handle
  <2>5. HandlesFaithful'
    BY <2>1, <2>3, <2>4, HandleType DEF HandleInv, HandlesFaithful, TypeOK
  <2>6. \A d \in Clients \ {c} : pc[d] \notin Creating
    BY <2>2 DEF HandleInv, CreatorInv, Creating
  <2>7. CreatorInv'
    BY <2>1, <2>2, <2>6 DEF HandleInv, TypeOK, CreatorInv, Creating
  <2>8. QED
    BY <2>5, <2>7
<1>7. ASSUME NEW c \in Clients, NEW i \in Ids, CreateMonitorFails(c, i)
      PROVE  CreatorInv' /\ HandlesFaithful'
  BY <1>7 DEF CreateMonitorFails, HandleInv, CreatorInv, HandlesFaithful, Handle
<1>8. ASSUME NEW c \in Clients, StoreObject(c)
      PROVE  CreatorInv' /\ HandlesFaithful'
  <2>1. /\ handle[c] \in Objects
        /\ target[c] \in Ids
        /\ os[handle[c]] = [state |-> "created", serial |-> target[c]]
        /\ os[handle[c]] # NoMonitor
    BY <1>8, NullAssumption DEF StoreObject, HandleInv, CreatorInv, OsMonitor
  <2>2. ASSUME NEW i \in Ids
        PROVE  Handle(i)' = IF i = target[c] /\ i \in Present
                            THEN handle[c] ELSE Handle(i)
    <3>1. CASE i = target[c] /\ i \in Present
      <4>1. table'[i] = [table[i] EXCEPT !.object = handle[c]]
        BY <1>8, <3>1 DEF StoreObject
      <4>2. table'[i] \in Entry /\ table'[i].object = handle[c]
        BY <2>1, <3>1, <4>1, RowType DEF Entry, HandleInv
      <4>3. QED
        BY <3>1, <4>2, NullAssumption DEF Handle
    <3>2. CASE ~(i = target[c] /\ i \in Present)
      <4>1. table'[i] = table[i]
        BY <1>8, <3>2 DEF StoreObject
      <4>2. QED
        BY <3>2, <4>1 DEF Handle
    <3>3. QED
      BY <3>1, <3>2
  <2>3. HandlesFaithful'
    BY <1>8, <2>1, <2>2 DEF StoreObject, HandleInv, HandlesFaithful
  <2>4. CreatorInv'
    BY <1>8 DEF StoreObject, Goto, handlerVars, HandleInv, TypeOK, CreatorInv, Creating
  <2>5. QED
    BY <2>3, <2>4
<1>9. ASSUME NEW c \in Clients, Arrive(c)
      PROVE  CreatorInv' /\ HandlesFaithful'
  <2>1. /\ handle[c] \in Objects
        /\ target[c] \in Ids
        /\ os[handle[c]] = [state |-> "created", serial |-> target[c]]
    BY <1>9 DEF Arrive, HandleInv, CreatorInv
  <2>2. /\ os'[handle[c]] = [state |-> "arrived", serial |-> target[c]]
        /\ \A o \in Objects \ {handle[c]} : os'[o] = os[o]
    BY <1>9, <2>1 DEF Arrive, HandleInv, TypeOK
  <2>3. os'[handle[c]] # NoMonitor
    BY <2>1, <2>2, NullAssumption DEF OsMonitor
  <2>4. \A i \in Ids : Handle(i)' = Handle(i)
    BY <1>9 DEF Arrive, Handle
  <2>5. HandlesFaithful'
    BY <2>1, <2>2, <2>3, <2>4, HandleType DEF HandleInv, HandlesFaithful
  <2>6. \A d \in Clients \ {c} : pc[d] \notin Creating
    BY <1>9 DEF Arrive, HandleInv, CreatorInv, Creating
  <2>7. CreatorInv'
    BY <1>9, <2>6 DEF Arrive, Goto, HandleInv, TypeOK, CreatorInv, Creating
  <2>8. QED
    BY <2>5, <2>7
<1>10. ASSUME NEW c \in Clients, ArriveFails(c)
       PROVE  CreatorInv' /\ HandlesFaithful'
  <2>1. \A d \in Clients \ {c} : pc[d] \notin Creating
    BY <1>10 DEF ArriveFails, HandleInv, CreatorInv, Creating
  <2>2. CreatorInv'
    BY <1>10, <2>1 DEF ArriveFails, Goto, HandleInv, TypeOK, CreatorInv, Creating
  <2>3. HandlesFaithful'
    BY <1>10 DEF ArriveFails, HandleInv, HandlesFaithful, Handle
  <2>4. QED
    BY <2>2, <2>3
<1>11. ASSUME NEW c \in Clients, LeaveContext(c)
       PROVE  CreatorInv' /\ HandlesFaithful'
  BY <1>0, <1>11, HandlerMoves DEF LeaveContext, Labels, Creating, handlerVars
<1>12. ASSUME NEW c \in Clients, SendSnapshot(c)
       PROVE  CreatorInv' /\ HandlesFaithful'
  BY <1>0, <1>12, HandlerMoves DEF SendSnapshot, Labels, Creating, handlerVars
<1>13. ASSUME NEW c \in Clients, Send(c)
       PROVE  CreatorInv' /\ HandlesFaithful'
  BY <1>0, <1>13, HandlerMoves DEF Send, Labels, Creating, handlerVars
<1>14. ASSUME NEW c \in Clients, Forward(c) \/ RequestState(c)
       PROVE  CreatorInv' /\ HandlesFaithful'
  BY <1>14 DEF Forward, RequestState, HandleInv, CreatorInv, HandlesFaithful, Handle,
               handlerVars
<1>15. ASSUME UNCHANGED vars
       PROVE  CreatorInv' /\ HandlesFaithful'
  <2>1. UNCHANGED <<table, os, context, pc, target, handle>>
    BY <1>15 DEF vars
  <2>2. CreatorInv'
    BY <2>1 DEF HandleInv, CreatorInv
  <2>3. HandlesFaithful'
    BY <2>1 DEF HandleInv, HandlesFaithful, Handle
  <2>4. QED
    BY <2>2, <2>3
<1>16. QED
  BY <1>0, <1>1, <1>2, <1>3, <1>4, <1>5, <1>6, <1>7, <1>8, <1>9, <1>10, <1>11,
     <1>12, <1>13, <1>14, <1>15 DEF HandleInv, Next, Command, HandlerStep

LEMMA HandleInit == Init => HandleInv
<1>1. SUFFICES ASSUME Init PROVE CreatorInv /\ HandlesFaithful
  BY TypeInit DEF HandleInv
<1>2. \A i \in Ids : table[i] = NoEntry
  BY <1>1 DEF Init
<1>3. HandlesFaithful
  BY <1>2 DEF HandlesFaithful, Handle
<1>4. CreatorInv
  BY <1>1, ClientAssumption DEF Init, CreatorInv, Creating
<1>5. QED
  BY <1>3, <1>4

\* The invariant, from which the two theorems a reader wants follow.
THEOREM HandleInvariant == Spec => []HandleInv
<1>1. HandleInv /\ [Next]_vars => HandleInv'
  BY HandleStep
<1>2. QED
  BY HandleInit, <1>1, PTL DEF Spec

\* Every variable keeps its type, whatever the clients send and the OS refuses.
THEOREM TypeCorrect == Spec => []TypeOK
<1>1. HandleInv => TypeOK
  BY DEF HandleInv
<1>2. QED
  BY HandleInvariant, <1>1, PTL

\* No interleaving of any number of handlers, and no failure of the OS, makes a
\* row of the table refer to a departed monitor or to another row's monitor.
THEOREM HandlesAreFaithful == Spec => []HandlesFaithful
<1>1. HandleInv => HandlesFaithful
  BY DEF HandleInv
<1>2. QED
  BY HandleInvariant, <1>1, PTL
-----------------------------------------------------------------------------
(* One writer, and an OS that only ever refuses to create *)

Solo ==
  /\ \A c, d \in Writers : c = d
  /\ ~ArrivalFails /\ ~DepartureFails

\* A row that waits for its monitor.
Awaits(i) == i \in Present /\ table[i].data.enabled /\ Handle(i) = NoObject

\* Between commands the handles of the table are the monitors plugged in, and only enabled
\* rows have one; a handler adds the rows it has planned one by one, each in its own steps.
SoloInv ==
  /\ \A c \in Clients \ Writers : pc[c] = "idle"
  /\ \A i \in Ids : Handle(i) # NoObject =>
       /\ table[i].data.enabled
       /\ \/ Handle(i) \in Plugged
          \/ \E c \in Writers : pc[c] = "stored" /\ handle[c] = Handle(i)
  /\ \A o \in Plugged : \E i \in Ids : Handle(i) = o
  /\ \A c \in Writers :
       /\ pc[c] \in {"merged"} \cup Creating => \A i \in todo[c] : Awaits(i)
       /\ pc[c] = "created" => Awaits(target[c]) /\ target[c] \notin todo[c]
       /\ pc[c] = "stored" => Handle(target[c]) = handle[c]

\* While a handler is between two commands no other is at work.
LEMMA Alone ==
  ASSUME Solo, HandleInv, SoloInv, NEW c \in Writers, pc[c] \notin Creating
  PROVE  \A d \in Clients : d # c => pc[d] = "idle"
BY DEF Solo, SoloInv

\* Who a monitor's id is: the row that has its handle.
LEMMA PluggedRow ==
  ASSUME HandleInv, NEW i \in Ids, Handle(i) \in Plugged
  PROVE  Handle(i) \in Objects /\ Handle(i) # NoObject /\ os[Handle(i)].serial = i
BY ClientAssumption DEF Plugged, HandleInv, HandlesFaithful

\* What a command leaves plugged in: it departs what the rows of S gave up, all of it.
LEMMA SoloGivingUp ==
  ASSUME Solo, HandleInv, SoloInv, NEW c \in Writers, pc[c] \notin Creating,
         NEW S \in SUBSET Ids,
         Depart(HandlesOf(S)),
         \A i \in Ids : Handle(i)' = IF i \in S THEN NoObject ELSE Handle(i)
  PROVE  /\ \A o \in Objects : o \in Plugged' <=> o \in Plugged /\ o \notin HandlesOf(S)
         /\ \A o \in Plugged' : os'[o] = os[o]
         /\ \A i \in Ids : Handle(i)' # NoObject => i \notin S /\ Handle(i) \in Plugged'
         /\ \A o \in Plugged' : \E i \in Ids : Handle(i)' = o
<1>1. os' = [o \in Objects |->
               IF o \in HandlesOf(S) /\ os[o] # NoMonitor /\ os[o].state = "arrived"
               THEN NoMonitor ELSE os[o]]
  BY DEF Depart, Solo
<1>2. \A o \in Objects : o \in Plugged' <=> o \in Plugged /\ o \notin HandlesOf(S)
  BY <1>1 DEF Plugged
<1>3. \A o \in Plugged' : o \in Objects /\ os'[o] = os[o]
  BY <1>1, <1>2 DEF Plugged
<1>4. \A d \in Clients : pc[d] # "stored"
  BY Alone DEF Creating
<1>5. ASSUME NEW i \in Ids, Handle(i)' # NoObject
      PROVE  i \notin S /\ Handle(i) \in Plugged'
  <2>1. i \notin S /\ Handle(i) # NoObject
    BY <1>5
  <2>2. Handle(i) \in Plugged
    BY <2>1, <1>4, ClientAssumption DEF SoloInv
  <2>3. \A j \in S : Handle(j) = Handle(i) => j = i
    BY <2>2, PluggedRow
  <2>4. Handle(i) \notin HandlesOf(S)
    BY <2>1, <2>3 DEF HandlesOf
  <2> QED
    BY <2>1, <2>2, <2>4, <1>2, PluggedRow
<1>6. ASSUME NEW o \in Plugged'
      PROVE  \E i \in Ids : Handle(i)' = o
  <2>1. o \in Plugged /\ o \notin HandlesOf(S)
    BY <1>2, <1>3
  <2>2. PICK i \in Ids : Handle(i) = o
    BY <2>1 DEF SoloInv
  <2>3. i \notin S
    BY <2>1, <2>2, <1>3, ClientAssumption DEF HandlesOf
  <2> QED
    BY <2>2, <2>3
<1> QED
  BY <1>2, <1>3, <1>5, <1>6

\* What a command has planned: after it, each row that is to get a monitor waits for it.
LEMMA ArrivalsAwait ==
  ASSUME TypeOK, NEW view \in Views, table' = Merged(view),
         \A i \in Ids : Handle(i) # NoObject => table[i].data.enabled,
         NEW i \in Arrivals(view)
  PROVE  i \in Ids /\ Awaits(i)'
<1>1. i \in Ids /\ i \in DOMAIN view /\ view[i].enabled
  BY ViewData DEF Arrivals
<1>2. table'[i] = [data   |-> view[i],
                   object |-> IF Detaches(i, view) THEN NoObject ELSE Handle(i)]
  BY <1>1 DEF Merged
<1>3. table'[i] # NoEntry /\ table'[i].data = view[i]
  <2>1. table'[i] \in Entry
    BY <1>1, <1>2, ViewData, HandleType DEF Entry
  <2> QED
    BY <1>2, <2>1, NullAssumption
<1>4. Handle(i)' = NoObject
  <2>1. Handle(i)' = IF Detaches(i, view) THEN NoObject ELSE Handle(i)
    BY <1>1, MergedHandles
  <2>2. CASE Detaches(i, view)
    BY <2>1, <2>2
  <2>3. CASE ~Detaches(i, view)
    <3>1. Handle(i) = NoObject
      BY <1>1, <2>3 DEF Arrivals, Detaches, Handle
    <3> QED
      BY <2>1, <2>3, <3>1
  <2> QED
    BY <2>2, <2>3
<1> QED
  BY <1>1, <1>3, <1>4 DEF Awaits, Present

\* A step of one handler between labels, with the table and the OS as they are.
LEMMA SoloMoves ==
  ASSUME HandleInv, SoloInv, NEW c \in Writers, NEW label \in Labels,
         pc[c] # "stored", label \notin {"created", "stored"},
         label \in {"merged", "creating"} => pc[c] \in {"merged", "creating"},
         Goto(c, label),
         todo'[c] \subseteq todo[c], \A d \in Writers \ {c} : todo'[d] = todo[d],
         UNCHANGED <<table, os, target, handle>>
  PROVE  SoloInv'
<1>1. \A d \in Clients : pc'[d] = IF d = c THEN label ELSE pc[d]
  BY DEF Goto, HandleInv, TypeOK
<1>2. \A i : Handle(i)' = Handle(i) /\ Awaits(i)' = Awaits(i)
  BY DEF Handle, Awaits, Present
<1>3. Plugged' = Plugged
  BY DEF Plugged
<1>4. \A d \in Clients : pc'[d] = "stored" <=> pc[d] = "stored"
  BY <1>1
<1>5. Writers \subseteq Clients
  BY ClientAssumption
<1>6. \A d \in Clients \ Writers : pc'[d] = "idle"
  BY <1>1 DEF SoloInv
<1>7. \A i \in Ids : Handle(i)' # NoObject =>
        /\ table'[i].data.enabled
        /\ \/ Handle(i)' \in Plugged'
           \/ \E d \in Writers : pc'[d] = "stored" /\ handle'[d] = Handle(i)'
  BY <1>2, <1>3, <1>4, <1>5 DEF SoloInv
<1>8. \A o \in Plugged' : \E i \in Ids : Handle(i)' = o
  BY <1>2, <1>3 DEF SoloInv
<1>9. ASSUME NEW d \in Writers
      PROVE  /\ pc'[d] \in {"merged"} \cup Creating => \A i \in todo'[d] : Awaits(i)'
             /\ pc'[d] = "created" => Awaits(target[d])' /\ target'[d] \notin todo'[d]
             /\ pc'[d] = "stored" => Handle(target[d])' = handle'[d]
  BY <1>1, <1>2, <1>5 DEF SoloInv, Creating, Labels
<1> QED
  BY <1>6, <1>7, <1>8, <1>9 DEF SoloInv

\* A command: rows give up their handles, others take the data of a list, and what is
\* planned waits for its monitor.
LEMMA SoloCommand ==
  ASSUME Solo, HandleInv, SoloInv, NEW c \in Writers, NEW label \in Labels,
         pc[c] = "idle", label \notin Creating, Goto(c, label),
         NEW S \in SUBSET Ids,
         Depart(HandlesOf(S)),
         \A i \in Ids : Handle(i)' = IF i \in S THEN NoObject ELSE Handle(i),
         \A i \in Ids \ S : Handle(i) # NoObject => table'[i].data.enabled,
         label = "merged" => \A i \in todo'[c] : Awaits(i)',
         UNCHANGED <<target, handle>>
  PROVE  SoloInv'
<1>1. \A d \in Clients : pc'[d] = IF d = c THEN label ELSE pc[d]
  BY DEF Goto, HandleInv, TypeOK
<1>2. \A d \in Clients : d # c => pc'[d] = "idle"
  BY <1>1, Alone DEF Creating
<1>3. /\ \A i \in Ids : Handle(i)' # NoObject => i \notin S /\ Handle(i) \in Plugged'
      /\ \A o \in Plugged' : \E i \in Ids : Handle(i)' = o
  BY SoloGivingUp DEF Creating
<1>4. \A i \in Ids : Handle(i)' # NoObject =>
        table'[i].data.enabled /\ Handle(i)' \in Plugged'
  BY <1>3
<1>5. \A d \in Clients \ Writers : pc'[d] = "idle"
  BY <1>2
<1>6. ASSUME NEW d \in Writers
      PROVE  /\ pc'[d] \in {"merged"} \cup Creating => \A i \in todo'[d] : Awaits(i)'
             /\ pc'[d] = "created" => Awaits(target[d])' /\ target'[d] \notin todo'[d]
             /\ pc'[d] = "stored" => Handle(target[d])' = handle'[d]
  BY <1>1, <1>2, ClientAssumption DEF Creating
<1> QED
  BY <1>3, <1>4, <1>5, <1>6 DEF SoloInv

LEMMA SoloStep ==
  ASSUME Solo, HandleInv, HandleInv', SoloInv, [Next]_vars
  PROVE  SoloInv'
<1> USE ClientAssumption
<1>1. ASSUME NEW c \in Writers, NEW view \in Views, NotifyMerge(c, view)
      PROVE  SoloInv'
  <2> DEFINE S == {i \in Ids : i \notin DOMAIN view \/ Detaches(i, view)}
  <2>1. /\ pc[c] = "idle" /\ table' = Merged(view) /\ Goto(c, "merged")
        /\ Depart(HandlesOf(S)) /\ UNCHANGED <<target, handle>>
        /\ todo' = [todo EXCEPT ![c] = Arrivals(view)]
    BY <1>1 DEF NotifyMerge
  <2>2. \A i \in Ids : Handle(i)' = IF i \in S THEN NoObject ELSE Handle(i)
    BY <2>1, MergedHandles DEF HandleInv
  <2>3. \A i \in todo'[c] : Awaits(i)'
    BY <2>1, ArrivalsAwait DEF HandleInv, TypeOK, SoloInv
  <2>4. ASSUME NEW i \in Ids \ S, Handle(i) # NoObject
        PROVE  table'[i].data.enabled
    <3>1. i \in DOMAIN view /\ ~Detaches(i, view) /\ table[i] # NoEntry
      BY <2>4 DEF Handle
    <3>2. view[i].enabled
      BY <3>1, ViewData DEF Detaches, Data
    <3>3. table'[i].data = view[i]
      BY <2>1, <3>1 DEF Merged
    <3> QED
      BY <3>2, <3>3
  <2>5. S \in SUBSET Ids /\ "merged" \in Labels /\ "merged" \notin Creating
    BY DEF Labels, Creating
  <2> HIDE DEF S
  <2> QED
    BY <2>1, <2>2, <2>3, <2>4, <2>5, SoloCommand
<1>2. ASSUME NEW c \in Writers, NotifyRefused(c)
      PROVE  SoloInv'
  BY <1>2, SoloMoves DEF NotifyRefused, Labels, handlerVars
<1>3. ASSUME NEW c \in Writers, NEW S \in SUBSET Ids, Remove(c, S)
      PROVE  SoloInv'
  <2>1. /\ pc[c] = "idle" /\ Goto(c, "removed") /\ Depart(HandlesOf(S))
        /\ table' = [i \in Ids |-> IF i \in S THEN NoEntry ELSE table[i]]
        /\ UNCHANGED <<target, handle>>
    BY <1>3 DEF Remove, handlerVars
  <2>2. \A i \in Ids : Handle(i)' = IF i \in S THEN NoObject ELSE Handle(i)
    BY <2>1, RemovedHandles
  <2>3. \A i \in Ids \ S : Handle(i) # NoObject => table'[i].data.enabled
    BY <2>1 DEF SoloInv
  <2>4. "removed" \in Labels /\ "removed" \notin Creating
    BY DEF Labels, Creating
  <2> QED
    BY <2>1, <2>2, <2>3, <2>4, SoloCommand
<1>4. ASSUME NEW c \in Writers, RemoveAll(c)
      PROVE  SoloInv'
  <2>1. /\ pc[c] = "idle" /\ Goto(c, "send") /\ Depart(HandlesOf(Ids))
        /\ table' = [i \in Ids |-> IF i \in Ids THEN NoEntry ELSE table[i]]
        /\ UNCHANGED <<target, handle>>
    BY <1>4 DEF RemoveAll, handlerVars
  <2>2. \A i \in Ids : Handle(i)' = IF i \in Ids THEN NoObject ELSE Handle(i)
    BY <2>1, RemovedHandles
  <2>3. "send" \in Labels /\ "send" \notin Creating
    BY DEF Labels, Creating
  <2> QED
    BY <2>1, <2>2, <2>3, SoloCommand
<1>5. ASSUME NEW c \in Clients, HandlerStep(c)
      PROVE  c \in Writers
  <2>1. pc[c] # "idle"
    BY <1>5 DEF HandlerStep, EnterContext, CreateMonitor, CreateMonitorFails, StoreObject,
                Arrive, ArriveFails, LeaveContext, SendSnapshot, Send
  <2> QED
    BY <2>1 DEF SoloInv
<1>6. ASSUME NEW c \in Writers, EnterContext(c)
      PROVE  SoloInv'
  BY <1>6, SoloMoves DEF EnterContext, Labels, handlerVars
<1>7. ASSUME NEW c \in Writers, NEW i \in Ids, CreateMonitor(c, i)
      PROVE  SoloInv'
  <2>1. PICK o \in Objects :
          /\ os[o] = NoMonitor
          /\ os' = [os EXCEPT ![o] = [state |-> "created", serial |-> i]]
          /\ handle' = [handle EXCEPT ![c] = o]
    BY <1>7 DEF CreateMonitor
  <2>2. /\ pc[c] = "creating" /\ i \in todo[c] /\ pc' = [pc EXCEPT ![c] = "created"]
        /\ target' = [target EXCEPT ![c] = i] /\ todo' = [todo EXCEPT ![c] = @ \ {i}]
        /\ UNCHANGED table
    BY <1>7 DEF CreateMonitor, Goto
  <2>3. \A j : Handle(j)' = Handle(j) /\ Awaits(j)' = Awaits(j)
    BY <2>2 DEF Handle, Awaits, Present
  <2>4. Plugged' = Plugged
    BY <2>1 DEF Plugged, HandleInv, TypeOK
  <2>5. \A d \in Clients : d # c => pc[d] = "idle"
    BY <2>2, Alone DEF Solo, SoloInv
  <2>6. /\ pc'[c] = "created" /\ target'[c] = i /\ todo'[c] = todo[c] \ {i}
        /\ \A d \in Clients \ {c} : pc'[d] = "idle"
    BY <2>2, <2>5 DEF HandleInv, TypeOK
  <2>7. \A d \in Clients : pc[d] # "stored"
    BY <2>2, <2>5
  <2>8. Awaits(i) /\ \A j \in todo[c] : Awaits(j)
    BY <2>2 DEF SoloInv, Creating
  <2>9. \A j \in Ids : Handle(j)' # NoObject => table'[j].data.enabled /\ Handle(j)' \in Plugged'
    BY <2>2, <2>3, <2>4, <2>7 DEF SoloInv
  <2>10. \A p \in Plugged' : \E j \in Ids : Handle(j)' = p
    BY <2>3, <2>4 DEF SoloInv
  <2>11. ASSUME NEW d \in Writers
         PROVE  /\ pc'[d] \in {"merged"} \cup Creating => \A j \in todo'[d] : Awaits(j)'
                /\ pc'[d] = "created" => Awaits(target[d])' /\ target'[d] \notin todo'[d]
                /\ pc'[d] = "stored" => Handle(target[d])' = handle'[d]
    <3>1. d = c
      BY DEF Solo
    <3>2. Awaits(target[d])'
      BY <3>1, <2>6, <2>8, <2>2 DEF Awaits, Present, Handle
    <3> QED
      BY <3>1, <3>2, <2>3, <2>6, <2>8
  <2> QED
    BY <2>6, <2>9, <2>10, <2>11 DEF SoloInv
<1>8. ASSUME NEW c \in Writers, NEW i \in Ids, CreateMonitorFails(c, i)
      PROVE  SoloInv'
  <2>1. pc' = [pc EXCEPT ![c] = "creating"] /\ pc[c] = "creating"
    BY <1>8 DEF CreateMonitorFails, HandleInv, TypeOK
  <2>2. todo' = [todo EXCEPT ![c] = @ \ {i}] /\ UNCHANGED <<table, os, target, handle>>
    BY <1>8 DEF CreateMonitorFails
  <2>3. todo'[c] \subseteq todo[c] /\ \A d \in Writers \ {c} : todo'[d] = todo[d]
    BY <2>2 DEF HandleInv, TypeOK
  <2> QED
    BY <2>1, <2>2, <2>3, SoloMoves DEF Goto, Labels
<1>9. ASSUME NEW c \in Writers, StoreObject(c)
      PROVE  SoloInv'
  <2>1. /\ pc[c] = "created" /\ pc' = [pc EXCEPT ![c] = "stored"]
        /\ table' = [i \in Ids |-> IF i = target[c] /\ i \in Present
                                   THEN [table[i] EXCEPT !.object = handle[c]] ELSE table[i]]
        /\ UNCHANGED <<os, todo, target, handle>>
    BY <1>9 DEF StoreObject, Goto, handlerVars
  <2>2. /\ handle[c] \in Objects /\ target[c] \in Ids
        /\ Awaits(target[c]) /\ target[c] \notin todo[c]
    BY <2>1 DEF HandleInv, CreatorInv, SoloInv
  <2>3. /\ \A i \in Ids \ {target[c]} : table'[i] = table[i]
        /\ table'[target[c]] = [table[target[c]] EXCEPT !.object = handle[c]]
    BY <2>1, <2>2 DEF Awaits
  <2>4. table[target[c]] \in Entry
    BY <2>2, RowType DEF Awaits, HandleInv
  <2>5. /\ table'[target[c]].data = table[target[c]].data
        /\ table'[target[c]].object = handle[c]
        /\ table'[target[c]] # NoEntry
    <3>1. table'[target[c]] \in Entry
      BY <2>2, <2>3, <2>4 DEF Entry
    <3> QED
      BY <2>3, <2>4, <3>1, NullAssumption DEF Entry
  <2>6. /\ \A i \in Ids \ {target[c]} : Handle(i)' = Handle(i) /\ Awaits(i)' = Awaits(i)
        /\ Handle(target[c])' = handle[c]
    BY <2>1, <2>3, <2>5 DEF Handle, Awaits, Present
  <2>7. /\ pc'[c] = "stored"
        /\ \A d \in Clients \ {c} : pc'[d] = "idle"
    BY <2>1 DEF Solo, SoloInv, HandleInv, TypeOK
  <2>8. Plugged' = Plugged
    BY <2>1 DEF Plugged
  <2>9. ASSUME NEW i \in Ids, Handle(i)' # NoObject
        PROVE  /\ table'[i].data.enabled
               /\ \/ Handle(i)' \in Plugged'
                  \/ \E d \in Writers : pc'[d] = "stored" /\ handle'[d] = Handle(i)'
    <3>1. CASE i = target[c]
      BY <3>1, <2>1, <2>2, <2>5, <2>6, <2>7 DEF Awaits
    <3>2. CASE i # target[c]
      <4>1. Handle(i) # NoObject /\ \A d \in Writers : pc[d] # "stored"
        BY <2>1, <2>6, <2>9, <3>2 DEF Solo
      <4> QED
        BY <2>3, <2>6, <2>8, <3>2, <4>1 DEF SoloInv
    <3> QED
      BY <3>1, <3>2
  <2>10. ASSUME NEW p \in Plugged'
         PROVE  \E i \in Ids : Handle(i)' = p
    <3>1. PICK i \in Ids : Handle(i) = p
      BY <2>8 DEF SoloInv
    <3>2. i # target[c]
      BY <2>2, <2>8, <3>1 DEF Awaits, Plugged
    <3> QED
      BY <2>6, <3>1, <3>2
  <2>11. \A j \in todo[c] : Awaits(j)
    BY <2>1 DEF SoloInv, Creating
  <2>12. ASSUME NEW d \in Writers
         PROVE  /\ pc'[d] \in {"merged"} \cup Creating => \A j \in todo'[d] : Awaits(j)'
                /\ pc'[d] = "created" => Awaits(target[d])' /\ target'[d] \notin todo'[d]
                /\ pc'[d] = "stored" => Handle(target[d])' = handle'[d]
    <3>1. d = c
      BY DEF Solo
    <3>2. \A j \in todo[c] : j \in Ids /\ j # target[c]
      BY <2>2 DEF HandleInv, TypeOK
    <3>3. Handle(target[d])' = handle'[d]
      BY <2>1, <2>6, <3>1 DEF Handle
    <3> QED
      BY <3>1, <3>2, <3>3, <2>1, <2>6, <2>7, <2>11
  <2> QED
    BY <2>7, <2>9, <2>10, <2>12 DEF SoloInv
<1>10. ASSUME NEW c \in Writers, Arrive(c)
       PROVE  SoloInv'
  <2>1. /\ pc[c] = "stored" /\ pc' = [pc EXCEPT ![c] = "creating"]
        /\ os' = [os EXCEPT ![handle[c]].state = "arrived"]
        /\ UNCHANGED <<table, todo>>
    BY <1>10 DEF Arrive, Goto
  <2>2. /\ handle[c] \in Objects /\ target[c] \in Ids /\ Handle(target[c]) = handle[c]
        /\ os[handle[c]] = [state |-> "created", serial |-> target[c]]
    BY <2>1 DEF HandleInv, CreatorInv, SoloInv
  <2>3. Plugged' = Plugged \cup {handle[c]}
    <3>1. /\ os'[handle[c]] = [state |-> "arrived", serial |-> target[c]]
          /\ \A o \in Objects \ {handle[c]} : os'[o] = os[o]
      BY <2>1, <2>2 DEF HandleInv, TypeOK
    <3>2. os'[handle[c]] # NoMonitor
      BY <2>2, <3>1, NullAssumption DEF OsMonitor
    <3> QED
      BY <2>2, <3>1, <3>2 DEF Plugged
  <2>4. \A j : Handle(j)' = Handle(j) /\ Awaits(j)' = Awaits(j)
    BY <2>1 DEF Handle, Awaits, Present
  <2>5. /\ pc'[c] = "creating"
        /\ \A d \in Clients \ {c} : pc'[d] = "idle"
    BY <2>1 DEF Solo, SoloInv, HandleInv, TypeOK
  <2>6. \A i \in Ids : Handle(i)' # NoObject => table'[i].data.enabled /\ Handle(i)' \in Plugged'
    BY <2>1, <2>3, <2>4 DEF Solo, SoloInv
  <2>7. \A p \in Plugged' : \E i \in Ids : Handle(i)' = p
    BY <2>2, <2>3, <2>4 DEF SoloInv
  <2>8. \A j \in todo[c] : Awaits(j)
    BY <2>1 DEF SoloInv, Creating
  <2>9. ASSUME NEW d \in Writers
        PROVE  /\ pc'[d] \in {"merged"} \cup Creating => \A j \in todo'[d] : Awaits(j)'
               /\ pc'[d] = "created" => Awaits(target[d])' /\ target'[d] \notin todo'[d]
               /\ pc'[d] = "stored" => Handle(target[d])' = handle'[d]
    <3>1. d = c
      BY DEF Solo
    <3> QED
      BY <3>1, <2>1, <2>4, <2>5, <2>8
  <2> QED
    BY <2>5, <2>6, <2>7, <2>9 DEF SoloInv
<1>11. ASSUME NEW c \in Writers, ArriveFails(c)
       PROVE  SoloInv'
  BY <1>11 DEF ArriveFails, Solo
<1>12. ASSUME NEW c \in Writers, LeaveContext(c)
       PROVE  SoloInv'
  BY <1>12, SoloMoves DEF LeaveContext, Labels, handlerVars
<1>13. ASSUME NEW c \in Writers, SendSnapshot(c)
       PROVE  SoloInv'
  BY <1>13, SoloMoves DEF SendSnapshot, Labels, handlerVars
<1>14. ASSUME NEW c \in Writers, Send(c)
       PROVE  SoloInv'
  BY <1>14, SoloMoves DEF Send, Labels, handlerVars
<1>15. ASSUME UNCHANGED <<table, os, pc, todo, target, handle>>
       PROVE  SoloInv'
  <2>1. Plugged' = Plugged /\ \A j : Handle(j)' = Handle(j) /\ Awaits(j)' = Awaits(j)
    BY <1>15 DEF Plugged, Handle, Awaits, Present
  <2> QED
    BY <1>15, <2>1 DEF SoloInv
<1>16. ASSUME NEW c \in Clients, Forward(c) \/ RequestState(c)
       PROVE  SoloInv'
  BY <1>15, <1>16 DEF Forward, RequestState, handlerVars
<1>17. CASE UNCHANGED vars
  BY <1>15, <1>17 DEF vars
<1> QED
  BY <1>1, <1>2, <1>3, <1>4, <1>5, <1>6, <1>7, <1>8, <1>9, <1>10, <1>11, <1>12, <1>13,
     <1>14, <1>16, <1>17 DEF Next, Command, HandlerStep

LEMMA SoloInit == Init => SoloInv
<1> SUFFICES ASSUME Init PROVE SoloInv
  OBVIOUS
<1>1. \A i \in Ids : Handle(i) = NoObject
  BY DEF Init, Handle
<1>2. Plugged = {}
  BY DEF Init, Plugged
<1>3. \A c \in Clients : pc[c] = "idle"
  BY DEF Init
<1> QED
  BY <1>1, <1>2, <1>3, ClientAssumption DEF SoloInv, Creating

\* With one writer the invariant of a command's steps holds beside that of all handlers.
THEOREM SoloInvariant ==
  ASSUME Solo
  PROVE  Spec => [](HandleInv /\ SoloInv)
<1>1. Init => HandleInv /\ SoloInv
  BY HandleInit, SoloInit
<1>2. HandleInv /\ SoloInv /\ [Next]_vars => HandleInv' /\ SoloInv'
  <2> SUFFICES ASSUME HandleInv, SoloInv, [Next]_vars PROVE HandleInv' /\ SoloInv'
    OBVIOUS
  <2>1. HandleInv'
    BY HandleStep
  <2> QED
    BY <2>1, SoloStep
<1> QED
  BY <1>1, <1>2, PTL DEF Spec

\* With one writer, and an OS that may only refuse to create, the monitors plugged in are
\* the handles of the table whenever no handler runs, and only enabled rows have one.
THEOREM TableAlwaysMatches ==
  ASSUME Solo
  PROVE  Spec => []TableMatchesOs
<1>1. HandleInv /\ SoloInv => TableMatchesOs
  <2> SUFFICES ASSUME HandleInv, SoloInv, Quiescent
               PROVE  /\ Plugged = HandlesOf(Present)
                      /\ \A i \in Present : Handle(i) # NoObject => table[i].data.enabled
    BY DEF TableMatchesOs
  <2>1. \A i \in Ids : Handle(i) # NoObject => Handle(i) \in Plugged
    BY ClientAssumption DEF SoloInv, Quiescent
  <2>2. \A i \in Ids : Handle(i) # NoObject => i \in Present
    BY DEF Handle, Present
  <2>3. NoObject \notin Plugged
    BY ClientAssumption DEF Plugged
  <2>4. Plugged \subseteq HandlesOf(Present)
    BY <2>2, <2>3 DEF SoloInv, HandlesOf
  <2>5. HandlesOf(Present) \subseteq Plugged
    BY <2>1 DEF HandlesOf, Present
  <2> QED
    BY <2>4, <2>5 DEF SoloInv, Present
<1> QED
  BY <1>1, SoloInvariant, PTL

\* Under the same conditions a row gives up a plugged monitor only when it departs: notify,
\* remove and remove_all leave nothing behind that no row knows of.
THEOREM NoHandleEverLost ==
  ASSUME Solo
  PROVE  Spec => NoHandleLost
<1> DEFINE Lost == \E i \in Ids : /\ Handle(i) \in Plugged
                                  /\ Handle(i)' # Handle(i)
                                  /\ Handle(i) \in Plugged'
<1>1. ASSUME HandleInv, SoloInv, [Next]_vars, NEW i \in Ids,
             Handle(i) \in Plugged, Handle(i)' # Handle(i)
      PROVE  Handle(i) \notin Plugged'
  <2> USE ClientAssumption
  <2>1. Handle(i) \in Objects /\ Handle(i) # NoObject
    BY <1>1, PluggedRow
  <2>2. ASSUME NEW c \in Writers, NEW S \in SUBSET Ids, pc[c] = "idle", Depart(HandlesOf(S)),
               \A j \in Ids : Handle(j)' = IF j \in S THEN NoObject ELSE Handle(j)
        PROVE  Handle(i) \notin Plugged'
    <3>1. \A o \in Objects : o \in Plugged' <=> o \in Plugged /\ o \notin HandlesOf(S)
      BY <1>1, <2>2, SoloGivingUp DEF Creating
    <3>2. i \in S
      BY <1>1, <2>2
    <3> QED
      BY <2>1, <3>1, <3>2 DEF HandlesOf
  <2>3. ASSUME NEW c \in Writers, NEW view \in Views, NotifyMerge(c, view)
        PROVE  Handle(i) \notin Plugged'
    <3> DEFINE S == {j \in Ids : j \notin DOMAIN view \/ Detaches(j, view)}
    <3>1. \A j \in Ids : Handle(j)' = IF j \in S THEN NoObject ELSE Handle(j)
      BY <1>1, <2>3, MergedHandles DEF NotifyMerge, HandleInv
    <3>2. pc[c] = "idle" /\ Depart(HandlesOf(S)) /\ S \in SUBSET Ids
      BY <2>3 DEF NotifyMerge
    <3> HIDE DEF S
    <3> QED
      BY <2>2, <3>1, <3>2
  <2>4. ASSUME NEW c \in Writers, NEW S \in SUBSET Ids, Remove(c, S)
        PROVE  Handle(i) \notin Plugged'
    BY <2>2, <2>4, RemovedHandles DEF Remove
  <2>5. ASSUME NEW c \in Writers, RemoveAll(c)
        PROVE  Handle(i) \notin Plugged'
    <3>1. \A j \in Ids : Handle(j)' = IF j \in Ids THEN NoObject ELSE Handle(j)
      BY <2>5 DEF RemoveAll, Handle
    <3> QED
      BY <2>2, <2>5, <3>1 DEF RemoveAll
  <2>6. ASSUME NEW c \in Clients, StoreObject(c)
        PROVE  FALSE
    <3>1. c \in Writers /\ pc[c] = "created"
      BY <1>1, <2>6 DEF StoreObject, SoloInv
    <3>2. Handle(target[c]) = NoObject /\ target[c] \in Ids
      BY <1>1, <3>1 DEF SoloInv, Awaits, Present
    <3>3. table'[i] = table[i]
      BY <2>1, <2>6, <3>2 DEF StoreObject
    <3> QED
      BY <1>1, <3>3 DEF Handle
  <2>7. ASSUME UNCHANGED table
        PROVE  FALSE
    BY <1>1, <2>7 DEF Handle
  <2>8. ASSUME NEW c \in Clients, \/ HandlerStep(c) /\ ~StoreObject(c)
                                  \/ Forward(c) \/ RequestState(c)
        PROVE  UNCHANGED table
    BY <2>8 DEF HandlerStep, EnterContext, CreateMonitor, CreateMonitorFails, Arrive,
                ArriveFails, LeaveContext, SendSnapshot, Send, Forward, RequestState
  <2>9. ASSUME NEW c \in Writers, NotifyRefused(c)
        PROVE  UNCHANGED table
    BY <2>9 DEF NotifyRefused
  <2>10. UNCHANGED vars => UNCHANGED table
    BY DEF vars
  <2> QED
    BY <1>1, <2>3, <2>4, <2>5, <2>6, <2>7, <2>8, <2>9, <2>10 DEF Next, Command
<1>2. HandleInv /\ SoloInv /\ [Next]_vars => ~Lost
  BY <1>1
<1>3. ~Lost => (\A i \in Ids : Handle(i) \in Plugged /\ Handle(i)' # Handle(i)
                                  => Handle(i) \notin Plugged')
  OBVIOUS
<1>4. HandleInv /\ SoloInv /\ [Next]_vars =>
        [\A i \in Ids : Handle(i) \in Plugged /\ Handle(i)' # Handle(i)
                          => Handle(i) \notin Plugged']_vars
  BY <1>2, <1>3
<1> QED
  BY <1>4, SoloInvariant, PTL DEF Spec, NoHandleLost
-----------------------------------------------------------------------------
(* What a handler has planned, and what listeners are told *)

LEMMA RetryStep ==
  ASSUME Solo, HandleInv, SoloInv, DisconnectedIsRetried, [Next]_vars
  PROVE  DisconnectedIsRetried'
<1> USE ClientAssumption
<1> SUFFICES ASSUME NEW w \in Clients, pc'[w] = "merged",
                    NEW i \in DOMAIN outbox'[w], outbox'[w][i].enabled
             PROVE  i \in todo'[w] \/ Handle(i)' \in Plugged'
  BY DEF DisconnectedIsRetried
<1>1. ASSUME NEW c \in Writers, NEW view \in Views, NotifyMerge(c, view)
      PROVE  i \in todo'[w] \/ Handle(i)' \in Plugged'
  <2> DEFINE S == {j \in Ids : j \notin DOMAIN view \/ Detaches(j, view)}
  <2>1. /\ pc[c] = "idle" /\ table' = Merged(view) /\ Depart(HandlesOf(S))
        /\ pc' = [pc EXCEPT ![c] = "merged"]
        /\ todo' = [todo EXCEPT ![c] = Arrivals(view)]
        /\ outbox' = [outbox EXCEPT ![c] = view]
    BY <1>1 DEF NotifyMerge, Goto
  <2>2. w = c
    BY <2>1, Alone DEF HandleInv, TypeOK, Creating
  <2>3. outbox'[w] = view /\ todo'[w] = Arrivals(view)
    BY <2>1, <2>2 DEF HandleInv, TypeOK
  <2>4. i \in Ids /\ i \in DOMAIN view /\ view[i].enabled
    BY <2>3, ViewData
  <2>5. CASE i \in Arrivals(view)
    BY <2>3, <2>5
  <2>6. CASE i \notin Arrivals(view)
    <3>1. ~Detaches(i, view) /\ Handle(i) # NoObject
      BY <2>4, <2>6 DEF Arrivals, Detaches, Handle
    <3>2. \A j \in Ids : Handle(j)' = IF j \in S THEN NoObject ELSE Handle(j)
      BY <2>1, MergedHandles DEF HandleInv
    <3>3. i \notin S /\ S \in SUBSET Ids
      BY <2>4, <3>1
    <3> HIDE DEF S
    <3>4. Handle(i)' = Handle(i)
      BY <2>4, <3>2, <3>3
    <3>5. Handle(i) \in Plugged'
      BY <2>1, <2>4, <3>1, <3>2, <3>3, <3>4, SoloGivingUp DEF Creating
    <3> QED
      BY <3>4, <3>5
  <2> QED
    BY <2>5, <2>6
<1>2. ASSUME pc[w] = "merged", UNCHANGED <<table, os, todo, outbox>>
      PROVE  i \in todo'[w] \/ Handle(i)' \in Plugged'
  BY <1>2 DEF DisconnectedIsRetried, Handle, Plugged
<1>3. ASSUME NEW c \in Writers, NEW label \in Labels \ {"merged"},
             pc[c] # "merged", Goto(c, label)
      PROVE  FALSE
  <2>1. pc'[w] = IF w = c THEN label ELSE pc[w]
    BY <1>3 DEF Goto, HandleInv, TypeOK
  <2>2. w # c /\ w \in Writers
    BY <1>3, <2>1 DEF SoloInv
  <2> QED
    BY <2>2 DEF Solo
<1>4. ASSUME NEW c \in Writers, \/ NotifyRefused(c) \/ RemoveAll(c)
                                \/ \E S \in SUBSET Ids : Remove(c, S)
      PROVE  FALSE
  <2>1. pc[c] = "idle" /\ \E label \in {"send", "removed"} : Goto(c, label)
    BY <1>4 DEF NotifyRefused, RemoveAll, Remove
  <2> QED
    BY <1>3, <2>1 DEF Labels
<1>5. ASSUME NEW c \in Clients, HandlerStep(c)
      PROVE  FALSE
  <2>1. pc[c] # "idle"
    BY <1>5 DEF HandlerStep, EnterContext, CreateMonitor, CreateMonitorFails, StoreObject,
                Arrive, ArriveFails, LeaveContext, SendSnapshot, Send
  <2>2. c \in Writers
    BY <2>1 DEF SoloInv
  <2>3. w = c
    <3>1. CASE pc'[w] = pc[w]
      BY <3>1, <2>2 DEF Solo, SoloInv
    <3>2. CASE pc'[w] # pc[w]
      BY <1>5, <3>2 DEF HandlerStep, EnterContext, CreateMonitor, CreateMonitorFails,
         StoreObject, Arrive, ArriveFails, LeaveContext, SendSnapshot, Send, Goto, HandleInv, TypeOK
    <3> QED
      BY <3>1, <3>2
  <2>4. pc'[c] # "merged"
    BY <1>5 DEF HandlerStep, EnterContext, CreateMonitor, CreateMonitorFails, StoreObject,
                Arrive, ArriveFails, LeaveContext, SendSnapshot, Send, Goto, HandleInv, TypeOK
  <2> QED
    BY <2>3, <2>4
<1>6. ASSUME NEW c \in Clients, Forward(c) \/ RequestState(c)
      PROVE  pc[w] = "merged" /\ UNCHANGED <<table, os, todo, outbox>>
  BY <1>6 DEF Forward, RequestState, handlerVars
<1>7. UNCHANGED vars => pc[w] = "merged" /\ UNCHANGED <<table, os, todo, outbox>>
  BY DEF vars
<1> QED
  BY <1>1, <1>2, <1>4, <1>5, <1>6, <1>7 DEF Next, Command

\* With one writer a Notify that lists an enabled monitor which is not plugged in plans to
\* plug it in, whatever creations failed before.
THEOREM AlwaysRetried ==
  ASSUME Solo
  PROVE  Spec => []DisconnectedIsRetried
<1>1. Init => DisconnectedIsRetried
  BY DEF Init, DisconnectedIsRetried
<1>2. HandleInv /\ SoloInv /\ DisconnectedIsRetried /\ [Next]_vars => DisconnectedIsRetried'
  BY RetryStep
<1> QED
  BY <1>1, <1>2, SoloInvariant, PTL DEF Spec

\* What a running handler will send is what the table holds; when none runs, a listener has
\* it or will find it in the channel.
AgreeInv ==
  /\ \A c \in Writers : pc[c] \in {"merged", "send"} \cup Creating => outbox[c] = CurrentView
  /\ Quiescent =>
       /\ \A c \in unread : slot.from \in Writers /\ slot.view = CurrentView
       /\ \A c \in Clients \ Writers : c \in unread \/ mirror[c] = CurrentView

\* What notify declares is what the table then says.
LEMMA MergedView ==
  ASSUME TypeOK, NEW view \in Views, table' = Merged(view)
  PROVE  CurrentView' = view
<1>1. ASSUME NEW i \in Ids
      PROVE  /\ i \in DOMAIN view => table'[i] # NoEntry /\ table'[i].data = view[i]
             /\ i \notin DOMAIN view => table'[i] = NoEntry
  <2>1. CASE i \in DOMAIN view
    <3>1. table'[i] = [data   |-> view[i],
                       object |-> IF Detaches(i, view) THEN NoObject ELSE Handle(i)]
      BY <2>1 DEF Merged
    <3>2. table'[i] \in Entry
      BY <2>1, <3>1, ViewData, HandleType DEF Entry
    <3> QED
      BY <2>1, <3>1, <3>2, NullAssumption
  <2>2. CASE i \notin DOMAIN view
    BY <2>2 DEF Merged
  <2> QED
    BY <2>1, <2>2
<1>2. Present' = DOMAIN view
  BY <1>1, ViewData DEF Present
<1>3. view = [i \in DOMAIN view |-> view[i]]
  BY DEF Views
<1>4. CurrentView' = [i \in Present' |-> table'[i].data]
  BY DEF CurrentView
<1>5. \A i \in DOMAIN view : table'[i].data = view[i]
  BY <1>1, ViewData
<1> QED
  BY <1>2, <1>3, <1>4, <1>5

LEMMA EmptyView ==
  ASSUME \A i \in Ids : table[i] = NoEntry
  PROVE  CurrentView = NoView
<1>1. Present = {}
  BY DEF Present
<1> QED
  BY <1>1 DEF CurrentView, NoView

\* To store a handle changes nothing that clients are told.
LEMMA StoredView ==
  ASSUME TypeOK, CreatorInv, NEW c \in Clients, StoreObject(c)
  PROVE  CurrentView' = CurrentView
<1>1. handle[c] \in Objects
  BY DEF StoreObject, CreatorInv
<1>2. ASSUME NEW i \in Ids
      PROVE  /\ table'[i] # NoEntry <=> table[i] # NoEntry
             /\ table[i] # NoEntry => table'[i].data = table[i].data
  <2>1. CASE i = target[c] /\ i \in Present
    <3>1. table'[i] = [table[i] EXCEPT !.object = handle[c]] /\ table[i] \in Entry
      BY <2>1, RowType DEF StoreObject
    <3>2. table'[i] \in Entry /\ table'[i].data = table[i].data
      BY <1>1, <3>1 DEF Entry
    <3> QED
      BY <2>1, <3>2, NullAssumption DEF Present
  <2>2. CASE ~(i = target[c] /\ i \in Present)
    BY <2>2 DEF StoreObject
  <2> QED
    BY <2>1, <2>2
<1>3. Present' = Present
  BY <1>2 DEF Present
<1> QED
  BY <1>2, <1>3 DEF CurrentView, Present

\* The steps of a running handler before it sends: what it will send stays the table's list.
LEMMA AgreeRuns ==
  ASSUME Solo, HandleInv, SoloInv, AgreeInv, NEW c \in Writers, NEW label \in Labels \ {"idle"},
         Goto(c, label),
         label \in {"merged", "send"} \cup Creating => outbox'[c] = CurrentView'
  PROVE  AgreeInv'
<1>1. pc'[c] = label /\ c \in Clients
  BY ClientAssumption DEF Goto, HandleInv, TypeOK
<1>2. ~Quiescent'
  BY <1>1 DEF Quiescent
<1> QED
  BY <1>1, <1>2 DEF Solo, AgreeInv

LEMMA AgreeStep ==
  ASSUME Solo, ~SendsMalformed, HandleInv, SoloInv, AgreeInv, [Next]_vars
  PROVE  AgreeInv'
<1> USE ClientAssumption
<1>1. ASSUME NEW c \in Writers, NEW view \in Views, NotifyMerge(c, view)
      PROVE  AgreeInv'
  <2>1. outbox'[c] = view /\ CurrentView' = view /\ Goto(c, "merged")
    BY <1>1, MergedView DEF NotifyMerge, HandleInv, TypeOK
  <2> QED
    BY <2>1, AgreeRuns DEF Labels
<1>2. ASSUME NEW c \in Writers, NEW S \in SUBSET Ids, Remove(c, S)
      PROVE  AgreeInv'
  BY <1>2, AgreeRuns DEF Remove, Labels, Creating
<1>3. ASSUME NEW c \in Writers, RemoveAll(c)
      PROVE  AgreeInv'
  <2>1. \A i \in Ids : table'[i] = NoEntry
    BY <1>3 DEF RemoveAll
  <2>2. CurrentView' = NoView
    <3>1. Present' = {}
      BY <2>1 DEF Present
    <3> QED
      BY <3>1 DEF CurrentView, NoView
  <2>3. outbox'[c] = NoView /\ Goto(c, "send")
    BY <1>3 DEF RemoveAll, HandleInv, TypeOK
  <2> QED
    BY <2>2, <2>3, AgreeRuns DEF Labels
<1>4. ASSUME NEW c \in Clients, HandlerStep(c)
      PROVE  c \in Writers
  <2>1. pc[c] # "idle"
    BY <1>4 DEF HandlerStep, EnterContext, CreateMonitor, CreateMonitorFails, StoreObject,
                Arrive, ArriveFails, LeaveContext, SendSnapshot, Send
  <2> QED
    BY <2>1 DEF SoloInv
<1>5. ASSUME NEW c \in Writers, StoreObject(c)
      PROVE  AgreeInv'
  <2>1. CurrentView' = CurrentView
    BY <1>5, StoredView DEF HandleInv
  <2>2. outbox'[c] = CurrentView
    BY <1>5 DEF StoreObject, AgreeInv, Creating
  <2> QED
    BY <1>5, <2>1, <2>2, AgreeRuns DEF StoreObject, Labels
<1>6. ASSUME UNCHANGED table
      PROVE  CurrentView' = CurrentView
  BY <1>6 DEF CurrentView, Present
<1>7. ASSUME NEW c \in Writers,
             \/ EnterContext(c) \/ Arrive(c) \/ ArriveFails(c) \/ LeaveContext(c)
             \/ \E i \in Ids : CreateMonitor(c, i)
      PROVE  AgreeInv'
  <2>1. /\ pc[c] \in {"merged"} \cup Creating /\ UNCHANGED <<table, outbox>>
        /\ \E label \in {"creating", "created", "send"} : Goto(c, label)
    BY <1>7 DEF EnterContext, Arrive, ArriveFails, LeaveContext, CreateMonitor, Creating
  <2>2. outbox'[c] = CurrentView'
    BY <2>1, <1>6 DEF AgreeInv
  <2> QED
    BY <2>1, <2>2, AgreeRuns DEF Labels
<1>8. ASSUME NEW c \in Writers, NEW i \in Ids, CreateMonitorFails(c, i)
      PROVE  AgreeInv'
  BY <1>6, <1>8 DEF CreateMonitorFails, AgreeInv, Quiescent, channelVars
<1>9. ASSUME NEW c \in Writers, SendSnapshot(c) \/ Send(c)
      PROVE  AgreeInv'
  <2>1. /\ unread' = Clients /\ slot'.from = c /\ slot'.view = CurrentView
        /\ pc' = [pc EXCEPT ![c] = "idle"] /\ UNCHANGED table
    BY <1>9 DEF SendSnapshot, Send, Publish, Goto, AgreeInv
  <2>2. \A d \in Clients : pc'[d] = "idle"
    BY <2>1 DEF Solo, SoloInv, HandleInv, TypeOK
  <2> QED
    BY <1>6, <2>1, <2>2 DEF AgreeInv, Creating
<1>10. ASSUME NEW c \in Clients, Forward(c)
       PROVE  AgreeInv'
  <2>1. /\ c \in unread /\ unread' = unread \ {c}
        /\ mirror' = [mirror EXCEPT ![c] = IF slot.from = c THEN @ ELSE slot.view]
        /\ UNCHANGED <<table, pc, outbox, slot>>
    BY <1>10 DEF Forward
  <2>2. Quiescent' = Quiescent /\ CurrentView' = CurrentView
    BY <2>1, <1>6 DEF Quiescent
  <2>3. ASSUME Quiescent, NEW d \in Clients \ Writers
        PROVE  d \in unread' \/ mirror'[d] = CurrentView
    BY <2>1, <2>3 DEF AgreeInv, HandleInv, TypeOK
  <2> QED
    BY <2>1, <2>2, <2>3 DEF AgreeInv
<1>11. ASSUME NEW c \in Clients, RequestState(c)
       PROVE  AgreeInv'
  <2>1. /\ mirror' = [mirror EXCEPT ![c] = CurrentView]
        /\ UNCHANGED <<table, pc, outbox, slot, unread>>
    BY <1>11 DEF RequestState
  <2>2. Quiescent' = Quiescent /\ CurrentView' = CurrentView
    BY <2>1, <1>6 DEF Quiescent
  <2> QED
    BY <2>1, <2>2 DEF AgreeInv, HandleInv, TypeOK
<1>12. ASSUME UNCHANGED vars
       PROVE  AgreeInv'
  BY <1>6, <1>12 DEF vars, AgreeInv, Quiescent
<1>13. \A c \in Writers : ~NotifyRefused(c)
  BY DEF NotifyRefused
<1> QED
  BY <1>1, <1>2, <1>3, <1>4, <1>5, <1>7, <1>8, <1>9, <1>10, <1>11, <1>12, <1>13
     DEF Next, Command, HandlerStep

\* Once one writer, who sends no list that the driver refuses, is silent and everything
\* is read, any number of listeners have the driver's list.
THEOREM ListenersAlwaysAgree ==
  ASSUME Solo, ~SendsMalformed
  PROVE  Spec => []ListenersAgree
<1>1. Init => AgreeInv
  <2> SUFFICES ASSUME Init PROVE AgreeInv
    OBVIOUS
  <2>1. CurrentView = NoView
    BY EmptyView DEF Init
  <2> QED
    BY <2>1, ClientAssumption DEF Init, AgreeInv, Creating
<1>2. HandleInv /\ SoloInv /\ AgreeInv /\ [Next]_vars => AgreeInv'
  BY AgreeStep
<1>3. AgreeInv => ListenersAgree
  BY DEF AgreeInv, ListenersAgree
<1> QED
  BY <1>1, <1>2, <1>3, SoloInvariant, PTL DEF Spec
-----------------------------------------------------------------------------
(* The registry implements MonitorService *)

ShownIds == {os[o].serial : o \in Plugged}

RowsShown == \A i \in Ids : i \in ShownIds <=> Handle(i) \in Plugged

\* A plugged monitor shows the row that has its handle.
LEMMA ShownRows == HandleInv /\ SoloInv => RowsShown
<1> SUFFICES ASSUME HandleInv, SoloInv, NEW i \in Ids
             PROVE  i \in ShownIds <=> Handle(i) \in Plugged
  BY DEF RowsShown
<1>1. ASSUME i \in ShownIds PROVE Handle(i) \in Plugged
  <2>1. PICK o \in Plugged : os[o].serial = i
    BY <1>1 DEF ShownIds
  <2>2. PICK j \in Ids : Handle(j) = o
    BY <2>1 DEF SoloInv
  <2>3. j = i
    BY <2>1, <2>2, PluggedRow
  <2> QED
    BY <2>1, <2>2, <2>3
<1>2. ASSUME Handle(i) \in Plugged PROVE i \in ShownIds
  BY <1>2, PluggedRow DEF ShownIds
<1> QED
  BY <1>1, <1>2

LEMMA ViewType == HandleInv => CurrentView \in Views
BY CurrentViewIsView DEF HandleInv

LEMMA ShownType ==
  ASSUME HandleInv
  PROVE  ShownIds \subseteq Ids
BY DEF ShownIds, Plugged, HandleInv, TypeOK, OsMonitor

\* A command is a Declare of the service: what stays shown is what the list keeps.
LEMMA DeclareStep ==
  ASSUME Solo, HandleInv, HandleInv', SoloInv, SoloInv',
         NEW c \in Writers, pc[c] = "idle",
         NEW S \in SUBSET Ids, Depart(HandlesOf(S)),
         \A i \in Ids : Handle(i)' = IF i \in S THEN NoObject ELSE Handle(i),
         NEW view \in Views, CurrentView' = view,
         \A i \in Present : Handle(i) # NoObject =>
           (i \notin S <=> /\ i \in DOMAIN view
                           /\ view[i].enabled
                           /\ view[i].modes = table[i].data.modes)
  PROVE  Service!Declare(view)
<1>1. ASSUME NEW i \in Ids
      PROVE  i \in ShownIds' <=> i \in ShownIds /\ Service!Keeps(i, view)
  <2>1. i \in ShownIds' <=> Handle(i)' \in Plugged'
    <3>1. RowsShown'
      BY ShownRows, PTL
    <3> QED
      BY <3>1 DEF RowsShown
  <2>2. i \in ShownIds <=> Handle(i) \in Plugged
    BY ShownRows DEF RowsShown
  <2>3. Handle(i)' \in Plugged' <=> Handle(i) \in Plugged /\ i \notin S
    <3>1. NoObject \notin Plugged'
      BY ClientAssumption DEF Plugged
    <3>2. \A o \in Objects : o \in Plugged' <=> o \in Plugged /\ o \notin HandlesOf(S)
      BY SoloGivingUp DEF Creating
    <3>3. ASSUME Handle(i) \in Plugged, i \notin S PROVE Handle(i) \notin HandlesOf(S)
      BY <3>3, PluggedRow DEF HandlesOf
    <3>4. Plugged' \subseteq Objects
      BY DEF Plugged
    <3> QED
      BY <3>1, <3>2, <3>3, <3>4, PluggedRow
  <2>4. ASSUME Handle(i) \in Plugged
        PROVE  i \notin S <=> Service!Keeps(i, view)
    <3>1. i \in Present /\ Handle(i) # NoObject
      BY <2>4, PluggedRow DEF Handle, Present
    <3>2. CurrentView[i] = table[i].data
      BY <3>1 DEF CurrentView
    <3> QED
      BY <3>1, <3>2 DEF Service!Keeps
  <2> QED
    BY <2>1, <2>2, <2>3, <2>4
<1>2. ShownIds' \subseteq Ids /\ ShownIds \subseteq Ids
  <2>1. ShownIds' \subseteq Ids
    BY DEF ShownIds, Plugged, HandleInv, TypeOK, OsMonitor
  <2> QED
    BY <2>1, ShownType
<1>3. ShownIds' = {i \in ShownIds : Service!Keeps(i, view)}
  BY <1>1, <1>2
<1> QED
  BY <1>3 DEF Service!Declare, ShownIds

LEMMA ServiceStep ==
  ASSUME Solo, HandleInv, HandleInv', SoloInv, SoloInv', [Next]_vars
  PROVE  [Service!Next]_<<CurrentView, ShownIds>>
<1> USE ClientAssumption
<1>1. ASSUME NEW view \in Views, Service!Declare(view)
      PROVE  Service!Next
  BY <1>1 DEF Service!Next
<1>2. ASSUME NEW c \in Writers, NEW view \in Views, NotifyMerge(c, view)
      PROVE  Service!Next
  <2> DEFINE S == {j \in Ids : j \notin DOMAIN view \/ Detaches(j, view)}
  <2>1. /\ pc[c] = "idle" /\ table' = Merged(view) /\ Depart(HandlesOf(S))
    BY <1>2 DEF NotifyMerge
  <2>2. \A i \in Ids : Handle(i)' = IF i \in S THEN NoObject ELSE Handle(i)
    BY <2>1, MergedHandles DEF HandleInv
  <2>3. CurrentView' = view
    BY <2>1, MergedView DEF HandleInv
  <2>4. ASSUME NEW i \in Present
        PROVE  i \notin S <=> /\ i \in DOMAIN view
                              /\ view[i].enabled
                              /\ view[i].modes = table[i].data.modes
    <3>1. i \in Ids /\ table[i] # NoEntry
      BY DEF Present
    <3>2. i \in DOMAIN view => view[i].enabled \in BOOLEAN
      BY ViewData DEF Data
    <3> QED
      BY <3>1, <3>2 DEF Detaches
  <2>5. S \in SUBSET Ids
    OBVIOUS
  <2> HIDE DEF S
  <2> QED
    BY <2>1, <2>2, <2>3, <2>4, <2>5, <1>1, DeclareStep
<1>3. ASSUME NEW c \in Writers, NEW S \in SUBSET Ids, pc[c] = "idle", Depart(HandlesOf(S)),
             table' = [i \in Ids |-> IF i \in S THEN NoEntry ELSE table[i]]
      PROVE  Service!Next
  <2>1. \A i \in Ids : Handle(i)' = IF i \in S THEN NoObject ELSE Handle(i)
    BY <1>3, RemovedHandles
  <2>2. Present' = Present \ S
    BY <1>3 DEF Present
  <2>3. CurrentView' = [i \in Present \ S |-> table[i].data]
    <3>1. \A i \in Present \ S : table'[i].data = table[i].data
      BY <1>3 DEF Present
    <3> QED
      BY <2>2, <3>1 DEF CurrentView
  <2>4. (CurrentView \in Views)'
    BY ViewType, PTL
  <2>5. ASSUME NEW i \in Present, Handle(i) # NoObject
        PROVE  i \notin S <=> /\ i \in DOMAIN CurrentView'
                              /\ CurrentView'[i].enabled
                              /\ CurrentView'[i].modes = table[i].data.modes
    <3>1. table[i].data.enabled
      BY <2>5 DEF SoloInv, Present
    <3> QED
      BY <2>3, <3>1
  <2>6. PICK view \in Views : CurrentView' = view
    BY <2>4
  <2>7. \A i \in Present : Handle(i) # NoObject =>
          (i \notin S <=> /\ i \in DOMAIN view
                          /\ view[i].enabled
                          /\ view[i].modes = table[i].data.modes)
    BY <2>5, <2>6
  <2>8. Service!Declare(view)
    BY <1>3, <2>1, <2>6, <2>7, DeclareStep
  <2> QED
    BY <1>1, <2>8
<1>4. ASSUME NEW c \in Writers, NEW S \in SUBSET Ids, Remove(c, S)
      PROVE  Service!Next
  BY <1>3, <1>4 DEF Remove
<1>5. ASSUME NEW c \in Writers, RemoveAll(c)
      PROVE  Service!Next
  <2>1. table' = [i \in Ids |-> IF i \in Ids THEN NoEntry ELSE table[i]]
    BY <1>5 DEF RemoveAll
  <2> QED
    BY <1>3, <1>5, <2>1 DEF RemoveAll
<1>6. ASSUME NEW c \in Clients, Arrive(c)
      PROVE  Service!Next
  <2>1. /\ pc[c] = "stored" /\ os' = [os EXCEPT ![handle[c]].state = "arrived"]
        /\ UNCHANGED table
    BY <1>6 DEF Arrive
  <2>2. c \in Writers
    BY <2>1 DEF SoloInv
  <2>3. /\ handle[c] \in Objects /\ target[c] \in Ids /\ Handle(target[c]) = handle[c]
        /\ os[handle[c]] = [state |-> "created", serial |-> target[c]]
    BY <2>1, <2>2 DEF HandleInv, CreatorInv, SoloInv
  <2>4. /\ os'[handle[c]] = [state |-> "arrived", serial |-> target[c]]
        /\ \A o \in Objects \ {handle[c]} : os'[o] = os[o]
    BY <2>1, <2>3 DEF HandleInv, TypeOK
  <2>5. os'[handle[c]] # NoMonitor
    BY <2>3, <2>4, NullAssumption DEF OsMonitor
  <2>6. Plugged' = Plugged \cup {handle[c]} /\ handle[c] \notin Plugged
    BY <2>3, <2>4, <2>5 DEF Plugged
  <2>7. ShownIds' = ShownIds \cup {target[c]}
    BY <2>3, <2>4, <2>6 DEF ShownIds, Plugged
  <2>8. target[c] \notin ShownIds
    BY <2>3, <2>6, ShownRows DEF RowsShown
  <2>9. CurrentView' = CurrentView
    BY <2>1 DEF CurrentView, Present
  <2>10. target[c] \in DOMAIN CurrentView /\ CurrentView[target[c]].enabled
    <3>1. target[c] \in Present /\ table[target[c]].data.enabled
      BY <2>3 DEF Present, Handle, SoloInv
    <3> QED
      BY <3>1 DEF CurrentView
  <2> QED
    BY <2>3, <2>7, <2>8, <2>9, <2>10 DEF Service!Next, Service!Show, ShownIds
<1>7. ASSUME NEW c \in Clients, NEW i \in Ids, CreateMonitor(c, i)
      PROVE  UNCHANGED <<CurrentView, ShownIds>>
  <2>1. PICK o \in Objects :
          /\ os[o] = NoMonitor
          /\ os' = [os EXCEPT ![o] = [state |-> "created", serial |-> i]]
    BY <1>7 DEF CreateMonitor
  <2>2. /\ Plugged' = Plugged /\ \A p \in Plugged : os'[p] = os[p]
    BY <2>1 DEF Plugged, HandleInv, TypeOK
  <2>3. ShownIds' = ShownIds
    BY <2>2 DEF ShownIds
  <2> QED
    BY <1>7, <2>3 DEF CreateMonitor, CurrentView, Present
<1>8. ASSUME NEW c \in Clients, StoreObject(c)
      PROVE  UNCHANGED <<CurrentView, ShownIds>>
  BY <1>8, StoredView DEF StoreObject, ShownIds, Plugged, HandleInv
<1>9. ASSUME UNCHANGED <<table, os>>
      PROVE  UNCHANGED <<CurrentView, ShownIds>>
  BY <1>9 DEF CurrentView, Present, ShownIds, Plugged
<1>10. ASSUME NEW c \in Clients,
              \/ EnterContext(c) \/ ArriveFails(c) \/ LeaveContext(c) \/ SendSnapshot(c)
              \/ Send(c) \/ Forward(c) \/ RequestState(c) \/ NotifyRefused(c)
              \/ \E i \in Ids : CreateMonitorFails(c, i)
       PROVE  UNCHANGED <<table, os>>
  BY <1>10 DEF EnterContext, ArriveFails, LeaveContext, SendSnapshot, Send, Forward,
               RequestState, NotifyRefused, CreateMonitorFails
<1>11. UNCHANGED vars => UNCHANGED <<table, os>>
  BY DEF vars
<1> QED
  BY <1>2, <1>4, <1>5, <1>6, <1>7, <1>8, <1>9, <1>10, <1>11 DEF Next, Command, HandlerStep

\* With one writer and creation the only failure, the registry does what MonitorService
\* promises: what is shown is declared and enabled, and stays while its modes do.
THEOREM RegistryImplementsService ==
  ASSUME Solo
  PROVE  Spec => ImplementsService
<1>1. Init => Service!Init
  <2> SUFFICES ASSUME Init PROVE Service!Init
    OBVIOUS
  <2>1. CurrentView = NoView
    BY EmptyView DEF Init
  <2>2. Plugged = {}
    BY DEF Init, Plugged
  <2> QED
    BY <2>1, <2>2, NoViewIsView DEF Service!Init, NoView
<1>2. HandleInv /\ HandleInv' /\ SoloInv /\ SoloInv' /\ [Next]_vars
        => [Service!Next]_<<CurrentView, ShownIds>>
  BY ServiceStep
<1> QED
  BY <1>1, <1>2, SoloInvariant, PTL DEF Spec, ImplementsService, Service!Spec, ShownIds
-----------------------------------------------------------------------------
(* ModeReport: what the system learns of the modes *)

\* What the system knows, or was told a moment ago, it knows of a monitor that is plugged in.
Informed ==
  /\ known \in [Objects -> [Kinds -> ModeLists \cup {Unknown}]]
  /\ \A o \in Objects, kind \in Kinds : known[o][kind] # Unknown => o \in Plugged
  /\ query # NoQuery => query \in [object : Plugged, kind : Kinds, count : Nat]

\* The count of a target query still fits the row that has the handle, if one has.
CountFits ==
  query # NoQuery /\ query.kind = "target" =>
    \A i \in Ids : Handle(i) = query.object => query.count = ModeCount[table[i].data.modes]

ReportInv == Informed /\ CountFits /\ KnownIsCurrent /\ TargetFilled

\* A row that keeps its handle keeps its modes, and the handle that is stored in a row is of a
\* monitor that has not arrived.
RowMoves ==
  \A i \in Ids : Handle(i)' # NoObject =>
    \/ Handle(i)' = Handle(i) /\ table'[i].data.modes = table[i].data.modes
    \/ Handle(i)' \in Objects \ Plugged

\* A monitor that is plugged in stays so until it departs.
OsMoves == \A o \in Plugged : os'[o] = NoMonitor \/ os'[o] = os[o]

LEMMA MergeMovesRows ==
  ASSUME TypeOK, NEW view \in Views, table' = Merged(view)
  PROVE  RowMoves
<1> SUFFICES ASSUME NEW i \in Ids, Handle(i)' # NoObject
             PROVE  Handle(i)' = Handle(i) /\ table'[i].data.modes = table[i].data.modes
  BY DEF RowMoves
<1>1. i \in DOMAIN view /\ ~Detaches(i, view) /\ Handle(i)' = Handle(i)
  BY MergedHandles
<1>2. table'[i].data = view[i]
  BY <1>1 DEF Merged
<1>3. table[i] # NoEntry
  BY <1>1 DEF Handle
<1> QED
  BY <1>1, <1>2, <1>3 DEF Detaches

\* What create_monitor has in hand has not arrived.
LEMMA HeldIsUnplugged ==
  ASSUME HandleInv, NEW c \in Clients, pc[c] \in {"created", "stored"}
  PROVE  handle[c] \in Objects \ Plugged
<1>1. /\ handle[c] \in Objects
      /\ os[handle[c]] = [state |-> "created", serial |-> target[c]]
  BY DEF HandleInv, CreatorInv
<1> QED
  BY <1>1 DEF Plugged

LEMMA RowsMove ==
  ASSUME HandleInv, [Next]_vars
  PROVE  RowMoves /\ OsMoves
<1>1. ASSUME NEW S, Depart(S) PROVE OsMoves
  BY <1>1, DepartType DEF HandleInv, OsMoves, Plugged
<1>2. ASSUME NEW S \in SUBSET Ids,
             table' = [i \in Ids |-> IF i \in S THEN NoEntry ELSE table[i]]
      PROVE  RowMoves
  <2> SUFFICES ASSUME NEW i \in Ids, Handle(i)' # NoObject
               PROVE  Handle(i)' = Handle(i) /\ table'[i].data.modes = table[i].data.modes
    BY DEF RowMoves
  <2>1. i \notin S /\ Handle(i)' = Handle(i)
    BY <1>2, RemovedHandles
  <2> QED
    BY <1>2, <2>1
<1>3. ASSUME UNCHANGED table PROVE RowMoves
  BY <1>3 DEF RowMoves, Handle
<1>4. ASSUME UNCHANGED os PROVE OsMoves
  BY <1>4 DEF OsMoves
<1>5. ASSUME NEW c \in Writers, NEW view \in Views, NotifyMerge(c, view)
      PROVE  RowMoves /\ OsMoves
  BY <1>1, <1>5, MergeMovesRows DEF NotifyMerge, HandleInv
<1>6. ASSUME NEW c \in Writers, NEW S \in SUBSET Ids, Remove(c, S)
      PROVE  RowMoves /\ OsMoves
  BY <1>1, <1>2, <1>6 DEF Remove
<1>7. ASSUME NEW c \in Writers, RemoveAll(c)
      PROVE  RowMoves /\ OsMoves
  <2>1. table' = [i \in Ids |-> IF i \in Ids THEN NoEntry ELSE table[i]]
    BY <1>7 DEF RemoveAll
  <2> QED
    BY <1>1, <1>2, <1>7, <2>1 DEF RemoveAll
<1>8. ASSUME NEW c \in Clients, NEW i \in Ids, CreateMonitor(c, i)
      PROVE  RowMoves /\ OsMoves
  <2>1. PICK o \in Objects :
          /\ os[o] = NoMonitor
          /\ os' = [os EXCEPT ![o] = [state |-> "created", serial |-> i]]
    BY <1>8 DEF CreateMonitor
  <2>2. OsMoves
    BY <2>1 DEF OsMoves, Plugged, HandleInv, TypeOK
  <2> QED
    BY <1>3, <1>8, <2>2 DEF CreateMonitor
<1>9. ASSUME NEW c \in Clients, Arrive(c)
      PROVE  RowMoves /\ OsMoves
  <2>1. handle[c] \notin Plugged
    BY <1>9, HeldIsUnplugged DEF Arrive
  <2>2. OsMoves
    BY <1>9, <2>1 DEF Arrive, OsMoves, Plugged, HandleInv, TypeOK
  <2> QED
    BY <1>3, <1>9, <2>2 DEF Arrive
<1>10. ASSUME NEW c \in Clients, StoreObject(c)
       PROVE  RowMoves /\ OsMoves
  <2>1. handle[c] \in Objects \ Plugged
    BY <1>10, HeldIsUnplugged DEF StoreObject
  <2>2. ASSUME NEW i \in Ids, Handle(i)' # NoObject
        PROVE  \/ Handle(i)' = Handle(i) /\ table'[i].data.modes = table[i].data.modes
               \/ Handle(i)' \in Objects \ Plugged
    <3>1. CASE i = target[c] /\ i \in Present
      <4>1. table'[i] = [table[i] EXCEPT !.object = handle[c]]
        BY <1>10, <3>1 DEF StoreObject
      <4>2. table'[i] \in Entry /\ table'[i].object = handle[c]
        BY <2>1, <3>1, <4>1, RowType DEF Entry, HandleInv
      <4> QED
        BY <2>1, <4>2, NullAssumption DEF Handle
    <3>2. CASE ~(i = target[c] /\ i \in Present)
      BY <1>10, <3>2 DEF StoreObject, Handle
    <3> QED
      BY <3>1, <3>2
  <2> QED
    BY <1>4, <1>10, <2>2 DEF RowMoves, StoreObject
<1>11. ASSUME NEW c \in Clients,
              \/ EnterContext(c) \/ ArriveFails(c) \/ LeaveContext(c) \/ SendSnapshot(c)
              \/ Send(c) \/ Forward(c) \/ RequestState(c) \/ NotifyRefused(c)
              \/ \E i \in Ids : CreateMonitorFails(c, i)
       PROVE  RowMoves /\ OsMoves
  BY <1>3, <1>4, <1>11 DEF EnterContext, ArriveFails, LeaveContext, SendSnapshot, Send, Forward,
                           RequestState, NotifyRefused, CreateMonitorFails
<1>12. CASE UNCHANGED vars
  BY <1>3, <1>4, <1>12 DEF vars
<1> QED
  BY <1>5, <1>6, <1>7, <1>8, <1>9, <1>10, <1>11, <1>12, ClientAssumption
     DEF Next, Command, HandlerStep

\* A handler's step: what the system knows of a monitor goes with it, and of the others it
\* stays true.
LEMMA ForgetStep ==
  ASSUME HandleInv, HandleInv', ReportInv, Next, Forget
  PROVE  ReportInv'
<1>1. RowMoves /\ OsMoves
  BY RowsMove
<1>2. \A o \in Plugged : os'[o] = NoMonitor \/ o \in Plugged'
  BY <1>1 DEF OsMoves, Plugged
<1>3. \A o \in Objects, kind \in Kinds :
        known'[o][kind] # Unknown => o \in Plugged /\ known' [o] = known[o] /\ o \in Plugged'
  BY <1>2 DEF Forget, ReportInv, Informed, Unheard
<1>4. query' # NoQuery => query' = query /\ query.object \in Plugged /\ query.object \in Plugged'
  BY <1>2 DEF Forget, ReportInv, Informed
<1>5. Informed'
  <2>1. known' \in [Objects -> [Kinds -> ModeLists \cup {Unknown}]]
    BY DEF Forget, ReportInv, Informed, Unheard
  <2>2. query' # NoQuery => query' \in [object : Plugged', kind : Kinds, count : Nat]
    BY <1>4 DEF ReportInv, Informed
  <2> QED
    BY <1>3, <2>1, <2>2 DEF Informed
<1>6. CountFits'
  <2> SUFFICES ASSUME query' # NoQuery, query'.kind = "target",
                      NEW i \in Ids, Handle(i)' = query'.object
               PROVE  query'.count = ModeCount[table'[i].data.modes]
    BY DEF CountFits
  <2>1. Handle(i)' = Handle(i) /\ table'[i].data.modes = table[i].data.modes
    BY <1>1, <1>4, ClientAssumption DEF RowMoves, Plugged
  <2> QED
    BY <1>4, <2>1 DEF ReportInv, CountFits
<1>7. KnownIsCurrent'
  <2> SUFFICES ASSUME NEW i \in Ids, NEW kind \in Kinds, Handle(i)' # NoObject,
                      known'[Handle(i)'][kind] # Unknown
               PROVE  known'[Handle(i)'][kind] = table'[i].data.modes
    BY DEF KnownIsCurrent
  <2>1. Handle(i)' \in Objects
    <3>1. (Handle(i) \in Objects \cup {NoObject})'
      BY HandleType, PTL DEF HandleInv
    <3> QED
      BY <3>1
  <2>2. Handle(i)' \in Plugged /\ known'[Handle(i)'] = known[Handle(i)']
    BY <1>3, <2>1
  <2>3. Handle(i)' = Handle(i) /\ table'[i].data.modes = table[i].data.modes
    BY <1>1, <2>2 DEF RowMoves
  <2> QED
    BY <2>2, <2>3 DEF ReportInv, KnownIsCurrent
<1>8. TargetFilled'
  BY DEF Forget, ReportInv, TargetFilled
<1> QED
  BY <1>5, <1>6, <1>7, <1>8 DEF ReportInv

\* A callback's answer: either way of looking the row up finds the row that has the handle.
LEMMA QueryStep ==
  ASSUME HandleInv, ReportInv, Query
  PROVE  ReportInv' /\ UNCHANGED vars
<1>1. UNCHANGED vars
  BY DEF Query, Fill, TooSmall, RowGone, AskCount
<1>2. /\ Plugged' = Plugged /\ UNCHANGED table /\ \A i \in Ids : Handle(i)' = Handle(i)
  BY <1>1 DEF vars, Plugged, Handle
<1>3. ASSUME NEW o \in Objects, NEW kind \in Kinds, NEW i \in Rows(o, kind), NEW j \in Ids,
             Handle(j) = o
      PROVE  i = j
  BY <1>3, ClientAssumption DEF Rows, RowBySerial, RowByHandle, HandleInv, HandlesFaithful, Present
<1>4. ASSUME NEW o \in Objects, NEW kind \in Kinds, NEW i \in Rows(o, kind)
      PROVE  i \in Ids /\ table[i].data.modes \in ModeLists
  <2>1. i \in Present
    BY <1>4 DEF Rows, RowBySerial, RowByHandle
  <2> QED
    BY <2>1, RowType DEF HandleInv, Entry, Data, Present
<1>5. query # NoQuery => query.object \in Plugged /\ query.object \in Objects
                         /\ query.kind \in Kinds /\ query.count \in Nat
  BY DEF ReportInv, Informed, Plugged
<1>6. ASSUME NEW o \in Objects, NEW kind \in Kinds, AskCount(o, kind)
      PROVE  ReportInv'
  <2>1. PICK i \in Rows(o, kind) :
          query' = [object |-> o, kind |-> kind, count |-> ModeCount[table[i].data.modes]]
    BY <1>6 DEF AskCount
  <2>2. o \in Plugged /\ UNCHANGED <<known, short>>
    BY <1>6 DEF AskCount, Plugged
  <2>3. ModeCount[table[i].data.modes] \in Nat
    BY <1>4, ModeCountAssumption
  <2>4. Informed'
    BY <1>2, <2>1, <2>2, <2>3 DEF ReportInv, Informed
  <2>5. CountFits'
    BY <1>2, <1>3, <2>1 DEF CountFits
  <2>6. KnownIsCurrent' /\ TargetFilled'
    BY <1>2, <2>2 DEF ReportInv, KnownIsCurrent, TargetFilled
  <2> QED
    BY <2>4, <2>5, <2>6 DEF ReportInv
<1>7. ASSUME Fill
      PROVE  ReportInv'
  <2>1. query # NoQuery /\ query' = NoQuery /\ UNCHANGED short
    BY <1>7 DEF Fill, Answered
  <2>2. PICK i \in Rows(query.object, query.kind) :
          known' = [known EXCEPT ![query.object][query.kind] = table[i].data.modes]
    BY <1>7 DEF Fill, Row
  <2>3. table[i].data.modes \in ModeLists
    BY <1>4, <1>5, <2>1
  <2>4. Informed'
    BY <1>2, <1>5, <2>1, <2>2, <2>3 DEF ReportInv, Informed
  <2>5. KnownIsCurrent'
    <3> SUFFICES ASSUME NEW j \in Ids, NEW kind \in Kinds, Handle(j) # NoObject,
                        known'[Handle(j)][kind] # Unknown
                 PROVE  known'[Handle(j)][kind] = table[j].data.modes
      BY <1>2 DEF KnownIsCurrent
    <3>1. Handle(j) \in Objects
      BY HandleType DEF HandleInv
    <3>2. CASE Handle(j) = query.object /\ kind = query.kind
      <4>1. known'[Handle(j)][kind] = table[i].data.modes
        BY <1>5, <2>1, <2>2, <3>2 DEF ReportInv, Informed
      <4> QED
        BY <1>3, <1>5, <2>1, <3>2, <4>1
    <3>3. CASE ~(Handle(j) = query.object /\ kind = query.kind)
      <4>1. known'[Handle(j)][kind] = known[Handle(j)][kind]
        BY <1>5, <2>1, <2>2, <3>1, <3>3 DEF ReportInv, Informed
      <4> QED
        BY <4>1 DEF ReportInv, KnownIsCurrent
    <3> QED
      BY <3>2, <3>3
  <2> QED
    BY <2>1, <2>4, <2>5 DEF ReportInv, CountFits, TargetFilled
<1>8. ASSUME TooSmall
      PROVE  ReportInv'
  <2>1. query # NoQuery /\ query' = NoQuery /\ UNCHANGED known
    BY <1>8 DEF TooSmall, Answered
  <2>2. PICK i \in Rows(query.object, query.kind) :
          /\ ModeCount[table[i].data.modes] > query.count
          /\ short' = (short \/ query.kind = "target")
    BY <1>8 DEF TooSmall, Row
  <2>3. query.kind # "target"
    <3>1. ASSUME query.kind = "target" PROVE FALSE
      <4>1. i \in Ids /\ Handle(i) = query.object
        BY <2>2, <3>1 DEF Rows, RowByHandle, Present
      <4>2. query.count = ModeCount[table[i].data.modes]
        BY <2>1, <3>1, <4>1 DEF ReportInv, CountFits
      <4> QED
        BY <1>5, <2>1, <2>2, <4>2
    <3> QED
      BY <3>1
  <2>4. TargetFilled'
    BY <2>2, <2>3 DEF ReportInv, TargetFilled
  <2> QED
    BY <1>2, <2>1, <2>4 DEF ReportInv, Informed, CountFits, KnownIsCurrent
<1>9. ASSUME RowGone
      PROVE  ReportInv'
  BY <1>2, <1>9 DEF RowGone, Answered, ReportInv, Informed, CountFits, KnownIsCurrent, TargetFilled
<1> QED
  BY <1>1, <1>6, <1>7, <1>8, <1>9 DEF Query

LEMMA ReportStarts == ReportInit => HandleInv /\ ReportInv
<1> SUFFICES ASSUME ReportInit PROVE ReportInv
  BY HandleInit DEF ReportInit
<1>1. /\ query = NoQuery /\ known = [o \in Objects |-> Unheard] /\ short = FALSE
  BY DEF ReportInit
<1> QED
  BY <1>1 DEF ReportInv, Informed, Unheard, CountFits, KnownIsCurrent, TargetFilled, Init, Handle,
              ReportInit

\* The two invariants together, for any number of writers and every failure of the system.
THEOREM ReportInvariant == ReportSpec => [](HandleInv /\ ReportInv)
<1>1. HandleInv /\ ReportInv /\ [ReportNext]_<<vars, reportVars>> => (HandleInv /\ ReportInv)'
  <2> SUFFICES ASSUME HandleInv, ReportInv, [ReportNext]_<<vars, reportVars>>
               PROVE  HandleInv' /\ ReportInv'
    OBVIOUS
  <2>1. CASE Next /\ Forget
    BY <2>1, HandleStep, ForgetStep
  <2>2. CASE Query
    BY <2>2, HandleStep, QueryStep
  <2>3. CASE UNCHANGED <<vars, reportVars>>
    <3>1. HandleInv'
      BY <2>3, HandleStep
    <3>2. UNCHANGED <<table, os, query, known, short>>
      BY <2>3 DEF vars, reportVars
    <3> QED
      BY <3>1, <3>2 DEF ReportInv, Informed, CountFits, KnownIsCurrent, TargetFilled, Handle, Plugged
  <2> QED
    BY <2>1, <2>2, <2>3 DEF ReportNext
<1> QED
  BY <1>1, ReportStarts, PTL DEF ReportSpec

\* Whatever the interleaving of handlers and callbacks, and whatever fails, what the system was
\* told of a monitor that a row holds is what that row holds.
THEOREM KnownAlwaysCurrent == ReportSpec => []KnownIsCurrent
<1>1. ReportInv => KnownIsCurrent
  BY DEF ReportInv
<1> QED
  BY <1>1, ReportInvariant, PTL

\* A target query never reports success over a buffer it left unfilled: the count the system
\* was told of a row with a handle still is the row's when the buffer comes.
THEOREM TargetAlwaysFilled == ReportSpec => []TargetFilled
<1>1. ReportInv => TargetFilled
  BY DEF ReportInv
<1> QED
  BY <1>1, ReportInvariant, PTL
-----------------------------------------------------------------------------
(* MonitorDescription *)

\* The bytes of a monitor's EDID add up to a multiple of 256, whatever its serial number; the
\* comment "this wont ever truncate" is wrong about a sum that already is one, and harmlessly so.
THEOREM ChecksumCloses ==
  ASSUME NEW sum \in Nat
  PROVE  Checksum(sum) \in Byte /\ (sum + Checksum(sum)) % 256 = 0
<1>1. CASE sum % 256 = 0
  BY <1>1 DEF Checksum, Byte
<1>2. CASE sum % 256 # 0
  <2>1. Checksum(sum) = 256 - (sum % 256) /\ sum % 256 \in 1 .. 255
    BY <1>2 DEF Checksum
  <2>2. (sum + (256 - (sum % 256))) % 256 = 0
    OBVIOUS
  <2> QED
    BY <2>1, <2>2 DEF Byte
<1> QED
  BY <1>1, <1>2

\* The id that create_monitor puts into the EDID is the one parse_monitor_description reads from
\* it, for every id and whatever the rest of the EDID is: the row it finds is the right one.
THEOREM SerialSurvives ==
  ASSUME NEW template, NEW serial \in U32, NEW sum
  PROVE  GetSerial(GenerateWith(template, serial, sum)) = serial
<1> DEFINE edid == GenerateWith(template, serial, sum)
<1>1. /\ edid[12] = serial % 256
      /\ edid[13] = (serial \div 256) % 256
      /\ edid[14] = (serial \div 65536) % 256
      /\ edid[15] = (serial \div 16777216) % 256
  BY SMT DEF GenerateWith, Places, SerialBytes
<1> HIDE DEF edid
<1>2. (serial % 256) + 256 * ((serial \div 256) % 256) + 65536 * ((serial \div 65536) % 256)
        + 16777216 * ((serial \div 16777216) % 256) = serial
  <2>1. serial \in Nat /\ serial < 4294967296
    BY SMT DEF U32, Limit
  <2> DEFINE q1 == serial \div 256
             q2 == q1 \div 256
             q3 == q2 \div 256
  <2>2. q1 \in Nat /\ serial = 256 * q1 + (serial % 256) /\ q1 < 16777216
    BY <2>1, SMT
  <2>3. serial \div 65536 = q2 /\ serial \div 16777216 = q3
    BY <2>1, SMT
  <2> HIDE DEF q1
  <2>4. q2 \in Nat /\ q1 = 256 * q2 + (q1 % 256) /\ q2 < 65536
    BY <2>2, SMT
  <2> HIDE DEF q2
  <2>5. q3 \in Nat /\ q2 = 256 * q3 + (q2 % 256) /\ q3 % 256 = q3
    BY <2>4, SMT
  <2> HIDE DEF q3
  <2>6. (serial \div 256) % 256 = q1 % 256
    BY DEF q1
  <2> QED
    BY <2>1, <2>2, <2>3, <2>4, <2>5, <2>6, SMT
<1> QED
  BY <1>1, <1>2, SMT DEF GetSerial, edid

\* As long as the clock fits into 32 bits, a mode of at least 28 lines has the same size and the
\* same whole number of frames a second in both descriptions: the intersection keeps it.
THEOREM DescriptionsAgree ==
  ASSUME NEW height \in U32, NEW rate \in U32 \ {0}, height >= 28,
         ExactClock(height, rate) < Limit
  PROVE  Truncated(MonitorVSync(height, rate)) = Truncated(TargetVSync(rate))
<1> DEFINE lines == height + 4
           square == lines * lines
<1>1. lines \in Nat /\ lines >= 32 /\ rate \in Nat /\ rate >= 1
  BY SMT DEF U32
<1>2. square \in Nat /\ square >= 1024
  <2> HIDE DEF lines
  <2> QED
    BY <1>1, SMT
<1>3. rate * square \in Nat /\ square <= rate * square
  <2> HIDE DEF square
  <2> DEFINE d == rate - 1
  <2>1. rate = d + 1 /\ d \in Nat
    BY <1>1, SMT
  <2> HIDE DEF d
  <2>2. rate * square = d * square + square /\ d * square \in Nat
    BY <1>2, <2>1, SMT
  <2> QED
    BY <1>2, <2>2, SMT
<1>4. rate * square + 1000 < Limit
  BY SMT DEF ExactClock
<1>5. Wrap(rate * square + 1000) = rate * square + 1000 /\ Wrap(square) = square
  <2> DEFINE n == rate * square
  <2>1. n \in Nat /\ n + 1000 < Limit /\ square <= n /\ square \in Nat
    BY <1>2, <1>3, <1>4
  <2> HIDE DEF n, square
  <2>2. Wrap(n + 1000) = n + 1000 /\ Wrap(square) = square
    BY <2>1, SMT DEF Wrap, Limit
  <2> QED
    BY <2>2 DEF n
<1>6. (rate * square + 1000) \div square = rate
  <2> HIDE DEF square
  <2> QED
    BY <1>1, <1>2, <1>3, SMT
<1>7. Truncated(MonitorVSync(height, rate)) = rate
  BY <1>5, <1>6 DEF Truncated, MonitorVSync, ClockRate, ExactClock
<1>8. Truncated(TargetVSync(rate)) = rate
  BY <1>1, SMT DEF Truncated, TargetVSync
<1> QED
  BY <1>7, <1>8


\* At the 4320 lines of 8K and 240 frames a second it does not: the system is told of another
\* rate than the monitor was declared with, or, in a debug build, the callback panics with
\* MONITOR_MODES locked and poisons it.
THEOREM ClockWraps ==
  /\ ExactClock(4320, 240) >= Limit
  /\ Truncated(MonitorVSync(4320, 240)) # Truncated(TargetVSync(240))
<1>1. ExactClock(4320, 240) = 4487275240 /\ (4320 + 4) * (4320 + 4) = 18696976
  BY SMT DEF ExactClock
<1>2. Wrap(4487275240) = 192307944 /\ Wrap(18696976) = 18696976
  BY SMT DEF Wrap, Limit
<1>3. Truncated(MonitorVSync(4320, 240)) = 192307944 \div 18696976
  BY <1>1, <1>2 DEF Truncated, MonitorVSync, ClockRate
<1> QED
  BY <1>1, <1>3, SMT DEF Limit, Truncated, TargetVSync
=============================================================================
