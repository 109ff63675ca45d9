------------------------------ MODULE Editing ------------------------------
(***************************************************************************)
(* Programs that edit the list of monitors through DriverClient, of        *)
(* rust/driver-ipc/src/driver_client.rs: each program holds a copy of the  *)
(* list, changes it with the operations of DriverClient, and notify()      *)
(* sends the whole copy to the driver; refresh_state() replaces the copy   *)
(* by what the driver last told this program.                              *)
(*                                                                         *)
(* A text, be it a monitor's name or a query, is a number: one that is in  *)
(* Ids is the text which parses to that id.  The driver and its broadcast  *)
(* are those of MonitorRegistry, reduced to the list of the monitors, and  *)
(* the pipes to it: a list is applied when its program notifies.           *)
(***************************************************************************)
EXTENDS Integers, Sequences, FiniteSets, FiniteSetsExt

CONSTANTS
  Programs,    \* the programs with a DriverClient
  Editors,     \* those that edit their copy and notify the driver
  Ids,         \* monitor identifiers
  Names,       \* names of monitors
  Offered,     \* the monitors a caller may give, proper or not
  Given,       \* the lists a caller may give to set_monitors
  NewModes,    \* the modes a caller may give to add_mode
  Sizes,       \* the resolutions of modes
  Rates,       \* refresh rates
  Start,       \* the list the driver and the programs begin with
  MaxEdits,    \* bound: calls that may edit a copy
  NoName, NoId

ASSUME EditingAssumption ==
  /\ Editors \subseteq Programs
  /\ Ids \subseteq Nat /\ Names \subseteq Nat
  /\ Rates \subseteq Nat /\ IsFiniteSet(Rates) /\ IsFiniteSet(Sizes)   \* of u32
  /\ NoName \notin Nat /\ NoId \notin Nat
  /\ MaxEdits \in Nat

Queries  == Ids \cup Names
Mode     == [size : Sizes, rates : Seq(Rates)]
Monitor  == [id : Ids, name : Names \cup {NoName}, enabled : BOOLEAN, modes : Seq(Mode)]
Lists    == Seq(Monitor)

ASSUME InputAssumption ==
  /\ Start \in Lists
  /\ Given \subseteq Lists
  /\ Offered \subseteq Monitor
  /\ NewModes \subseteq Mode

VARIABLES
  driver,    \* the driver's list, MONITOR_MODES
  pending,   \* the lists it has dealt with and not broadcast yet, as Broadcasts
  slot,      \* its broadcast channel: one value, the last broadcast
  unread,    \* the programs whose server task has not received that value
  list,      \* DriverClient.state
  watched,   \* DriverClient.state_rx
  edits,     \* how many calls there were
  last,      \* the last call: the ids it was about, and whether it succeeded
  letIn      \* has a call put duplicates into a copy?

vars == <<driver, pending, slot, unread, list, watched, edits, last, letIn>>
driverVars == <<driver, pending, slot, unread>>

\* A list and its sender.  It is overtaken when the driver takes another list before
\* this one is broadcast.
Broadcasts == [from : Programs \cup {NoId}, list : Lists, overtaken : BOOLEAN]

Init ==
  /\ driver  = Start
  /\ pending = {}
  /\ slot    = [from |-> NoId, list |-> Start, overtaken |-> FALSE]
  /\ unread  = {}
  /\ list    = [p \in Programs |-> Start]
  /\ watched = [p \in Programs |-> Start]
  /\ edits   = 0
  /\ last    = [ids |-> {}, ok |-> TRUE]
  /\ letIn   = FALSE
-----------------------------------------------------------------------------
(* Duplicates and queries *)

Repeated(s) == \E j, k \in DOMAIN s : j < k /\ s[j] = s[k]

ModeRepeats(mode) == Repeated(mode.rates)

MonitorRepeats(m) ==
  \/ Repeated([k \in DOMAIN m.modes |-> m.modes[k].size])
  \/ \E k \in DOMAIN m.modes : ModeRepeats(m.modes[k])

ListRepeats(ms) ==
  \/ Repeated([k \in DOMAIN ms |-> ms[k].id])
  \/ \E k \in DOMAIN ms : MonitorRepeats(ms[k])

\* The driver's own test, has_duplicates.
Refuses(ms) == ListRepeats(ms)

\* The driver begins with no monitors and takes no list that it refuses.
ASSUME StartAssumption == ~Refuses(Start)

IdsOf(ms) == {ms[k].id : k \in DOMAIN ms}

\* The first monitor that has the query for its name or for its id.
FindId(ms, query) ==
  LET hits == {k \in DOMAIN ms : query \in {ms[k].name, ms[k].id}}
  IN  IF hits = {} THEN NoId ELSE ms[Min(hits)].id

\* new_id(None): the least id not in use.  new_id(Some(id)) is id when it is in
\* use, and None when it is not.
NewId(ms, preferred) ==
  IF preferred = NoId THEN Min(0..Len(ms) \ IdsOf(ms))
  ELSE IF preferred \in IdsOf(ms) THEN preferred ELSE NoId

\* The numbers of a finite set, the least first.
Ascending(S) ==
  [j \in 1..Cardinality(S) |-> CHOOSE n \in S : Cardinality({k \in S : k <= n}) = j]

\* retain: what is at the places in keep.
Retain(s, keep) == LET at == Ascending(keep) IN [j \in DOMAIN at |-> s[at[j]]]

Without(ms, ids) == Retain(ms, {k \in DOMAIN ms : ms[k].id \notin ids})
WithoutSize(modes, size) == Retain(modes, {k \in DOMAIN modes : modes[k].size # size})

\* Where the first monitor with an id is: iter_mut().find(...).
Place(ms, i) == Min({k \in DOMAIN ms : ms[k].id = i})
-----------------------------------------------------------------------------
(* The operations that edit the copy.  Each is Succeeds, Fails or LetsIn. *)

Change(p, ids, ok, ms) ==
  /\ edits < MaxEdits
  /\ edits' = edits + 1
  /\ list' = [list EXCEPT ![p] = ms]
  /\ last' = [ids |-> ids, ok |-> ok]
  /\ UNCHANGED <<driverVars, watched>>

Call(p, ids, ok, ms) == Change(p, ids, ok, ms) /\ UNCHANGED letIn

\* A call that leaves what it should have refused.
LetsIn(p, ids, ok, ms) == Change(p, ids, ok, ms) /\ letIn' = TRUE

Succeeds(p, ids, ms) == Call(p, ids, TRUE, ms)
Fails(p)             == Call(p, {}, FALSE, list[p])

RefreshState(p) == Succeeds(p, Ids, watched[p])

SetMonitors(p, ms) ==
  \/ ~ListRepeats(ms) /\ Succeeds(p, Ids, ms)
  \/ ListRepeats(ms) /\ Fails(p)

\* The new monitor has the old one's id; its modes are not looked at.
ReplaceMonitor(p, m) ==
  LET ms == [list[p] EXCEPT ![Place(list[p], m.id)] = m]
      there == m.id \in IdsOf(list[p])
  IN  \/ there /\ ~MonitorRepeats(m) /\ Succeeds(p, {m.id}, ms)
      \/ there /\ MonitorRepeats(m) /\ LetsIn(p, {m.id}, TRUE, ms)
      \/ ~there /\ Fails(p)

\* Faulty variant: the new monitor's modes are not looked at.
AddUnchecked(p, m) ==
  \/ m.id \notin IdsOf(list[p]) /\ Succeeds(p, {m.id}, Append(list[p], m))
  \/ m.id \in IdsOf(list[p]) /\ Fails(p)

Add(p, m) ==
  LET refused == m.id \in IdsOf(list[p]) \/ MonitorRepeats(m)
  IN  \/ ~refused /\ Succeeds(p, {m.id}, Append(list[p], m))
      \/ refused /\ Fails(p)

\* What the command line does to add a monitor: new_id, then add.
AddNew(p, preferred, m) ==
  LET id == NewId(list[p], preferred)
  IN  \/ id \in Ids /\ Add(p, [m EXCEPT !.id = id])
      \/ id = NoId /\ Fails(p)

\* find_monitor_mut: the closure may change anything, and what it did stays also
\* when the call then finds duplicates and reports None.
FindMonitorMut(p, i, m) ==
  LET ms == [list[p] EXCEPT ![Place(list[p], i)] = m]
      there == i \in IdsOf(list[p])
  IN  \/ there /\ ~ListRepeats(ms) /\ Succeeds(p, {i, m.id}, ms)
      \/ there /\ ListRepeats(ms) /\ LetsIn(p, {i, m.id}, FALSE, ms)
      \/ ~there /\ Fails(p)

Remove(p, ids) == Succeeds(p, ids, Without(list[p], ids))

\* Every query is looked up before any monitor goes.
RemoveQuery(p, queries) ==
  LET found == {FindId(list[p], q) : q \in queries}
  IN  \/ NoId \notin found /\ Remove(p, found)
      \/ NoId \in found /\ Fails(p)

RemoveAll(p) == Succeeds(p, Ids, <<>>)

\* Faulty variant: the ids are ignored.
EnabledEverywhere(ms, ids, enabled) ==
  [k \in DOMAIN ms |-> [ms[k] EXCEPT !.enabled = enabled]]

Enabled(ms, ids, enabled) ==
  [k \in DOMAIN ms |-> IF ms[k].id \in ids THEN [ms[k] EXCEPT !.enabled = enabled] ELSE ms[k]]

SetEnabled(p, ids, enabled) == Succeeds(p, ids, Enabled(list[p], ids, enabled))

SetEnabledQuery(p, queries, enabled) ==
  LET found == {FindId(list[p], q) : q \in queries}
  IN  \/ NoId \notin found /\ SetEnabled(p, found, enabled)
      \/ NoId \in found /\ Fails(p)

\* add_mode's last loop looks for each rate among the rates from its own place
\* on, where it is: a mode with any refresh rate is taken for one with duplicates.
LoopFindsDuplicate(rates) == \E i, j \in DOMAIN rates : i <= j /\ rates[i] = rates[j]

HasSize(ms, i, size) ==
  /\ i \in IdsOf(ms)
  /\ LET modes == ms[Place(ms, i)].modes
     IN  \E j \in DOMAIN modes : modes[j].size = size

AddMode(p, i, mode) ==
  LET refused == \/ i \notin IdsOf(list[p])
                 \/ ModeRepeats(mode)
                 \/ HasSize(list[p], i, mode.size)
                 \/ LoopFindsDuplicate(mode.rates)
  IN  \/ /\ ~refused
         /\ Succeeds(p, {i}, [list[p] EXCEPT ![Place(list[p], i)].modes = Append(@, mode)])
      \/ refused /\ Fails(p)

RemoveMode(p, i, size) ==
  \/ /\ i \in IdsOf(list[p])
     /\ Succeeds(p, {i}, [list[p] EXCEPT ![Place(list[p], i)].modes = WithoutSize(@, size)])
  \/ i \notin IdsOf(list[p]) /\ Fails(p)

-----------------------------------------------------------------------------
(* The driver, as in MonitorRegistry: a list with duplicates changes nothing and
   is broadcast like any other; a program's own list is not sent back to it. *)

\* notify: the rows that stay keep the table's order, the new ones come after them.
Applied(table, ms) ==
  LET kept == Retain(table, {k \in DOMAIN table : table[k].id \in IdsOf(ms)})
      new  == Retain(ms, {k \in DOMAIN ms : ms[k].id \notin IdsOf(table)})
  IN  [j \in DOMAIN kept |-> ms[Place(ms, kept[j].id)]] \o new

\* The first half of what the driver does with a list it is notified of.  The task of
\* a connection takes its next message only after the other half.
Apply(p) ==
  LET own == [from |-> p, list |-> list[p], overtaken |-> FALSE]
  IN  /\ \A b \in pending : b.from # p
      /\ \/ /\ Refuses(list[p])
            /\ pending' = pending \cup {own}
            /\ UNCHANGED driver
         \/ /\ ~Refuses(list[p])
            /\ driver' = Applied(driver, list[p])
            /\ pending' = {[b EXCEPT !.overtaken = TRUE] : b \in pending} \cup {own}
      /\ UNCHANGED <<slot, unread, list, watched, edits, last, letIn>>

\* The other half: the list is broadcast as it came, with no lock held since.
Broadcast(b) ==
  /\ pending' = pending \ {b}
  /\ slot' = b
  /\ unread' = Programs
  /\ UNCHANGED <<driver, list, watched, edits, last, letIn>>

\* Faulty variant: the test on the sender is inverted.
DeliverToSender(p) ==
  /\ p \in unread
  /\ unread' = unread \ {p}
  /\ watched' = [watched EXCEPT ![p] = IF slot.from = p THEN slot.list ELSE @]
  /\ UNCHANGED <<driver, pending, slot, list, edits, last, letIn>>

Deliver(p) ==
  /\ p \in unread
  /\ unread' = unread \ {p}
  /\ watched' = [watched EXCEPT ![p] = IF slot.from = p THEN @ ELSE slot.list]
  /\ UNCHANGED <<driver, pending, slot, list, edits, last, letIn>>
-----------------------------------------------------------------------------
\* The operations on one monitor.
EditOne(p, i) ==
  \/ \E mode \in NewModes : AddMode(p, i, mode)
  \/ \E size \in Sizes : RemoveMode(p, i, size)
  \/ \E m \in Offered : FindMonitorMut(p, i, m)

\* Each of them has a form that takes a query.
OnQuery(p, query) ==
  LET i == FindId(list[p], query)
  IN  \/ i # NoId /\ EditOne(p, i)
      \/ i = NoId /\ Fails(p)

\* (The bound is Change's, and is tested before anything is computed.)
Edit(p) ==
  /\ edits < MaxEdits
  /\ \/ RefreshState(p)
     \/ \E ms \in Given : SetMonitors(p, ms)
     \/ \E m \in Offered : ReplaceMonitor(p, m) \/ Add(p, m)
     \/ \E m \in Offered, id \in Ids \cup {NoId} : AddNew(p, id, m)
     \/ \E ids \in SUBSET Ids : Remove(p, ids)
     \/ \E queries \in SUBSET Queries : RemoveQuery(p, queries)
     \/ RemoveAll(p)
     \/ \E ids \in SUBSET Ids, enabled \in BOOLEAN : SetEnabled(p, ids, enabled)
     \/ \E queries \in SUBSET Queries, enabled \in BOOLEAN : SetEnabledQuery(p, queries, enabled)
     \/ \E i \in Ids : EditOne(p, i)
     \/ \E query \in Queries : OnQuery(p, query)

Next ==
  \/ \E p \in Editors : Edit(p) \/ Apply(p)
  \/ \E b \in pending : Broadcast(b)
  \/ \E p \in Programs : Deliver(p)

Spec == Init /\ [][Next]_vars
-----------------------------------------------------------------------------
(* Properties *)

TypeOK ==
  /\ driver  \in Lists
  /\ pending \subseteq Broadcasts
  /\ slot    \in Broadcasts
  /\ unread \subseteq Programs
  /\ list    \in [Programs -> Lists]
  /\ watched \in [Programs -> Lists]
  /\ edits   \in 0..MaxEdits
  /\ last.ids \subseteq Ids /\ last.ok \in BOOLEAN
  /\ letIn   \in BOOLEAN

\* Every row that has none of the ids is where it was.
OthersInPlace(old, new, ids) ==
  /\ DOMAIN new = DOMAIN old
  /\ \A k \in DOMAIN old : old[k].id \notin ids => new[k] = old[k]

\* A call about some monitors leaves the others, and their order, as they were.  A call
\* that fails leaves all, but for find_monitor_mut: that leaves the change its closure
\* made to the one monitor.  The monitors a query is about are those find_id takes it
\* for; remove_query and set_enabled_query look every query up before they change any.
OnlyNamedRowsChange ==
  [][edits' # edits =>
       \A p \in Programs :
         /\ Without(list'[p], last'.ids) = Without(list[p], last'.ids)
         /\ ~last'.ok => OthersInPlace(list[p], list'[p], last'.ids)]_vars

SameMonitors(a, b) == Range(a) = Range(b)

\* A program that only listens refreshes to the driver's monitors once it has received
\* all, whoever changed them (driver_client.rs:111), with two exceptions: lists whose
\* broadcasts were reordered, and a last list that the driver refused and broadcast.
ListenerIsCurrent ==
  pending = {} /\ ~slot.overtaken /\ ~Refuses(slot.list) =>
    \A p \in Programs \ (Editors \cup unread) : SameMonitors(watched[p], driver)

\* The same of every program and without exceptions: refresh_state is there to "Manually
\* synchronize with the driver".
\* No run has it: a program's own notify breaks it, as do the exceptions.
RefreshIsCurrent ==
  unread = {} /\ pending = {} => \A p \in Programs : SameMonitors(watched[p], driver)
=============================================================================
