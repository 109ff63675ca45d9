---------------------------- MODULE CommandLine ----------------------------
(***************************************************************************)
(* The command line client, rust/virtual-display-driver-cli: each run of   *)
(* it connects, which copies the driver's list, carries out one command on *)
(* the copy with the operations of Editing, and notifies the driver.       *)
(* Between those steps other programs edit and notify.                     *)
(*                                                                         *)
(* A mode on the command line has a set of refresh rates, which may be     *)
(* empty; mode.rs merges such modes by resolution with a hash map, whose   *)
(* order is any.                                                           *)
(***************************************************************************)
EXTENDS Editing

CONSTANTS
  Shells,       \* the editors that are runs of the command line client
  Typed,        \* the lists of modes a user may type
  DefaultRate   \* DEFAULT_REFRESH_RATE

ASSUME CommandLineAssumption ==
  /\ Shells \subseteq Editors
  /\ DefaultRate \in Rates

TypedMode == [size : Sizes, rates : SUBSET Rates]

ASSUME TypedAssumption == Typed \subseteq Seq(TypedMode)

VARIABLES
  stage    \* how far each shell's run is

cliVars == <<vars, stage>>

CliInit ==
  /\ Init
  /\ stage = [c \in Shells |-> "ended"]
-----------------------------------------------------------------------------
(* Modes, as mode.rs has them *)

\* From<driver_ipc::Mode>: the rates become a set.
FromDriver(modes) ==
  [k \in DOMAIN modes |-> [size |-> modes[k].size, rates |-> {modes[k].rates[j] : j \in DOMAIN modes[k].rates}]]

EnsureRefreshRate(mode) == IF mode.rates = {} THEN [mode EXCEPT !.rates = {DefaultRate}] ELSE mode

\* From<Mode>: the default rate if there is none, and the rates in ascending order.
ToDriver(modes) ==
  [k \in DOMAIN modes |->
     [size |-> modes[k].size,
      rates |-> Ascending(EnsureRefreshRate(modes[k]).rates)]]

\* All the rates of a resolution.
RatesOf(modes, size) == UNION {mode.rates : mode \in {m \in Range(modes) : m.size = size}}

\* merge: one mode per resolution.
Merge(modes) ==
  {[size |-> size, rates |-> RatesOf(modes, size)] : size \in {m.size : m \in Range(modes)}}

\* remove, on merged modes: a resolution, or some of its rates; what has no rate left goes.
RemoveTyped(modes, typed) ==
  {mode \in {IF m.size = typed.size THEN [m EXCEPT !.rates = @ \ typed.rates] ELSE m : m \in modes} :
     /\ mode.rates # {}
     /\ typed.rates = {} => mode.size # typed.size}

\* remove fails unless there are the resolution and all the rates named.
HasTyped(modes, typed) == \E m \in modes : m.size = typed.size /\ typed.rates \subseteq m.rates
-----------------------------------------------------------------------------
(* The commands.  Each is one edit of the copy. *)

\* main: DriverClient::new asks the driver for its list.  What the driver sends a
\* shell later is not delivered here: no command reads it.
Connect(c) ==
  /\ stage[c] = "ended" /\ edits < MaxEdits
  /\ stage' = [stage EXCEPT ![c] = "connected"]
  /\ list' = [list EXCEPT ![c] = driver]
  /\ UNCHANGED <<driverVars, watched, edits, last, letIn>>

CliAdd(c, preferred, name, enabled, typed) ==
  AddNew(c, preferred, [id |-> NoId, name |-> name, enabled |-> enabled, modes |-> ToDriver(typed)])

\* The orders a hash map may give its entries in.
Orders(S) ==
  {order \in [1..Cardinality(S) -> S] : \A j, k \in DOMAIN order : order[j] = order[k] => j = k}

\* The closure given to find_monitor_mut_query replaces the modes, in any order.
ReplaceModes(c, i, modes) ==
  \E order \in Orders(modes) :
    LET ms == [list[c] EXCEPT ![Place(list[c], i)].modes = ToDriver(order)]
    IN  Call(c, {i}, ~ListRepeats(ms), ms)

CliAddMode(c, query, typed) ==
  LET i == FindId(list[c], query)
  IN  \/ /\ i # NoId
         /\ ReplaceModes(c, i, Merge(FromDriver(list[c][Place(list[c], i)].modes) \o typed))
      \/ i = NoId /\ Fails(c)

CliRemoveMode(c, query, typed) ==
  LET i == FindId(list[c], query)
      old == FromDriver(list[c][Place(list[c], i)].modes)
      merged == Merge([k \in DOMAIN old |-> EnsureRefreshRate(old[k])])
      found == i # NoId /\ HasTyped(merged, typed)
  IN  \/ found /\ ReplaceModes(c, i, RemoveTyped(merged, typed))
      \/ ~found /\ Fails(c)

CliSetEnabled(c, query, enabled) == SetEnabledQuery(c, {query}, enabled)

CliRemove(c, queries) == RemoveQuery(c, queries)

CliRemoveAll(c) == RemoveAll(c)

\* The commands and what a user may type for them.
Edits(c) ==
  \/ \E preferred \in Ids \cup {NoId}, name \in Names \cup {NoName}, enabled \in BOOLEAN, typed \in Typed :
       CliAdd(c, preferred, name, enabled, typed)
  \/ \E query \in Queries, typed \in Typed : CliAddMode(c, query, typed)
  \/ \E query \in Queries, typed \in TypedMode : CliRemoveMode(c, query, typed)
  \/ \E query \in Queries, enabled \in BOOLEAN : CliSetEnabled(c, query, enabled)
  \/ \E queries \in SUBSET Queries : CliRemove(c, queries)
  \/ CliRemoveAll(c)

\* A command that fails ends the run before it notifies.
Command(c) ==
  /\ stage[c] = "connected"
  /\ edits < MaxEdits
  /\ Edits(c)
  /\ stage' = [stage EXCEPT ![c] = IF last'.ok THEN "edited" ELSE "ended"]

\* List prints the copy, Persist has it stored: neither touches it or the driver.
ListOrPersist(c) ==
  /\ stage[c] = "connected"
  /\ stage' = [stage EXCEPT ![c] = "ended"]
  /\ UNCHANGED vars

\* The command's last step, and what it prints.  The guard of Apply is a bound here:
\* the broadcast for a shell's last run comes before its next run notifies.
Report(c) ==
  /\ stage[c] = "edited"
  /\ stage' = [stage EXCEPT ![c] = "ended"]
  /\ Apply(c)

CliNext ==
  \/ /\ \/ \E p \in Editors \ Shells : Edit(p) \/ Apply(p)
        \/ \E b \in pending : Broadcast(b)
        \/ \E p \in Programs \ Shells : Deliver(p)
     /\ UNCHANGED stage
  \/ \E c \in Shells : Connect(c) \/ Command(c) \/ ListOrPersist(c) \/ Report(c)

CliSpec == CliInit /\ [][CliNext]_cliVars
-----------------------------------------------------------------------------
(* Properties *)

\* The driver takes a command's list, and that of any program, unless one has used the two
\* calls that let duplicates in, replace_monitor and find_monitor_mut: the checks of the
\* others and the driver's has_duplicates agree, whatever the order of calls.  A refused
\* list reaches other programs by refresh_state; no command takes it up.
NeverRefused == \A p \in Programs : Refuses(list[p]) => p \notin Shells /\ letIn
=============================================================================
