--------------------------- MODULE SessionService ---------------------------
(***************************************************************************)
(* SessionService: the service that plugs a user's stored monitors in at   *)
(* logon and takes them away at logoff                                     *)
(* (rust/vdd-user-session-service/src/service.rs).  Of the driver it knows *)
(* whether its pipe is served and the list it was sent last.               *)
(*                                                                         *)
(* The service manager calls the event handler on the control thread, one  *)
(* event at a time; run_service is the main thread.  Impersonation is the  *)
(* thread's, and lasts until the thread impersonates another user; Windows *)
(* maps HKEY_CURRENT_USER once per process, for whomever the first thread  *)
(* that reads it acts as, and impersonation does not change it later.      *)
(***************************************************************************)
EXTENDS Integers, Sequences

CONSTANTS
  Sessions,
  UsersOf,       \* users who may log on, each with a stored list of the same name
  MaxEvents,     \* bound: events the system ever sends
  None

NoSession == 0
Empty     == "empty"
System    == "system"   \* the account the service runs as
Threads   == {"main", "control"}

ASSUME SessionServiceAssumption ==
  /\ NoSession \notin Sessions
  /\ UsersOf \cap {Empty, System, None} = {}
  /\ None \notin {Empty, System}
  /\ MaxEvents \in Nat

VARIABLES
  user,      \* who is logged on in each session
  console,   \* the session at the console
  events,    \* control events not handled yet
  happened,  \* events so far
  service,   \* SERVICE_STATUS and where run_service is
  stop,      \* does the shutdown channel hold a message?
  latest,    \* latest_session, of which the handler has a copy
  at,        \* where each thread is in notify or remove_all
  token,     \* the user of the token it asked for
  as,        \* the user it acts as
  hive,      \* whose settings HKEY_CURRENT_USER is in this process, once it was read
  data,      \* the list it read
  pipe,      \* is the driver's pipe served?
  shown      \* the list the driver has

systemVars  == <<user, console, events, happened>>
serviceVars == <<service, stop, latest, at, token, as, hive, data>>
pipeVars    == <<pipe, shown>>
sessionVars == <<user, console, events, happened, service, stop, latest, at, token, as, hive,
          data, pipe, shown>>

SessionInit ==
  /\ user     = [s \in Sessions |-> None]
  /\ console  \in Sessions
  /\ events   = <<>>
  /\ happened = 0
  /\ service  = "start"
  /\ stop     = FALSE
  /\ latest   = [t \in Threads |-> NoSession]
  /\ at       = [t \in Threads |-> "idle"]
  /\ token    = [t \in Threads |-> None]
  /\ as       = [t \in Threads |-> System]
  /\ hive     = None
  /\ data     = [t \in Threads |-> Empty]
  /\ pipe     = FALSE
  /\ shown    = Empty
-----------------------------------------------------------------------------
(* The system: users log on and off, the console changes hands, the service is stopped *)

\* An event for the handler, which is registered while the service runs.
Event(e) ==
  /\ happened < MaxEvents
  /\ happened' = happened + 1
  /\ events' = IF service \in {"running", "waiting"} THEN Append(events, e) ELSE events

Logon(s, u) ==
  /\ user[s] = None
  /\ user' = [user EXCEPT ![s] = u]
  /\ console' = s
  /\ Event([kind |-> "logon", session |-> s])
  /\ UNCHANGED <<serviceVars, pipeVars>>

\* RemoteConnect and SessionUnlock, which the handler treats alike.
Reconnect(s) ==
  /\ user[s] # None
  /\ console' = s
  /\ Event([kind |-> "logon", session |-> s])
  /\ UNCHANGED <<user, serviceVars, pipeVars>>

Logoff(s) ==
  /\ user[s] # None
  /\ user' = [user EXCEPT ![s] = None]
  /\ Event([kind |-> "logoff", session |-> s])
  /\ UNCHANGED <<console, serviceVars, pipeVars>>

StopService ==
  /\ service \in {"running", "waiting"}
  /\ Event([kind |-> "stop", session |-> NoSession])
  /\ UNCHANGED <<user, console, serviceVars, pipeVars>>

\* The driver starts to serve its pipe at any time.
ServePipe ==
  /\ ~pipe
  /\ pipe' = TRUE
  /\ UNCHANGED <<systemVars, serviceVars, shown>>

Environment ==
  \/ \E s \in Sessions, u \in UsersOf : Logon(s, u)
  \/ \E s \in Sessions : Reconnect(s) \/ Logoff(s)
  \/ StopService \/ ServePipe
-----------------------------------------------------------------------------
(* The event handler *)

ControlIdle == at["control"] = "idle" /\ events # <<>>

HandleStop ==
  /\ ControlIdle
  /\ Head(events).kind = "stop"
  /\ events' = Tail(events)
  /\ stop' = TRUE
  /\ UNCHANGED <<user, console, happened, service, latest, at, token, as, hive, data, pipeVars>>

\* Nothing is done for the session that the handler saw last.
HandleLogon ==
  /\ ControlIdle
  /\ Head(events).kind = "logon"
  /\ events' = Tail(events)
  /\ LET s == Head(events).session
     IN IF latest["control"] = s
        THEN UNCHANGED <<latest, at>>
        ELSE /\ latest' = [latest EXCEPT !["control"] = s]
             /\ at' = [at EXCEPT !["control"] = "token"]
  /\ UNCHANGED <<user, console, happened, service, stop, token, as, hive, data, pipeVars>>

\* Of whichever session: remove_all, if the driver's pipe can be opened.
HandleLogoff ==
  /\ ControlIdle
  /\ Head(events).kind = "logoff"
  /\ events' = Tail(events)
  /\ \/ pipe /\ at' = [at EXCEPT !["control"] = "removeAll"]
     \/ UNCHANGED at
  /\ UNCHANGED <<user, console, happened, service, stop, latest, token, as, hive, data, pipeVars>>

RemoveMonitors(t) ==
  /\ at[t] = "removeAll"
  /\ at' = [at EXCEPT ![t] = "idle"]
  /\ shown' = Empty
  /\ UNCHANGED <<systemVars, service, stop, latest, token, as, hive, data, pipe>>
-----------------------------------------------------------------------------
(* run_service *)

\* set_privilege, the handler's registration and the status may fail; then it is over.
StartService ==
  /\ service = "start"
  /\ service' \in {"running", "stopped"}
  /\ UNCHANGED <<systemVars, stop, latest, at, token, as, hive, data, pipeVars>>

\* The session at the console, if there is one, is notified of at once.
NotifyConsole ==
  /\ service = "running"
  /\ service' = "waiting"
  /\ \/ /\ latest' = [latest EXCEPT !["main"] = console]
        /\ at' = [at EXCEPT !["main"] = "token"]
     \/ UNCHANGED <<latest, at>>
  /\ UNCHANGED <<systemVars, stop, token, as, hive, data, pipeVars>>

Shutdown ==
  /\ service = "waiting"
  /\ at["main"] = "idle"
  /\ stop
  /\ service' = "stopped"
  /\ UNCHANGED <<systemVars, stop, latest, at, token, as, hive, data, pipeVars>>
-----------------------------------------------------------------------------
(* notify, under impersonate_user *)

Goto(t, label) == at' = [at EXCEPT ![t] = label]

\* Faulty variant: the connection is tried again and again.
GiveUpUnconnected(t) ==
  /\ at[t] \in {"token", "impersonate"}
  /\ Goto(t, "idle")
  /\ UNCHANGED <<systemVars, service, stop, latest, token, as, hive, data, pipeVars>>

\* Any call may fail; nothing is undone.
GiveUp(t) ==
  /\ at[t] \in {"token", "impersonate", "connect"}
  /\ Goto(t, "idle")
  /\ UNCHANGED <<systemVars, service, stop, latest, token, as, hive, data, pipeVars>>

\* WTSQueryUserToken, of the session the thread was told of.
QueryToken(t) ==
  /\ at[t] = "token"
  /\ latest[t] \in Sessions
  /\ user[latest[t]] # None
  /\ token' = [token EXCEPT ![t] = user[latest[t]]]
  /\ Goto(t, "impersonate")
  /\ UNCHANGED <<systemVars, service, stop, latest, as, hive, data, pipeVars>>

\* Faulty variant: goes on when the impersonation failed.
ImpersonateOrNot(t) ==
  /\ at[t] = "impersonate"
  /\ as' \in {as, [as EXCEPT ![t] = token[t]]}
  /\ Goto(t, "read")
  /\ UNCHANGED <<systemVars, service, stop, latest, token, hive, data, pipeVars>>

Impersonate(t) ==
  /\ at[t] = "impersonate"
  /\ as' = [as EXCEPT ![t] = token[t]]
  /\ Goto(t, "read")
  /\ UNCHANGED <<systemVars, service, stop, latest, token, hive, data, pipeVars>>

\* The key in HKEY_CURRENT_USER, which the first read maps for good: it may be missing, and
\* a list that cannot be read in it is taken for an empty one.
ReadList(t) ==
  /\ at[t] = "read"
  /\ hive' = IF hive = None THEN as[t] ELSE hive
  /\ \/ Goto(t, "idle") /\ UNCHANGED data
     \/ Goto(t, "connect") /\ data' \in {[data EXCEPT ![t] = l] : l \in {hive', Empty}}
  /\ UNCHANGED <<systemVars, service, stop, latest, token, as, pipeVars>>

ConnectDriver(t) ==
  /\ at[t] = "connect"
  /\ pipe
  /\ Goto(t, "send")
  /\ UNCHANGED <<systemVars, service, stop, latest, token, as, hive, data, pipeVars>>

Send(t) ==
  /\ at[t] = "send"
  /\ shown' = data[t]
  /\ Goto(t, "idle")
  /\ UNCHANGED <<systemVars, service, stop, latest, token, as, hive, data, pipe>>

ServiceThread(t) ==
  \/ RemoveMonitors(t) \/ GiveUp(t) \/ QueryToken(t) \/ Impersonate(t)
  \/ ReadList(t) \/ ConnectDriver(t) \/ Send(t)

SessionNext ==
  \/ Environment
  \/ HandleStop \/ HandleLogon \/ HandleLogoff
  \/ StartService \/ NotifyConsole \/ Shutdown
  \/ \E t \in Threads : ServiceThread(t)

\* The main thread goes on.
SessionFairness == WF_sessionVars(NotifyConsole \/ Shutdown \/ ServiceThread("main"))

SessionSpec     == SessionInit /\ [][SessionNext]_sessionVars
FairSessionSpec == SessionSpec /\ SessionFairness
-----------------------------------------------------------------------------
(* Properties *)

\* Whatever sessions it is told of, on either thread, and whatever of it fails, the service
\* never reads the settings of the account it runs as: a list it sends is empty or that of a
\* user.  It is the same user for every session, the first one whose settings were read: the
\* thread impersonates "for current user reg call", but that key does not follow it.
FirstUsersList ==
  /\ hive # System
  /\ \A t \in Threads : at[t] = "send" => data[t] \in {hive, Empty}

\* A service that was told to stop does, whatever the sessions do and whether or not the
\* driver is there to answer the notification it may be in.
StopEnds == stop ~> service = "stopped"
=============================================================================
