---------------------------- MODULE DriverStart ----------------------------
(***************************************************************************)
(* DriverStart: how the driver comes up and goes away                      *)
(* (rust/virtual-display-driver/src/entry.rs, callbacks.rs, context.rs,    *)
(* ipc.rs), and the contexts it keeps in the framework's objects           *)
(* (rust/wdf-umdf/src/wdf.rs): an Arc in the device's memory, a Weak in    *)
(* that of each adapter, read from any thread.                             *)
(*                                                                         *)
(* The framework calls DriverEntry, driver_add, device_d0_entry and        *)
(* event_cleanup one at a time; the thread that retries the log, the       *)
(* callback that ends an adapter's initialisation and the pipe handlers    *)
(* run beside them.  An adapter is named by the power-up that made it.     *)
(***************************************************************************)
EXTENDS Integers

CONSTANTS
  Clients,        \* pipe handlers
  MaxPowerUps,    \* bound: power-ups
  LogTimeout,     \* 5 minutes, in sleeps of the retry thread
  FinishesEarly,  \* may the system end an initialisation before init_adapter does?
  Pnp,            \* the framework's thread
  Others,         \* handlers of the other commands, and callbacks that report modes
  None

Adapters == 1 .. MaxPowerUps
Device   == 0
Handles  == Adapters \cup {Device}
Users    == Clients \cup {Pnp}

ASSUME DriverStartAssumption ==
  /\ MaxPowerUps \in Nat
  /\ LogTimeout \in Nat
  /\ FinishesEarly \in BOOLEAN
  /\ Pnp \notin Clients
  /\ None \notin Handles \cup Users \cup {Others}
  /\ Others \notin Users
  /\ Users \cap Handles = {}

VARIABLES
  pnp,         \* where the framework's thread is
  retry,       \* the thread that retries the log
  slept,       \* its sleeps
  logged,      \* is the log initialised?
  failed,      \* was WdfDeviceSetFailed called?
  ctx,         \* the context memory of each handle
  owners,      \* who holds a strong reference to the device context
  lock,        \* who holds its write lock
  powerUps,    \* power-ups so far
  selfAdapter, \* DeviceContext.adapter
  finish,      \* adapter_init_finished of each adapter
  adapter,     \* ADAPTER
  servers,     \* pipe servers started
  pc,          \* where each pipe handler is
  modes,       \* who holds the lock of MONITOR_MODES
  hung         \* does its holder wait for a departure that never returns?

logVars     == <<retry, slept, logged, failed>>
contextVars == <<ctx, owners, lock>>
adapterVars == <<powerUps, selfAdapter, finish, adapter, servers>>
tableVars   == <<modes, hung>>
vars == <<pnp, retry, slept, logged, failed, ctx, owners, lock,
          powerUps, selfAdapter, finish, adapter, servers, pc, modes, hung>>

Init ==
  /\ pnp         = "entry"
  /\ retry       = "none"
  /\ slept       = 0
  /\ logged      = FALSE
  /\ failed      = FALSE
  /\ ctx         = [h \in Handles |-> "none"]
  /\ owners      = {}
  /\ lock        = None
  /\ powerUps    = 0
  /\ selfAdapter = None
  /\ finish      = [a \in Adapters |-> "none"]
  /\ adapter     = None
  /\ servers     = 0
  /\ pc          = [c \in Clients |-> "idle"]
  /\ modes       = None
  /\ hung        = FALSE

PnpStep(from, to) == pnp = from /\ pnp' = to
-----------------------------------------------------------------------------
(* DriverEntry and the log *)

\* init_log succeeds, or a thread is spawned that retries it.
DriverEntry ==
  /\ PnpStep("entry", "hooked")
  /\ \/ logged' = TRUE /\ UNCHANGED retry
     \/ retry' = "try" /\ UNCHANGED logged
  /\ UNCHANGED <<slept, failed, contextVars, adapterVars, pc, tableVars>>

\* WdfDriverCreate
CreateDriver ==
  /\ PnpStep("hooked", "driver") \/ PnpStep("hooked", "unloaded")
  /\ UNCHANGED <<logVars, contextVars, adapterVars, pc, tableVars>>

RetryLog ==
  /\ retry = "try"
  /\ pnp # "crashed"
  /\ retry' = "check"
  /\ logged' \in BOOLEAN
  /\ slept' = IF slept < LogTimeout THEN slept + 1 ELSE slept
  /\ UNCHANGED <<pnp, failed, contextVars, adapterVars, pc, tableVars>>

TimedOut == slept >= LogTimeout

\* Faulty variant: it goes on until the log can be initialised.
CheckRetryForever ==
  /\ retry = "check"
  /\ pnp # "crashed"
  /\ retry' = IF logged THEN "done" ELSE "try"
  /\ UNCHANGED <<pnp, slept, logged, failed, contextVars, adapterVars, pc, tableVars>>

\* Past the time-out the device is failed, whether the last attempt succeeded or not.
CheckRetry ==
  /\ retry = "check"
  /\ pnp # "crashed"
  /\ retry' = IF logged \/ TimedOut THEN "done" ELSE "try"
  /\ failed' = (failed \/ TimedOut)
  /\ UNCHANGED <<pnp, slept, logged, contextVars, adapterVars, pc, tableVars>>
-----------------------------------------------------------------------------
(* driver_add and event_cleanup *)

\* The configuration is refused, or WdfDeviceCreate makes the device and its memory.
CreateDevice ==
  /\ \/ PnpStep("driver", "unloaded") /\ UNCHANGED ctx
     \/ PnpStep("driver", "created") /\ ctx' = [ctx EXCEPT ![Device] = "zero"]
  /\ UNCHANGED <<logVars, owners, lock, adapterVars, pc, tableVars>>

\* IddCxDeviceInitialize, then DeviceContext::init.
InitContext ==
  /\ PnpStep("created", "down")
  /\ ctx' = [ctx EXCEPT ![Device] = "strong"]
  /\ owners' = owners \cup {Device}
  /\ UNCHANGED <<logVars, lock, adapterVars, pc, tableVars>>

\* Otherwise the device goes with its memory never written, which event_cleanup drops
\* all the same: whatever the zeros mean.
InitializeFails ==
  /\ PnpStep("created", "removed") \/ PnpStep("created", "crashed")
  /\ UNCHANGED <<logVars, contextVars, adapterVars, pc, tableVars>>

\* event_cleanup drops the Arc in the device's memory.
Cleanup ==
  /\ PnpStep("down", "removed")
  /\ ctx' = [ctx EXCEPT ![Device] = "dropped"]
  /\ owners' = owners \ {Device}
  /\ UNCHANGED <<logVars, lock, adapterVars, pc, tableVars>>
-----------------------------------------------------------------------------
(* get_mut: an Arc of one's own, then the write lock, and both given back *)

\* Faulty variant: the Arc is not cloned.
Borrow(u) == UNCHANGED owners

\* From the Arc of the device, or upgraded from the Weak of an adapter.
Upgrade(u) == owners' = owners \cup {u}

Lock(u) == lock = None /\ lock' = u

Unlock(u) ==
  /\ lock = u
  /\ lock' = None
  /\ owners' = owners \ {u}
-----------------------------------------------------------------------------
(* device_d0_entry *)

PowerUp ==
  /\ powerUps < MaxPowerUps
  /\ PnpStep("down", "wait")
  /\ powerUps' = powerUps + 1
  /\ Upgrade(Pnp)
  /\ UNCHANGED <<logVars, ctx, lock, selfAdapter, finish, adapter, servers, pc, tableVars>>

EnterInit ==
  /\ PnpStep("wait", "init")
  /\ Lock(Pnp)
  /\ UNCHANGED <<logVars, ctx, owners, adapterVars, pc, tableVars>>

\* IddCxAdapterInitAsync; its failure is logged only.
InitFails ==
  /\ PnpStep("init", "up")
  /\ Unlock(Pnp)
  /\ UNCHANGED <<logVars, ctx, adapterVars, pc, tableVars>>

InitAdapter ==
  /\ PnpStep("init", "clone")
  /\ ctx' = [ctx EXCEPT ![powerUps] = "zero"]
  /\ finish' = [finish EXCEPT ![powerUps] = "pending"]
  /\ selfAdapter' = powerUps
  /\ UNCHANGED <<logVars, owners, lock, powerUps, adapter, servers, pc, tableVars>>

\* clone_into, from the device's memory into the adapter's.
CloneInto ==
  /\ PnpStep("clone", "leave")
  /\ ctx' = [ctx EXCEPT ![powerUps] = "weak"]
  /\ UNCHANGED <<logVars, owners, lock, adapterVars, pc, tableVars>>

LeaveInit ==
  /\ PnpStep("leave", "up")
  /\ Unlock(Pnp)
  /\ UNCHANGED <<logVars, ctx, adapterVars, pc, tableVars>>

\* No callback of the driver's.
PowerDown ==
  /\ PnpStep("up", "down")
  /\ UNCHANGED <<logVars, contextVars, adapterVars, pc, tableVars>>
-----------------------------------------------------------------------------
(* adapter_init_finished *)

\* Faulty variant: the adapter is replaced.
ReplaceAdapter(a) ==
  /\ finish[a] = "pending"
  /\ FinishesEarly \/ ctx[a] = "weak"
  /\ adapter' = a
  /\ finish' = [finish EXCEPT ![a] = "set"]
  /\ UNCHANGED <<pnp, logVars, contextVars, powerUps, selfAdapter, servers, pc, tableVars>>

\* ADAPTER.set succeeds once; after that the system is told of a hardware error.
SetAdapter(a) ==
  /\ finish[a] = "pending"
  /\ FinishesEarly \/ ctx[a] = "weak"
  /\ IF adapter = None
     THEN adapter' = a /\ finish' = [finish EXCEPT ![a] = "set"]
     ELSE UNCHANGED adapter /\ finish' = [finish EXCEPT ![a] = "refused"]
  /\ UNCHANGED <<pnp, logVars, contextVars, powerUps, selfAdapter, servers, pc, tableVars>>

\* finish_init: startup's thread, which serves the pipe for good.
Startup(a) ==
  /\ finish[a] = "set"
  /\ finish' = [finish EXCEPT ![a] = "done"]
  /\ servers' = servers + 1
  /\ UNCHANGED <<pnp, logVars, contextVars, powerUps, selfAdapter, adapter, pc, tableVars>>
-----------------------------------------------------------------------------
(* A pipe handler in notify, and the lock of MONITOR_MODES *)

HandlerStep(c, from, to) == pc[c] = from /\ pc' = [pc EXCEPT ![c] = to]

\* Monitors depart and rows change under the lock of the table.
LockTable(c) ==
  /\ servers > 0
  /\ HandlerStep(c, "idle", "merge")
  /\ modes = None
  /\ modes' = c
  /\ UNCHANGED <<pnp, logVars, contextVars, adapterVars, hung>>

\* Faulty variant: drop(lock) is forgotten.
KeepTable(c) ==
  /\ HandlerStep(c, "merge", "merged")
  /\ ~hung
  /\ UNCHANGED <<pnp, logVars, contextVars, adapterVars, tableVars>>

\* drop(lock)
DropTable(c) ==
  /\ HandlerStep(c, "merge", "merged")
  /\ ~hung
  /\ modes' = None
  /\ UNCHANGED <<pnp, logVars, contextVars, adapterVars, hung>>

\* ADAPTER.get(), and an Arc upgraded from the Weak of that adapter.
Notify(c) ==
  /\ HandlerStep(c, "merged", "wait")
  /\ ctx[adapter] = "weak"
  /\ owners # {}
  /\ Upgrade(c)
  /\ UNCHANGED <<pnp, logVars, ctx, lock, adapterVars, tableVars>>

\* The device is gone: get_mut fails and its unwrap ends the handler's task.
UpgradeFails(c) ==
  /\ HandlerStep(c, "merged", "panicked")
  /\ ctx[adapter] = "weak"
  /\ owners = {}
  /\ UNCHANGED <<pnp, logVars, contextVars, adapterVars, tableVars>>

EnterContext(c) ==
  /\ HandlerStep(c, "wait", "create")
  /\ Lock(c)
  /\ UNCHANGED <<pnp, logVars, ctx, owners, adapterVars, tableVars>>

\* IddCxMonitorCreate, for the adapter in the context.
CreateMonitor(c) ==
  /\ HandlerStep(c, "create", "created")
  /\ UNCHANGED <<pnp, logVars, contextVars, adapterVars, tableVars>>

\* create_monitor locks the table again.
LockTableAgain(c) ==
  /\ HandlerStep(c, "created", "store")
  /\ modes = None
  /\ modes' = c
  /\ UNCHANGED <<pnp, logVars, contextVars, adapterVars, hung>>

\* The handle is stored; the monitor arrives without the lock.
StoreObject(c) ==
  /\ HandlerStep(c, "store", "create")
  /\ modes' = None
  /\ UNCHANGED <<pnp, logVars, contextVars, adapterVars, hung>>

\* No monitor is left to create, or each creation failed.
LeaveContext(c) ==
  /\ HandlerStep(c, "create", "idle")
  /\ Unlock(c)
  /\ UNCHANGED <<pnp, logVars, ctx, adapterVars, tableVars>>

OthersLock ==
  /\ servers > 0
  /\ modes = None
  /\ modes' = Others
  /\ UNCHANGED <<pnp, logVars, contextVars, adapterVars, pc, hung>>

OthersUnlock ==
  /\ modes = Others
  /\ ~hung
  /\ modes' = None
  /\ UNCHANGED <<pnp, logVars, contextVars, adapterVars, pc, hung>>

\* A departure that waits for the unassign callback of the monitor, in the circle of locks
\* that SwapChain describes: it and the lock it is called under are never given back.
DepartureHangs ==
  /\ modes = Others \/ \E c \in Clients : modes = c /\ pc[c] = "merge"
  /\ hung' = TRUE
  /\ UNCHANGED <<pnp, logVars, contextVars, adapterVars, pc, modes>>
-----------------------------------------------------------------------------
Framework ==
  \/ DriverEntry \/ CreateDriver \/ CreateDevice \/ InitContext \/ InitializeFails
  \/ Cleanup \/ PowerUp \/ EnterInit \/ InitFails \/ InitAdapter \/ CloneInto
  \/ LeaveInit \/ PowerDown

InContext(c) == CreateMonitor(c) \/ LockTableAgain(c) \/ StoreObject(c)

Handler(c) ==
  \/ LockTable(c) \/ DropTable(c) \/ Notify(c) \/ UpgradeFails(c)
  \/ EnterContext(c) \/ InContext(c) \/ LeaveContext(c)

Next ==
  \/ Framework
  \/ RetryLog \/ CheckRetry
  \/ \E a \in Adapters : SetAdapter(a) \/ Startup(a)
  \/ \E c \in Clients : Handler(c)
  \/ OthersLock \/ OthersUnlock \/ DepartureHangs

\* The retry thread goes on, whoever holds a lock gives it back unless its call hangs, and
\* each lock comes to whoever waits for it.  A handler leaves the context in the end: the
\* monitors it has to create are finitely many.
Fairness ==
  /\ WF_vars(RetryLog \/ CheckRetry)
  /\ SF_vars(EnterInit)
  /\ WF_vars(InitFails \/ InitAdapter \/ CloneInto \/ LeaveInit)
  /\ \A a \in Adapters : WF_vars(SetAdapter(a) \/ Startup(a))
  /\ WF_vars(OthersUnlock)
  /\ \A c \in Clients :
       /\ WF_vars(DropTable(c)) /\ SF_vars(LockTableAgain(c)) /\ WF_vars(StoreObject(c))
       /\ SF_vars(EnterContext(c)) /\ SF_vars(LeaveContext(c))

Spec     == Init /\ [][Next]_vars
FairSpec == Spec /\ Fairness
-----------------------------------------------------------------------------
(* Properties *)

\* Every variable has its type.
TypeOK ==
  /\ pnp \in {"entry", "hooked", "driver", "created", "down", "wait", "init", "clone",
              "leave", "up", "removed", "crashed", "unloaded"}
  /\ retry \in {"none", "try", "check", "done"}
  /\ slept \in 0 .. LogTimeout
  /\ {logged, failed} \subseteq BOOLEAN
  /\ ctx \in [Handles -> {"none", "zero", "strong", "weak", "dropped"}]
  /\ owners \subseteq Users \cup {Device}
  /\ lock \in Users \cup {None}
  /\ powerUps \in 0 .. MaxPowerUps
  /\ {selfAdapter, adapter} \subseteq Adapters \cup {None}
  /\ finish \in [Adapters -> {"none", "pending", "set", "refused", "done"}]
  /\ servers \in Nat
  /\ pc \in [Clients -> {"idle", "merge", "merged", "wait", "create", "created", "store",
                        "panicked"}]
  /\ modes \in Clients \cup {Others, None}
  /\ hung \in BOOLEAN

Inside(u) == IF u = Pnp THEN pnp \in {"wait", "init", "clone", "leave"}
                        ELSE pc[u] \in {"wait", "create", "created", "store"}

\* "ONE main Arc allocation while handing out weak pointers" (wdf.rs:193): the context
\* lives while some callback is at work on it, whenever the device is removed, and once
\* the device is removed and they have left nothing keeps it alive.
ContextLifetime ==
  /\ \A u \in Users : Inside(u) => u \in owners
  /\ ctx[Device] # "strong" => owners \subseteq {u \in Users : Inside(u)}

\* However often the device is powered up and its adapters finish, the pipe is served by
\* one server, and by one whose adapter is that of ADAPTER, its context written.
OneServer ==
  /\ servers <= 1
  /\ adapter # None => finish[adapter] \in {"set", "done"} /\ ctx[adapter] = "weak"
  /\ servers = 1 => adapter # None

\* The retry thread ends: with a log, or with a device that is reported as failed.
LoggerSettles ==
  retry = "try" ~> ((retry = "done" /\ (logged \/ failed)) \/ pnp = "crashed")

\* A power-up waits for the lock under which handlers create monitors, and these wait for the
\* table inside it; it is held up for ever only by a departure that hangs with the table
\* locked: "create_monitor locks again, so this avoids deadlock" (ipc.rs:721).
PowerUpEnds == pnp = "wait" ~> pnp = "up" \/ hung
=============================================================================
