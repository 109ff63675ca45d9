------------------------- MODULE DriverStartProofs -------------------------
(***************************************************************************)
(* Theorems about DriverStart for any number of pipe handlers, power-ups   *)
(* and sleeps of the retry thread, and about the calls of FrameworkCall.   *)
(***************************************************************************)
EXTENDS DriverStart, FrameworkCall, TLAPS

(* The device context *)

\* The device is there: its memory was written and not dropped.
Present == pnp \in {"down", "wait", "init", "clone", "leave", "up"}

\* The context's Arcs are that of the device's memory, until event_cleanup drops it, and one
\* of every callback and handler that is at work on it.
ContextInv ==
  /\ DOMAIN ctx = Handles
  /\ DOMAIN pc = Clients
  /\ powerUps \in Nat
  /\ Inside(Pnp) => powerUps \in Adapters
  /\ ctx[Device] = "strong" <=> Present
  /\ Device \in owners => Present
  /\ owners \ {Device} = {u \in Users : Inside(u)}

\* The adapters: one that was not made yet has nothing finished, the first to finish is the one
\* in ADAPTER, and the only one whose startup starts a server.
AdapterInv ==
  /\ finish \in [Adapters -> {"none", "pending", "set", "refused", "done"}]
  /\ adapter \in Adapters \cup {None}
  /\ \A a \in Adapters : finish[a] # "none" => a <= powerUps
  /\ pnp \in {"wait", "init"} => powerUps \in Adapters /\ finish[powerUps] = "none"
  /\ \A a \in Adapters : finish[a] \in {"set", "done"} => a = adapter
  /\ adapter # None => finish[adapter] \in {"set", "done"} /\ ctx[adapter] = "weak"
  /\ servers = IF adapter # None /\ finish[adapter] = "done" THEN 1 ELSE 0
-----------------------------------------------------------------------------
LEMMA ContextInit == Init => ContextInv
BY DriverStartAssumption DEF Init, ContextInv, Present, Users, Device, Handles, Inside

\* Steps that leave the context, and who is at work on it, alone.
LEMMA ContextSame ==
  ASSUME ContextInv, UNCHANGED <<ctx, owners, pc, powerUps, pnp>>
  PROVE  ContextInv'
BY DEF ContextInv, Present, Inside, Users

LEMMA HandlerContext ==
  ASSUME ContextInv, NEW c \in Clients, Handler(c)
  PROVE  ContextInv'
<1> USE DEF Handler, LockTable, DropTable, InContext, CreateMonitor, LockTableAgain, StoreObject
<1>1. UNCHANGED <<pnp, ctx, powerUps>> /\ c # Pnp /\ c # Device /\ Pnp # Device
  BY DriverStartAssumption
     DEF Notify, UpgradeFails, EnterContext, LeaveContext, contextVars, adapterVars, Users,
         Device, Handles
<1>2. DOMAIN pc' = Clients /\ \A d \in Clients \ {c} : pc'[d] = pc[d]
  BY DEF Notify, UpgradeFails, EnterContext, LeaveContext, HandlerStep, ContextInv
<1>3. \A u \in Users \ {c} : Inside(u)' <=> Inside(u)
  BY <1>1, <1>2 DEF Inside, Users
<1>4. \/ Inside(c)' /\ owners' = owners \cup {c}
      \/ ~Inside(c)' /\ owners' = owners \ {c}
  <2>1. CASE Notify(c)
    BY <1>1, <2>1 DEF Notify, HandlerStep, Upgrade, Inside, ContextInv
  <2>2. CASE UpgradeFails(c)
    BY <1>1, <2>2 DEF UpgradeFails, HandlerStep, Inside, ContextInv, contextVars
  <2>3. CASE EnterContext(c)
    <3>1. pc[c] = "wait" /\ pc'[c] = "create" /\ owners' = owners
      BY <2>3 DEF EnterContext, HandlerStep, ContextInv
    <3>2. c \in owners
      BY <1>1, <3>1 DEF ContextInv, Inside, Users
    <3> QED
      BY <1>1, <3>1, <3>2 DEF Inside
  <2>4. CASE LeaveContext(c)
    BY <1>1, <2>4 DEF LeaveContext, HandlerStep, Unlock, Inside, ContextInv
  <2>5. CASE LockTable(c) \/ DropTable(c)
    <3>1. pc[c] \in {"idle", "merge"} /\ pc'[c] \in {"merge", "merged"} /\ owners' = owners
      BY <2>5 DEF HandlerStep, ContextInv, contextVars
    <3>2. c \notin owners
      BY <1>1, <3>1 DEF ContextInv, Inside, Users
    <3> QED
      BY <1>1, <3>1, <3>2 DEF Inside
  <2>6. CASE InContext(c)
    <3>1. /\ pc[c] \in {"create", "created", "store"} /\ pc'[c] \in {"create", "created", "store"}
          /\ owners' = owners
      BY <2>6 DEF HandlerStep, ContextInv, contextVars
    <3>2. c \in owners
      BY <1>1, <3>1 DEF ContextInv, Inside, Users
    <3> QED
      BY <1>1, <3>1, <3>2 DEF Inside
  <2> QED
    BY <2>1, <2>2, <2>3, <2>4, <2>5, <2>6
<1>5. c \in Users
  BY DEF Users
<1>6. owners' \ {Device} = {u \in Users : Inside(u)}'
  <2>1. owners \ {Device} = {u \in Users : Inside(u)}
    BY DEF ContextInv
  <2> QED
    BY <1>1, <1>3, <1>4, <1>5, <2>1 DEF Users
<1>7. Device \in owners' => Device \in owners
  BY <1>1, <1>4
<1> QED
  <2>1. Inside(Pnp)' <=> Inside(Pnp)
    BY <1>1, <1>3 DEF Users
  <2> QED
    BY <1>1, <1>2, <1>6, <1>7, <2>1 DEF ContextInv, Present

\* A step of the framework's thread that moves nobody else.
LEMMA FrameworkContext ==
  ASSUME ContextInv, Framework
  PROVE  ContextInv'
<1>1. pc' = pc /\ Pnp # Device /\ Device \in Handles /\ Adapters \subseteq Handles /\ Device \notin Adapters
  BY DriverStartAssumption
     DEF Framework, DriverEntry, CreateDriver, CreateDevice, InitContext, InitializeFails, Cleanup,
         PowerUp, EnterInit, InitFails, InitAdapter, CloneInto, LeaveInit, PowerDown, Users, Device,
         Handles, Adapters
<1>2. \A u \in Clients : u # Pnp /\ (Inside(u)' <=> Inside(u))
  BY <1>1, DriverStartAssumption DEF Inside
<1>3. Pnp \in Users /\ Users = Clients \cup {Pnp}
  BY DEF Users
<1>4. owners \ {Device} = {u \in Users : Inside(u)} /\ (Device \in owners => Present)
  BY DEF ContextInv
<1>5. CASE DriverEntry \/ CreateDriver \/ InitializeFails \/ PowerDown
  <2>1. UNCHANGED <<ctx, owners, powerUps>>
    BY <1>5 DEF DriverEntry, CreateDriver, InitializeFails, PowerDown, contextVars, adapterVars
  <2>2. Present' <=> Present
    BY <1>5 DEF DriverEntry, CreateDriver, InitializeFails, PowerDown, PnpStep, Present
  <2>3. Inside(Pnp)' <=> Inside(Pnp)
    BY <1>5 DEF DriverEntry, CreateDriver, InitializeFails, PowerDown, PnpStep, Inside
  <2>4. \A u \in Users : Inside(u)' <=> Inside(u)
    BY <1>2, <1>3, <2>3
  <2> QED
    BY <1>1, <1>3, <2>1, <2>2, <2>3, <2>4 DEF ContextInv
<1>6. CASE CreateDevice \/ InitContext \/ Cleanup
  <2>1. powerUps' = powerUps /\ DOMAIN ctx' = Handles
    BY <1>6 DEF CreateDevice, InitContext, Cleanup, adapterVars, ContextInv
  <2>2. /\ ctx'[Device] = "strong" <=> Present'
        /\ Device \in owners' => Present'
    BY <1>1, <1>4, <1>6 DEF CreateDevice, InitContext, Cleanup, PnpStep, Present, ContextInv
  <2>3. ~Inside(Pnp) /\ ~Inside(Pnp)'
    BY <1>6 DEF CreateDevice, InitContext, Cleanup, PnpStep, Inside
  <2>4. owners' \ {Device} = owners \ {Device}
    BY <1>6 DEF CreateDevice, InitContext, Cleanup
  <2>5. \A u \in Users : Inside(u)' <=> Inside(u)
    BY <1>2, <1>3, <2>3
  <2> QED
    BY <1>1, <1>3, <1>4, <2>1, <2>2, <2>3, <2>4, <2>5 DEF ContextInv
<1>7. CASE PowerUp
  <2>1. /\ pnp = "down" /\ pnp' = "wait" /\ ctx' = ctx
        /\ powerUps' = powerUps + 1 /\ owners' = owners \cup {Pnp} /\ powerUps < MaxPowerUps
    BY <1>7 DEF PowerUp, PnpStep, Upgrade
  <2>2. powerUps' \in Adapters
    BY <2>1, DriverStartAssumption DEF ContextInv, Adapters
  <2>3. owners' \ {Device} = {u \in Users : Inside(u)}'
    BY <1>1, <1>2, <1>3, <1>4, <2>1 DEF Inside
  <2>4. Device \in owners' => Device \in owners
    BY <1>1, <2>1
  <2> QED
    BY <1>1, <2>1, <2>2, <2>3, <2>4 DEF ContextInv, Present, Adapters
<1>8. CASE EnterInit \/ InitAdapter \/ CloneInto
  <2>1. /\ pnp \in {"wait", "init", "clone"} /\ pnp' \in {"init", "clone", "leave"}
        /\ powerUps' = powerUps /\ owners' = owners
    BY <1>8 DEF EnterInit, InitAdapter, CloneInto, PnpStep, adapterVars
  <2>2. powerUps \in Adapters
    BY <2>1 DEF ContextInv, Inside
  <2>3. DOMAIN ctx' = Handles /\ ctx'[Device] = ctx[Device]
    BY <1>1, <1>8, <2>2 DEF EnterInit, InitAdapter, CloneInto, ContextInv
  <2>4. Inside(Pnp) /\ Inside(Pnp)'
    BY <2>1 DEF Inside
  <2>5. \A u \in Users : Inside(u)' <=> Inside(u)
    BY <1>2, <1>3, <2>4
  <2>6. Present /\ Present'
    BY <2>1 DEF Present
  <2> QED
    BY <1>1, <1>4, <2>1, <2>2, <2>3, <2>5, <2>6 DEF ContextInv
<1>9. CASE InitFails \/ LeaveInit
  <2>1. /\ pnp \in {"init", "leave"} /\ pnp' = "up"
        /\ UNCHANGED <<powerUps, ctx>> /\ owners' = owners \ {Pnp}
    BY <1>9 DEF InitFails, LeaveInit, PnpStep, Unlock, adapterVars
  <2>2. ~Inside(Pnp)' /\ Present /\ Present'
    BY <2>1 DEF Inside, Present
  <2>3. owners' \ {Device} = {u \in Users : Inside(u)}'
    BY <1>1, <1>2, <1>3, <1>4, <2>1, <2>2
  <2> QED
    BY <1>1, <1>4, <2>1, <2>2, <2>3 DEF ContextInv
<1> QED
  BY <1>5, <1>6, <1>7, <1>8, <1>9 DEF Framework

LEMMA ContextStep ==
  ASSUME ContextInv, [Next]_vars
  PROVE  ContextInv'
<1>1. CASE RetryLog \/ CheckRetry
  BY <1>1, ContextSame DEF RetryLog, CheckRetry, contextVars, adapterVars
<1>2. ASSUME NEW a \in Adapters, SetAdapter(a) \/ Startup(a) PROVE ContextInv'
  BY <1>2, ContextSame DEF SetAdapter, Startup, contextVars
<1>3. CASE OthersLock \/ OthersUnlock \/ DepartureHangs \/ UNCHANGED vars
  BY <1>3, ContextSame
     DEF OthersLock, OthersUnlock, DepartureHangs, vars, contextVars, adapterVars
<1> QED
  BY <1>1, <1>2, <1>3, HandlerContext, FrameworkContext DEF Next

THEOREM ContextInvariant == Spec => []ContextInv
BY ContextInit, ContextStep, PTL DEF Spec

\* While a callback or a handler is at work on the device context something keeps it alive,
\* whenever the device is removed, and after that nothing else does (wdf.rs:193 to 480).
THEOREM ContextLives == Spec => []ContextLifetime
<1>1. ContextInv => ContextLifetime
  <2> SUFFICES ASSUME ContextInv PROVE ContextLifetime
    OBVIOUS
  <2>1. \A u \in Users : Inside(u) => u \in owners
    BY DEF ContextInv
  <2>2. ctx[Device] # "strong" => owners \subseteq {u \in Users : Inside(u)}
    BY DEF ContextInv
  <2> QED
    BY <2>1, <2>2 DEF ContextLifetime
<1> QED
  BY <1>1, ContextInvariant, PTL
-----------------------------------------------------------------------------
(* The adapters and the server *)

LEMMA AdapterInit == Init => AdapterInv
BY DriverStartAssumption DEF Init, AdapterInv

\* Steps that leave the adapters alone.
LEMMA AdapterSame ==
  ASSUME AdapterInv, UNCHANGED <<powerUps, finish, adapter, servers>>,
         pnp' \in {"wait", "init"} => pnp \in {"wait", "init"},
         \A a \in Adapters : ctx'[a] = ctx[a]
  PROVE  AdapterInv'
BY DEF AdapterInv

LEMMA AdapterStep ==
  ASSUME ~FinishesEarly, ContextInv, AdapterInv, [Next]_vars
  PROVE  AdapterInv'
<1>1. Device \notin Adapters /\ Adapters \subseteq Nat /\ None \notin Adapters
  BY DriverStartAssumption DEF Device, Adapters, Handles
<1>2. Adapters \subseteq Handles /\ Device \in Handles
  BY DEF Handles
<1>3. CASE DriverEntry \/ CreateDriver \/ InitializeFails \/ PowerDown
  BY <1>3, AdapterSame
     DEF DriverEntry, CreateDriver, InitializeFails, PowerDown, PnpStep, contextVars, adapterVars
<1>4. CASE CreateDevice \/ InitContext \/ Cleanup
  <2>1. \A a \in Adapters : ctx'[a] = ctx[a]
    BY <1>1, <1>2, <1>4 DEF CreateDevice, InitContext, Cleanup, ContextInv
  <2> QED
    BY <1>4, <2>1, AdapterSame DEF CreateDevice, InitContext, Cleanup, PnpStep, adapterVars
<1>5. CASE EnterInit \/ InitFails \/ LeaveInit
  BY <1>5, AdapterSame DEF EnterInit, InitFails, LeaveInit, PnpStep, adapterVars
<1>6. CASE PowerUp
  <2>1. /\ pnp' = "wait" /\ powerUps' = powerUps + 1 /\ powerUps < MaxPowerUps
        /\ UNCHANGED <<ctx, finish, adapter, servers>>
    BY <1>6 DEF PowerUp, PnpStep
  <2>2. powerUps \in Nat /\ powerUps' \in Adapters
    BY <2>1, DriverStartAssumption DEF ContextInv, Adapters
  <2>3. finish[powerUps'] = "none"
    BY <1>1, <2>1, <2>2 DEF AdapterInv
  <2>4. \A a \in Adapters : finish[a] # "none" => a <= powerUps'
    BY <1>1, <2>1, <2>2 DEF AdapterInv
  <2> QED
    BY <2>1, <2>2, <2>3, <2>4 DEF AdapterInv
<1>7. CASE InitAdapter
  <2>1. /\ pnp = "init" /\ pnp' = "clone"
        /\ ctx' = [ctx EXCEPT ![powerUps] = "zero"]
        /\ finish' = [finish EXCEPT ![powerUps] = "pending"]
        /\ UNCHANGED <<powerUps, adapter, servers>>
    BY <1>7 DEF InitAdapter, PnpStep
  <2>2. powerUps \in Adapters /\ finish[powerUps] = "none"
    BY <2>1 DEF AdapterInv
  <2>3. /\ finish' \in [Adapters -> {"none", "pending", "set", "refused", "done"}]
        /\ finish'[powerUps] = "pending"
        /\ \A a \in Adapters \ {powerUps} : finish'[a] = finish[a] /\ ctx'[a] = ctx[a]
    BY <1>2, <2>1, <2>2 DEF AdapterInv, ContextInv
  <2>4. adapter # None => adapter \in Adapters \ {powerUps}
    BY <2>2 DEF AdapterInv
  <2>5. \A a \in Adapters : finish'[a] # "none" => a <= powerUps
    BY <1>1, <2>2, <2>3 DEF AdapterInv
  <2> QED
    BY <2>1, <2>3, <2>4, <2>5 DEF AdapterInv
<1>8. CASE CloneInto
  <2>1. /\ pnp' = "leave" /\ ctx' = [ctx EXCEPT ![powerUps] = "weak"]
        /\ UNCHANGED <<powerUps, finish, adapter, servers>>
    BY <1>8 DEF CloneInto, PnpStep, adapterVars
  <2>2. \A a \in Adapters : ctx'[a] = ctx[a] \/ ctx'[a] = "weak"
    BY <1>2, <2>1 DEF ContextInv
  <2> QED
    BY <2>1, <2>2 DEF AdapterInv
<1>9. ASSUME NEW a \in Adapters, SetAdapter(a) PROVE AdapterInv'
  <2>1. finish[a] = "pending" /\ ctx[a] = "weak" /\ UNCHANGED <<pnp, ctx, powerUps, servers>>
    BY <1>9 DEF SetAdapter, contextVars
  <2>2. CASE adapter = None
    <3>1. adapter' = a /\ finish' = [finish EXCEPT ![a] = "set"]
      BY <1>9, <2>2 DEF SetAdapter
    <3>2. /\ finish' \in [Adapters -> {"none", "pending", "set", "refused", "done"}]
          /\ finish'[a] = "set"
          /\ \A b \in Adapters \ {a} : finish'[b] = finish[b]
      BY <3>1 DEF AdapterInv
    <3>3. \A b \in Adapters : finish[b] \notin {"set", "done"}
      BY <1>1, <2>2 DEF AdapterInv
    <3>4. servers = 0
      BY <2>2 DEF AdapterInv
    <3> QED
      BY <1>1, <2>1, <3>1, <3>2, <3>3, <3>4 DEF AdapterInv
  <2>3. CASE adapter # None
    <3>1. adapter' = adapter /\ finish' = [finish EXCEPT ![a] = "refused"]
      BY <1>9, <2>3 DEF SetAdapter
    <3>2. /\ finish' \in [Adapters -> {"none", "pending", "set", "refused", "done"}]
          /\ finish'[a] = "refused"
          /\ \A b \in Adapters \ {a} : finish'[b] = finish[b]
      BY <3>1 DEF AdapterInv
    <3>3. adapter \in Adapters \ {a}
      BY <2>1, <2>3 DEF AdapterInv
    <3> QED
      BY <2>1, <3>1, <3>2, <3>3 DEF AdapterInv
  <2> QED
    BY <2>2, <2>3
<1>10. ASSUME NEW a \in Adapters, Startup(a) PROVE AdapterInv'
  <2>1. /\ finish[a] = "set" /\ finish' = [finish EXCEPT ![a] = "done"]
        /\ servers' = servers + 1 /\ UNCHANGED <<pnp, ctx, powerUps, adapter>>
    BY <1>10 DEF Startup, contextVars
  <2>2. adapter = a /\ adapter # None /\ servers = 0
    BY <1>1, <2>1 DEF AdapterInv
  <2>3. /\ finish' \in [Adapters -> {"none", "pending", "set", "refused", "done"}]
        /\ finish'[a] = "done"
        /\ \A b \in Adapters \ {a} : finish'[b] = finish[b]
    BY <2>1 DEF AdapterInv
  <2> QED
    BY <2>1, <2>2, <2>3 DEF AdapterInv
<1>11. ASSUME NEW c \in Clients, Handler(c) PROVE AdapterInv'
  BY <1>11, AdapterSame
     DEF Handler, LockTable, DropTable, Notify, UpgradeFails, EnterContext, LeaveContext,
         InContext, CreateMonitor, LockTableAgain, StoreObject, contextVars, adapterVars
<1>12. CASE \/ RetryLog \/ CheckRetry \/ OthersLock \/ OthersUnlock \/ DepartureHangs
            \/ UNCHANGED vars
  BY <1>12, AdapterSame
     DEF RetryLog, CheckRetry, OthersLock, OthersUnlock, DepartureHangs, vars, contextVars,
         adapterVars
<1> QED
  BY <1>3, <1>4, <1>5, <1>6, <1>7, <1>8, <1>9, <1>10, <1>11, <1>12 DEF Next, Framework

\* However often the device is powered up there is one pipe server, for the adapter in ADAPTER,
\* whose context was written: if the system ends an adapter's initialisation only after
\* init_adapter's clone_into (callbacks.rs:52, context.rs:199 to 247).
THEOREM OneServerEver ==
  ASSUME ~FinishesEarly
  PROVE  Spec => []OneServer
<1>1. Init => AdapterInv
  BY AdapterInit
<1>2. ContextInv /\ AdapterInv /\ [Next]_vars => AdapterInv'
  BY AdapterStep
<1>3. AdapterInv => OneServer
  <2> SUFFICES ASSUME AdapterInv PROVE OneServer
    OBVIOUS
  <2>1. servers <= 1
    BY DEF AdapterInv
  <2>2. servers = 1 => adapter # None
    BY DEF AdapterInv
  <2> QED
    BY <2>1, <2>2 DEF AdapterInv, OneServer
<1> QED
  BY <1>1, <1>2, <1>3, ContextInvariant, PTL DEF Spec
-----------------------------------------------------------------------------
(* FrameworkCall *)

\* A status is a success, a warning or an error, and only one of them; an information is a
\* success: is_success's two ranges and the three other tests leave no gap and no overlap.
THEOREM Severities ==
  ASSUME NEW s \in Status
  PROVE  /\ IsSuccess(s) \/ IsWarning(s) \/ IsError(s)
         /\ ~(IsSuccess(s) /\ IsWarning(s)) /\ ~(IsWarning(s) /\ IsError(s))
         /\ ~(IsSuccess(s) /\ IsError(s))
         /\ IsInformation(s) => IsSuccess(s)
BY SMT DEF Status, Limit, IsSuccess, IsInformation, IsWarning, IsError

\* An HRESULT or status that is negative as an i32 is not a success, any other is one: the test
\* of the bits agrees with the sign that C code tests.
THEOREM SignIsFailure ==
  ASSUME NEW n \in Int, -2147483648 <= n, n <= 2147483647
  PROVE  FromI32(n) \in Status /\ (IsSuccess(FromI32(n)) <=> n >= 0)
BY SMT DEF Status, Limit, FromI32, IsSuccess

\* The function pointer that WdfCall and IddCxCall read, after the test of availability, is in
\* the framework's table, be the framework older or newer than the driver.
THEOREM ReadsInTable ==
  ASSUME NEW fw \in FrameworkInfo, NEW built \in Nat, NEW always \in Nat, TableFits(fw, built, always),
         NEW index \in 0 .. built - 1, IsFunctionAvailable(fw, index, always)
  PROVE  index < fw.length
BY SMT DEF FrameworkInfo, TableFits, IsFunctionAvailable

\* Every wrapped call of the display framework is Ok exactly if the function was there and
\* answered with a success, and a callback that passes the Result on answers what the function
\* did: no wrapper forgot that its function answers with an HRESULT.
THEOREM FailuresSurface ==
  ASSUME NEW name \in SetupCalls \cup MonitorCalls \cup SwapChainCalls, NEW answer \in Answer,
         answer.type = AnswerType(name), NEW available \in BOOLEAN
  PROVE  LET result == IddCxCall(available, answer, OtherIsError(name))
         IN  /\ result.ok <=> available /\ IsSuccess(answer.status)
             /\ available => result.status = answer.status
             /\ result.ok <=> IsSuccess(result.status)
<1>1. ~IsSuccess(STATUS_NOT_FOUND)
  BY SMT DEF IsSuccess, STATUS_NOT_FOUND, FromI32, Limit
<1>2. IsNtError(answer, OtherIsError(name)) <=> ~IsSuccess(answer.status)
  BY DEF IsNtError, OtherIsError, AnswerType
<1> QED
  BY <1>1, <1>2 DEF IddCxCall, Ok, Err

\* The errors of a context that is gone or of a missing function are failures also as statuses;
\* LockFailed, the error of a poisoned lock, is not: STATUS_WAS_LOCKED is an information.  A
\* callback that passes it on, as assign_swap_chain does, reports success for nothing done.
THEOREM LockFailureLooksFine ==
  /\ IsInformation(ErrorStatus.LockFailed) /\ IsSuccess(ErrorStatus.LockFailed)
  /\ ~IsSuccess(ErrorStatus.UpgradeFailed)
  /\ ~IsSuccess(ErrorStatus.NotAvailable)
  /\ ~IsSuccess(ErrorStatus.Unknown)
BY SMT DEF ErrorStatus, IsInformation, IsSuccess, STATUS_WAS_LOCKED, STATUS_INVALID_HANDLE,
           STATUS_NOT_FOUND, STATUS_DRIVER_INTERNAL_ERROR, FromI32, Limit
=============================================================================
