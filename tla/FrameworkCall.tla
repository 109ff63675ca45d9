--------------------------- MODULE FrameworkCall ---------------------------
(***************************************************************************)
(* How the driver calls the frameworks it runs in: rust/wdf-umdf-sys and   *)
(* rust/wdf-umdf.  A function is taken from the framework's table if the   *)
(* framework is new enough, called, and what it answers becomes a Result,  *)
(* which a callback may turn back into a status for the system.            *)
(*                                                                         *)
(* A status is the number its 32 bits are without a sign.                  *)
(***************************************************************************)
EXTENDS Integers

Limit  == 4294967296
Status == {n \in Nat : n < Limit}

\* From<i32>: the same bits.
FromI32(n) == IF n < 0 THEN n + Limit ELSE n

IsSuccess(s)     == s <= 2147483647
IsInformation(s) == 1073741824 <= s /\ s <= 2147483647
IsWarning(s)     == 2147483648 <= s /\ s <= 3221225471
IsError(s)       == 3221225472 <= s

STATUS_SUCCESS               == 0
STATUS_NOT_FOUND             == FromI32(-1073741275)
STATUS_INVALID_HANDLE        == FromI32(-1073741816)
STATUS_WAS_LOCKED            == 1073741849
STATUS_DRIVER_INTERNAL_ERROR == FromI32(-1073741437)
-----------------------------------------------------------------------------
(* What the framework has.  Of a framework older than the driver only the     *)
(* functions up to its own count may be used.                                 *)

\* [higher, count, length]: is the driver newer, the framework's count, its table's length.
FrameworkInfo == [higher : BOOLEAN, count : Nat, length : Nat]

IsFunctionAvailable(fw, index, always) == index < always \/ ~fw.higher \/ index < fw.count

\* What the loader and the framework see to: a table has the functions the driver was built
\* for, unless the framework is older; those that are always available it has in any case.
TableFits(fw, built, always) ==
  /\ always <= fw.length
  /\ IF fw.higher THEN fw.count <= fw.length ELSE built <= fw.length
-----------------------------------------------------------------------------
(* What a function answers, and the Result made of it *)

Types  == {"NTSTATUS", "i32", "other"}
Answer == [type : Types, status : Status]

\* A status, or, where the wrapper says so, an i32, that is not a success.
IsNtError(answer, otherIsError) ==
  /\ answer.type = "NTSTATUS" \/ (otherIsError /\ answer.type = "i32")
  /\ ~IsSuccess(answer.status)

\* WdfError and IddCxError: CallFailed and NtStatus keep the status, the others have one.
ErrorStatus ==
  [NotAvailable  |-> STATUS_NOT_FOUND,
   UpgradeFailed |-> STATUS_INVALID_HANDLE,
   LockFailed    |-> STATUS_WAS_LOCKED,
   Unknown       |-> STATUS_DRIVER_INTERNAL_ERROR]

Ok(status)  == [ok |-> TRUE, status |-> status]
Err(status) == [ok |-> FALSE, status |-> status]

\* WdfCall: its Result, with the status From<Result> makes of it.
WdfCall(available, answer, otherIsError) ==
  IF ~available THEN Err(ErrorStatus.NotAvailable)
  ELSE IF IsNtError(answer, otherIsError) THEN Err(answer.status) ELSE Ok(answer.status)

\* IddCxCall: the same, with errors of its own.
IddCxCall(available, answer, otherIsError) ==
  IF ~available THEN Err(STATUS_NOT_FOUND)
  ELSE IF IsNtError(answer, otherIsError) THEN Err(answer.status) ELSE Ok(answer.status)

\* The wrappers, by what their functions answer; those of swap chains pass `true`.
SetupCalls ==
  {"IddCxDeviceInitConfig", "IddCxDeviceInitialize", "IddCxAdapterInitAsync", "IddCxMonitorCreate",
   "IddCxMonitorArrival"}
MonitorCalls ==
  {"IddCxMonitorDeparture", "IddCxMonitorSetupHardwareCursor", "IddCxMonitorQueryHardwareCursor",
   "IddCxAdapterDisplayConfigUpdate"}
SwapChainCalls ==
  {"IddCxSwapChainSetDevice", "IddCxSwapChainReleaseAndAcquireBuffer",
   "IddCxSwapChainFinishedProcessingFrame"}

OtherIsError(name) == name \in SwapChainCalls

\* What the framework declares: an HRESULT, which is an i32, for swap chains.
AnswerType(name) == IF name \in SwapChainCalls THEN "i32" ELSE "NTSTATUS"
=============================================================================
