# A verification project for virtual-display-rs

virtual-display-rs is a Windows indirect display driver written in Rust, with a client
library, a command line, a Python module, a service for user sessions, a capture service for
real displays and a graphical client. The driver keeps a list of virtual monitors and makes
the operating system show them; clients change the list over a named pipe. It can record the
monitors to an MP4 file and leaves their frames in shared memory.

This directory holds TLA+ models of the parts of the system in which several threads, tasks
or programs meet, the TLC runs that check them on small instances, and proofs, checked by
TLAPS, of the most important facts for instances of every size. Source paths below are
relative to the repository; `rust/` is the Cargo workspace.

## 1. Inventory

| Part | State | Operations | Modelled in |
|---|---|---|---|
| Monitor registry: `virtual-display-driver/src/ipc.rs`, `context.rs` | `MONITOR_MODES` (rows: a client's data and the OS handle), the device context's lock, the broadcast channel | Notify, Remove, RemoveAll, State; `create_monitor`; a server task per client | `MonitorRegistry`, `MonitorService` |
| Recording: `ipc.rs`, `recording.rs`, `swap_chain_processor.rs` | `RECORDING_STATE`, a session (stop signal, channel, counters), an encoder thread | StartRecording, StopRecording, a captured frame, the encoder's loop | `Recording` |
| Swap chain threads: `swap_chain_processor.rs`, `context.rs`, `callbacks.rs` | the processor in a monitor's context, its termination flag and thread, RECORDING_STATE and MONITOR_MODES as locks | assign, unassign, `run`, `run_core` | `SwapChain` |
| Shared memory frames: `shared_memory.rs` of the driver and of `dxgi-capture` | a named section: header, sequence, ring of frames | create, `write_frame`, drop, a reader | `FrameRing`, in `SwapChain` and `DxgiCapture` |
| Mode reports to the OS: `callbacks.rs` | what the OS was told | `parse_monitor_description`, `monitor_query_modes` | `ModeReport` |
| EDID and timings: `edid.rs`, `callbacks.rs` | none | the serial number, the checksum, the two descriptions of a mode | `MonitorDescription` |
| Encoder: `encoder.rs` | none that is shared | colour conversion, length check, time stamps | `FrameConversion` |
| Driver start: `entry.rs`, `callbacks.rs`, `context.rs`, `wdf-umdf/src/wdf.rs` | the log, `ADAPTER`, the objects' contexts | driver entry, device add, power-up, adapter ready, cleanup | `DriverStart` |
| Framework calls: `wdf-umdf`, `wdf-umdf-sys` | the framework's tables | how a function is found, called, and its answer classified | `FrameworkCall` |
| Client, one connection: `driver-ipc/src/client.rs`, `driver_client.rs` | the pipe, the receive task, a broadcast channel, the watched state | `request_state`, `receive_command`, `receive_events`, `new_with` | `ClientLink` |
| Client lifetime and subscriptions: `client.rs`, `sync/client.rs` | the `Arc` shared by copies, the abort notification, a subscription's task | clone, drop, `cancel`, `cancel_async`, the callback | `Subscription` |
| Editing a list: `driver_client.rs` | `DriverClient.state` and `state_rx` | set, add, replace, remove, enable, modes, queries, `notify`, `refresh_state` | `Editing` |
| Command line: `virtual-display-driver-cli` | a copy of the list for one run | every command, the merging of typed modes | `CommandLine` |
| User session service: `vdd-user-session-service` | the latest session, the identity of each thread | logon, logoff, stop, `notify` | `SessionService` |
| Capture service: `dxgi-capture` | capture threads, their sections, the control pipe's buffers | start, stop, state, displays | `DxgiCapture` |
| Everything else: synchronous wrappers, the tests' mock, the driver's pipe framing, Direct3D, Python, C# control, installer | little or none | | no, see section 7 |

How they interact. A client program calls `DriverClient`, which edits a local list and
sends all of it with `notify`. The driver's server task for that client (`process_message`)
changes `MONITOR_MODES`, tells the operating system, and sends the new list to every other
server task through a `tokio::sync::broadcast` channel of capacity one; those write it to
their pipes. In the client the receive task copies each message into a second broadcast
channel, to which requests, event streams and `DriverClient`'s watcher subscribe. The
operating system calls back into the driver: it asks for the modes of a monitor that was
plugged in, by its EDID and by its handle, and assigns a swap chain to it, whose thread asks
`RECORDING_STATE` for each frame whether it is recorded and leaves the frame in a named
section that any program may read. The session service and the command line are clients like
any other; the capture service is a program of its own that fills the same kind of section.

What is hard in it. Handlers of two clients interleave wherever a lock is released
(`ipc.rs:722` is the sharpest case); an OS call may fail half way through a command; the
capacity-one channel overwrites; replies and events share one channel, and a reply has no
request number; a subscription's cancel, drop, event, panic and end of stream may coincide;
the recording state is asked under the lock and used under a later one; a callback joins a
thread that needs locks other callbacks may wait under; a section of shared memory outlives
its writer when a reader keeps it open; a context is used from handlers while its device is
removed; arithmetic wraps. The list `hazards` in `PROJECT.json` names each at its line, with
the properties that cover it.

What makes each part correct. Registry: every handle in the table is a live monitor of that
row, and what is plugged in is what the table says. Recording: each encoder thread is
stopped and joined exactly once and, while it lives, drops no frame that its encoder would
take. Swap chains: one thread per monitor, every swap chain given back, callbacks return.
Shared memory: one writer as long as no monitor was let go, each within the section, and a
read that looks stable is one frame. Driver start: the context lives as long as
it is used, one pipe server. Mode reports: what the OS was told is what the row holds.
Connection: replies are not stale, the watched state converges, requests return.
Subscription: streams outlive copies, a cancel ends the task, the callback is quiet
afterwards. Editing and command line: the client's checks are those of the driver, a listener
follows it, and no call touches a monitor it is not about. Session service: never the list of
its own account, and it stops.
Capture service: each command answered in order, one capture per display.

## 2. Modules, and how they correspond to the code

### MonitorRegistry and MonitorService

`table` is `MONITOR_MODES`: for every id a row (`Entry`) or `NoEntry`. `os` is what the
operating system holds for every handle: nothing, a monitor that was created, or one that
has arrived. `context` is the write lock of the device context, held for the whole closure
given to `get_mut` (`ipc.rs:724-738`). Each client's handler has a program counter:

    idle -NotifyMerge-> merged -EnterContext-> creating -CreateMonitor-> created
      -StoreObject-> stored -Arrive/ArriveFails-> creating ... -LeaveContext-> send -Send-> idle
    idle -Remove-> removed -SendSnapshot-> idle          idle -RemoveAll-> send -Send-> idle

Everything done under one acquisition of `MONITOR_MODES` is one action: `NotifyMerge` is
`notify` up to `drop(lock)`, with its departures, its update of the rows and the list of
arrivals. `CreateMonitor`, `StoreObject` and `Arrive` are separate because
`create_monitor` takes the lock anew to store the handle, if the row is still there. `slot`
and `unread` are the broadcast channel of capacity one; `mirror` is the list each client was
last told of. Modes and names are only compared, so they are model values.

`MonitorService` is the promise: clients declare a list, the OS shows only declared and
enabled monitors, and one whose modes are unchanged stays shown. The refinement mapping is
`declared <- CurrentView`, `shown <-` the serials of the monitors that have arrived.

### ModeReport

Composes the registry's `Next` with the system's queries. The system asks first for a count
and then with a buffer of that size; `query` is the query between its two calls, `known`
what the system was told of each monitor. `parse_monitor_description` finds the row by the
id in the EDID and may do so before the handle is stored; `monitor_query_modes` by the
handle. A buffer that has become too small comes back unfilled, with success for a target
(`TooSmall`). `Forget` is the conjunct that drops what was known of a monitor that departed.
A value of `Monitor.modes` matters by its number of refresh rates only (`ModeCount`).

### Recording

`rec` is `RECORDING_STATE`. Its mutex is short-lived everywhere but in `StartRecording`,
which keeps it while it joins the old session's encoder; only there does `lock` name a
holder. `StopRecording` takes the session out under the lock and joins it after. A
session's `chan` holds, for each frame, the monitor it came from; `enc` is the encoder
thread's place in `encoder_thread_main`. `encode_frame` may encode a frame (`handled`), refuse
it with an error that is only logged (`lost`), or panic, which ends the thread and what its
channel held (`panicked`); the encoder may also not come up at all. A swap-chain thread
(`cap`) first asks `is_recording`, then copies the frame, and sends it under a second
acquisition of the lock; `want` is the list of ids a session was started for and `strays`
counts the frames it was sent of other monitors. The ids that clients ask for (`IdLists`) need
not be those of the `Monitors` that produce frames. The throttle of `try_send_frame` is
abstracted to "may skip" (`SkipFrame`).

### FrameRing and SwapChain

`FrameRing` has no variables: a section is a record (the size it was created for, the header,
the slots), and its operators are what `SharedMemoryWriter` does to one: open or create by
name (`CanMap`, since opening never enlarges), write the header, write a slot, publish it.
Publishing stores the sequence the writer had loaded, plus one (`WriteStored`), so two writers
of one section undo each other's. Frames are numbers; `Torn` is a slot that is being written.

In `SwapChain` a monitor has at most one callback of the system at a time (`call`), because
`assign_swap_chain` and `unassign_swap_chain` run under its context's write lock; the device
is made, and the old processor joined, inside it. A swap chain names the thread that serves
it; `thread` follows `run` and `run_core` call by call, with each failure (priority, setup,
acquire, map) as an action, and ends with the deletion of the swap chain. `SharedMemoryWriter`
writes in two steps, the slot and then the sequence (`copy` is what it has in hand).

A monitor object is plugged in once (`plug`), but its id comes back: a change of modes makes
the old object depart and plugs another in with the same id (`ipc.rs:682-738`). `IdOf` gives
the id of each object. A section is the id's, since its name is `Global\VDD_Frame_{id}`, and so
is what is recorded; the processor and the thread are the object's. A departure may fail
(`DepartureFails`: the row has lost the handle and the old object lives on) or may return
before the old thread has ended, so two threads can have one section open: `mixed` marks such
a section until it is opened afresh by one thread alone.

The handlers of `ipc.rs` appear with the two locks only: start, stop and query of a recording,
the plugging in of a monitor, and a departure that holds `MONITOR_MODES`, which may wait for
the unassign callback (`DepartureWaits`); whether it does is the system's decision and not in
the source, so the runs allow it. The reader is any program that follows the header's protocol;
it closes the section when it has read, and a section nobody has open is gone.

### DriverStart

`pnp` is the framework's thread in `DriverEntry`, `driver_add`, `device_d0_entry` and
`event_cleanup`; `retry` the thread that retries the log, with `slept` counted up to
`LogTimeout`; `finish[a]` the callback that ends adapter `a`'s initialisation, set in any
order with the rest of `init_adapter` if `FinishesEarly`. `ctx` is the memory of each WDF
object: nothing, zeroed, an `Arc`, a `Weak`, or dropped. `owners` is the set of strong
references, the device's own and one for every user inside `get`, `get_mut` or `init`.

A handler in `notify` takes two locks: `MONITOR_MODES` (`modes`) up to `drop(lock)`, then the
context's write lock, and inside that, for each monitor it creates, `MONITOR_MODES` again
(`LockTableAgain`, `StoreObject`: `context.rs:200`). `Others` is everybody else who locks the
table for a moment. A departure called under the table's lock may never return (`hung`),
which is the circle of SwapChain seen from here.

### SessionService

Two threads, `main` (`run_service`) and `control` (the event handler), each in its place in
`notify` (`at`), with the identity it acts under (`as`), the token it queried and the list it
read. `hive` is whose settings `HKEY_CURRENT_USER` stands for in this process: Windows maps
that key at its first use and keeps it, so the first thread that reads decides
for all, and a later impersonation does not move it (`service.rs:145`). `latest` has two copies since `latest_session` is `Copy` and moved into the handler.
The pipe may be there or not; a connection fails or waits accordingly.

### DxgiCapture

`wire` and `buf` are a connection's bytes on both sides of a read: messages and `EOF` bytes,
of which a read takes any prefix, so every cut is there. A message is a command, `junk`
(text, but no command) or `binary` (bytes that are no text); `handled` lists what was taken
from the buffer, each as what it was answered as, or skipped. `lock` is
the tokio mutex around `CaptureService`, held across `stop`, which joins the threads. A capture thread has the states of `capture_thread`:
setup, duplication (lost and tried again), acquire, write; its section is a `FrameRing` with
three slots.

### ClientLink

The driver's state is a version number. `requests` and `replies` are the two directions of
the pipe, `inbox[r]` what receiver `r` has not had yet of the client's broadcast channel,
with its capacity and its overwriting of the oldest. `watcher` is `new_with`: none, then a
gap between the reply and `receive_events`, then following. `oldest` and `base` are history
variables for the properties. `Break` ends the pipe at any point of the traffic.

### Subscription

Copies of a `Client` are cloned and dropped (`Client::drop` looks at the `Arc`'s count, may
notify, and releases, which are two steps); `reader` is the receive task, which can be
notified only while it waits in its `select!`. `task` is the body of `start_subscriber`;
`token` is the abort channel's single place; the owner (`user`) cancels, awaits or drops, as
often as it likes. `result` is the oneshot channel of the callback's panic and what is
in `result_rx`: a receiver that is open, one that is spent because a `cancel` has had the panic
or the end from it, or nothing since `cancel_async` took it. Awaiting a spent one panics.

### Editing and CommandLine

One action per operation of `DriverClient` that changes the list, each as success or
failure with exactly the code's order of checks: `find_id`'s single pass, `new_id`'s
inverted test, `add_mode`'s last loop. `FindMonitorMut` keeps what its closure did to the
monitor (one of `Offered`) also when it then fails for duplicates. A text is a number, and one
that is an id is the text that parses to it.

The driver deals with a list in two steps. `Apply` is `notify`: it refuses the list, or makes
it the table, whose order it keeps (`Applied`). `Broadcast` sends the list as it came, later
and with no lock held since, so lists of two programs may be broadcast in the other order;
`pending` holds those in between, each marked once a later one has been applied (`overtaken`).
`letIn` says that a call has left duplicates in a copy.
`CommandLine` adds runs of the command line client: a run connects, which copies the list,
carries out one command with those operations, and notifies, other programs between each of
these. Modes typed by the user are merged by resolution, in any order since the code goes
through a hash map (`mode.rs`): `Orders` is the set of orders. `Retain` is Rust's `retain`,
which keeps what is at some places in its order; `Ascending` is the order of a `BTreeSet`, in
which the refresh rates of the command line are kept.

### Modules of operators

`FrameworkCall`, `MonitorDescription` and `FrameConversion` have no state. They define what
the code computes: statuses and `Result`s; bytes of an EDID and timings modulo 2^32; indices,
colours and time stamps. What follows from them for every input is proved in
`DriverStartProofs`, `MonitorRegistryProofs` and `RecordingProofs`, beside the components
that call that code.

### Faulty variants

An operator whose comment begins "Faulty variant" is used by no specification. Each is the
definition after it with one plausible mistake, a forgotten reset or a dropped test; put
in its place it makes a property fail, which shows that the property depends on the code.

### MC modules and proofs

`MC*.tla` name small sets and the symmetry. The theorems are in eight modules:

| Module | Theorems about |
|---|---|
| `MonitorRegistryProofs` | MonitorRegistry and its refinement of MonitorService, ModeReport, MonitorDescription |
| `RecordingProofs` | Recording, FrameConversion |
| `SwapChainProofs` | SwapChain with FrameRing |
| `DriverStartProofs` | DriverStart, FrameworkCall |
| `DxgiCaptureProofs` | DxgiCapture with FrameRing |
| `SubscriptionProofs` | Subscription |
| `ClientLinkProofs` | ClientLink |
| `EditingProofs` | Editing, CommandLine, SessionService |

SessionService and CommandLine have names of their own for their specifications
(`SessionSpec`, `CliSpec`), because `EditingProofs` extends both.

## 3. What the runs check

One run per question. All numbers are instances, not limits of the models.

| Run | Instance | What it shows |
|---|---|---|
| RegistryRace | two writers, one id, three handles, every failure and refused lists | `TypeOK`, `HandlesFaithful`: handles never dangle and never cross rows |
| RegistrySingle | one writer, one listener, two ids, two mode lists, two handles, creation fails | `TableMatchesOs`, `DisconnectedIsRetried`, `NoHandleLost`, `ListenersAgree`; the registry implements `MonitorService` (`ImplementsService`) |
| ModeReport | one writer and a listener, one id, one handle, mode lists of one and of two rates, departures fail | `KnownIsCurrent`, `TargetFilled`: the system never keeps modes the row no longer has; `ListenersCatchUp`: a listener learns the last state |
| Recording | two clients, two sessions, one monitor, recordings of all or of another one, two places, two frames, encoders that do not start, refuse frames or panic | `NoEncoderForgotten`, `EncoderDrained`, `AtMostOneStray`, `NoFrameAfterStop`, `StopReplies` |
| SwapChain | one monitor, two swap chains, one size, two slots, three frames, two clients, departures that wait or fail | `StableReadIsWhole`, `ChainsGivenBack`, `CallbackEnds` |
| SwapChainReplug | two monitor objects of one id, two swap chains, two sizes, one frame, one client, departures that wait or fail | `OneWriter`, `WriterFits`: two threads share a section only after a failed departure, and neither writes past its end |
| DriverStart | two handlers, others who lock the table, two power-ups, two sleeps of the retry thread | `ContextLifetime`, `OneServer`, `LoggerSettles`, `PowerUpEnds` |
| ClientLink | two requesting tasks, a watcher, capacity 2, timeouts, a pipe that breaks | `AnswerNotTooOld`, `WatcherKeepsUp`, `RequestsReturn` |
| Subscription | three copies, three events, cancels in any order and number, panics, a pipe that breaks | `StreamOutlivesCopies`, `QuietAfterAwait`, `HeldCancelEnds`, `AwaitTerminates` |
| Editing | a program that edits, runs of the command line beside it, a listener; two ids of which one is also a name, two edits, broadcasts that may be reordered | `NeverRefused`, `ListenerIsCurrent`, `OnlyNamedRowsChange` |
| SessionService | two sessions, two users, three events | `FirstUsersList`, `StopEnds` |
| DxgiCapture | two connections, two messages, two displays of which one is read, three threads, three slots, three frames | `AnsweredInOrder`, `OneCapturePerDisplay`, `OvertakenReadIsWhole`, `CommandsAnswered` |

Why the bounds are enough. In the registry the races are between two handlers over one row,
so two writers and one id have them all; three handles let both create while a third is
taken, and they run out, since a created monitor that never arrives keeps its own. Two ids are
needed for a list to lose one and keep another. That run counts states that differ only in what
the writer was told as one (`ListenersView`): no step reads it, and no property of the run
does. In ModeReport the two mode lists differ in
their number of rates, so a buffer is too small and too large; one handle is reused by the
system at once, which is the sharper case for what it remembers. The Recording run has a
session that is replaced and one that replaces it; with capacity 2 and two frames a session
a channel is full, is drained in part, and is empty with frames sent, and a frame is encoded
while the other is refused or is lost in a panic. A recording of all monitors and one that
leaves out the monitor which produces frames are enough for a stray frame, and two frames for
a second one. In SwapChain a second swap chain replaces the first while a reader keeps its
section; three frames in two slots overwrite a slot that is being read. Two clients wait on
each other for the two locks. In SwapChainReplug each of the two swap chains may be of either
object, so the section is opened by two threads of one monitor or of two, with a size that
grows or shrinks; a frame more adds nothing to who has it open. In DriverStart the second
power-up is the one that is refused; two sleeps stand for the five minutes. In ClientLink
one change makes a reply old, and replies of two tasks with the event overfill the channel's
two places: answers cross, the watcher lags, the pipe breaks in every state. Subscription needs a copy that clones while another
drops. Editing needs an edit that prepares a state and one that acts on it; its start list
and the lists of `set_monitors` give the first one more variety. SessionService needs a logon
that overtakes another, and one to undo; DxgiCapture a command that arrives in two pieces, or
two in one, a start that replaces a start, and a thread that fails beside one that runs.

What is left out of a run is an assumption of its property. `TableMatchesOs`,
`ListenersAgree`, `DisconnectedIsRetried` and `NoHandleLost` are false with two writers or
with arrivals that fail, as section 6 says; `RequestsReturn` is checked without relying on
the five seconds of the timeout, with fewer events than the channel holds; `OneServer` is for a system that
ends an adapter's initialisation after `init_adapter` has written its context
(`FinishesEarly`), which the code takes for granted.

Other exceptions are part of the property. `EncoderDrained` is about threads that did not
panic, and counts frames their encoder refused. `OneWriter` allows two writers of a section
when one's monitor was let go: its departure failed, or did not wait; `StableReadIsWhole` says
nothing of a section with two writers, nor of a reader whose header was written anew.
`NeverRefused` excepts lists after `replace_monitor` or `find_monitor_mut` let duplicates in;
`ListenerIsCurrent` broadcasts that were reordered and a last list the driver refused;
`PowerUpEnds` a departure that hangs, `CallbackEnds` the circle of locks; `AwaitTerminates` is
about a `cancel_async` that waits, not one that panics at once. Where such an exception goes
against a sentence of the repository it is in section 6, and the property that has none stands
beside its weaker form (`OnlyWantedMonitors`, `NeverPanics`, `CancelledEnds`,
`RefreshIsCurrent`, `EmptyTableUnplugs`), in no run.

Deadlock is checked in every run but Subscription, the two of SwapChain, DxgiCapture,
DriverStart and SessionService. There the system may rest: every copy is dropped, the device is removed, the
service has stopped, or a bound on swap chains, threads, frames or events is used up; in
SwapChain the circle of section 6 is a real deadlock, and `CallbackEnds` says it is the only
way in which a callback hangs.

## 4. Fairness

Weak fairness of a handler, an encoder thread or a task means that it goes on when it can:
tokio polls every ready task, threads are scheduled, `recv_timeout` returns after 100 ms.
No fairness is given to commands, frames, edits, cancels, drops, logons, power-ups, queries
of the system, failures, timeouts or the breaking of a pipe: nobody owes them.

Strong fairness is used where something is offered again and again rather than all the time:

- `TaskTakesToken` in Subscription: `tokio::select!` picks at random among the branches that
  are ready, so a token that is there each time the task comes round is not passed over for
  ever.
- `NoFrame \/ AcquireFails` in SwapChain: a swap chain runs out of frames, or ends, again and
  again. Without it `CallbackEnds` fails, because `run_core` looks at `terminate` only then
  (`swap_chain_processor.rs:174`); this is an assumption about the system. `AskRecording \/
  SendFrame` is the thread's turn at the mutex `RECORDING_STATE`.
- `LockService` in DxgiCapture: a tokio mutex hands out in order.
- `EnterInit`, `EnterContext` and `LockTableAgain` in DriverStart: the write lock of a context,
  and the lock of the table, come to whoever waits for them. `LeaveContext`: the list of
  monitors a handler creates is finite, so it is done with it some time.

A departure that hangs (`hung`) keeps the table's lock for ever: `DropTable`, `OthersUnlock`
and everything that waits for the table are then not enabled, and no fairness helps them. In
SwapChain a monitor that is gone gets its unassign callback (weak fairness): the system does
not keep a swap chain on a monitor that departed.

ModeReport uses the registry's fairness for the handlers. In SessionService only the main
thread goes on; the handler may take any time. Editing has no liveness, and no fairness.

## 5. What is proved

Every safety property that a passing run checks is proved, for every value of the constants,
under the named assumptions on them (null values are outside the sets they mark, writers are
clients, bounds are natural numbers, a capacity is positive, the lists and modes given to the
client are lists of monitors and modes). Where a theorem needs more it says so in its ASSUME.
They use no fairness. Under each module are its invariant and the reason it is needed.

**MonitorRegistryProofs.** `TypeCorrect` and `HandlesAreFaithful`: no interleaving of any
number of handlers, with all failures allowed, makes a row refer to a monitor that departed
or to another row's. `HandlesFaithful` is not inductive by itself: `StoreObject` writes the
handler's own handle, of which it says nothing. The invariant proved is

    HandleInv == TypeOK /\ CreatorInv /\ HandlesFaithful

where `CreatorInv` says that only the holder of the device context is creating, and that
the handle it has was created for its target and has not arrived. That is why nobody
else's departure can take it away: `Depart` touches only monitors that have arrived.

Under `Solo` (one writer, and of the OS's calls only creation may fail) `SoloInv` is
inductive too: between commands the handles of the table are exactly the plugged monitors and
only enabled rows have one; while a handler is at work each row it still has to add waits for
its monitor (`Awaits`), and a stored handle is its target's. From it follow
`TableAlwaysMatches`, `NoHandleEverLost`, `AlwaysRetried`, for any number of listeners, ids
and mode lists, and `RegistryImplementsService`: `MonitorService` sees the rows that are
shown (`ShownRows`), a command is its `Declare`, an arrival its `Show`, and every other step
stutters. `ListenersAlwaysAgree` needs `~SendsMalformed` besides, and `AgreeInv`: what a
running handler is going to send is the table, and when none runs a listener has the table
or finds it in its channel.
What a second writer breaks is in section 6.

ModeReport is proved on top of `HandleInv` alone, for any number of writers and every failure:

    ReportInv == Informed /\ CountFits /\ KnownIsCurrent /\ TargetFilled

`Informed` says that the system knows only of monitors that are plugged in; `CountFits` that
the count a target query was told is the row's as long as the row has the handle. The
argument is in two facts about a step of the registry: a row that keeps its handle keeps its
modes, since a change of modes detaches it, and a handle newly stored is of a monitor that
has not arrived (`RowMoves`), so the system knows nothing of it yet. From it follow
`KnownAlwaysCurrent` and `TargetAlwaysFilled`.

**RecordingProofs.** `SessionAlwaysActive`, `EncoderNeverForgotten`, `EncoderAlwaysDrained`,
`StraysAlwaysFew` and `NothingSentAfterStop`. The invariant is

    RecordingInv == TypeOK /\ HandlerInv /\ UnusedInv /\ FramesInv /\ StraysInv
                      /\ SessionIsActive /\ NoEncoderForgotten

`HandlerInv` ties a handler's session to its program counter and the lock to
`StartRecording`, with no session in `RECORDING_STATE` while it is held: without it the
second `Begin` could overwrite a running session. `UnusedInv` says that a session not yet
started is known to nobody, so that starting it disturbs nothing. `FramesInv` is the
conservation law behind `EncoderDrained`: frames encoded, frames refused and frames queued
are the frames sent, until a thread without an encoder drains, or one panics. `StraysInv` is
behind `AtMostOneStray`: while a swap-chain thread has a frame in hand that the session was
not asked for, it has sent it none, since `is_recording` has said no ever since that session
is the current one. `NothingSentAfterStop` follows because a
session some handler is stopping is never the one in `RECORDING_STATE`.

**SwapChainProofs.** `OneWriterEver`, `WriterFitsEver` and `ChainsGivenBackEver`, for any
number of monitors, swap chains and clients:

    SwapChainInv == ChainTypes /\ UnownedInv /\ CallInv /\ DoneInv
                      /\ OneThread /\ WriterFits /\ ChainsGivenBack

`CallInv` carries the argument: a callback that is making a device has joined the old
processor, and its swap chain has no thread yet; so `run` never starts a second one. `DoneInv`
makes a joined thread one that deleted its swap chain; `OneThread` is the half of `OneWriter`
about one monitor object. `WriterFits` follows from the guard of `CanMap`, and from a section
keeping the size it was created with while anybody has it open: a header that another thread
writes anew does not shrink it.

The other half of `OneWriter` is about two objects of one id. It takes a second layer on top of
`SwapChainInv`, `PlugInv`: of two objects that were plugged in with one id and whose departures
did not fail, one is gone (`PairInv`), and a departure that waited and is over has left neither
processor nor callback (`GoneInv`), so no thread, and none that has the section open (`OpenInv`).

`StableReadEver` needs two slots or more and the invariant `SeqlockInv`. A section that two
threads have open is mixed (`MixedInv`), and the writer of one that is not has loaded the
sequence the header still has (`CopyInv`). While a reader's sequence is the header's, the newest
slot is the one it began with, and a writer at work is at another slot, by the arithmetic of
`NotTheNewest` (`RingInv`).

**DriverStartProofs.** `ContextLives`: the device context lives while any callback or handler
is inside it, and not longer than that once the device is removed; `ContextInv` counts its
owners. `OneServerEver`, under `~FinishesEarly`: however often the device is powered up there
is one pipe server, and `ADAPTER` is an adapter whose context is written.

**DxgiCaptureProofs.** `OneCaptureEver`: a running capture thread is one the service will end,
and no display has two. `CaptureInv` adds who holds the mutex (`LockInv`: a start holds it
since it stopped the threads before) and that the threads used are the first ones (`UsedInv`).
`OvertakenReadEver` needs two slots or more. `RingInv` says of each ring and its reader that
the newest frame is whole, and that the slot being read keeps its frame until the ring has
moved on by `Slots - 1`: until then the writer's slot is less than a turn away from it
(`AnotherSlot`).

The bytes of each connection have an invariant of their own, with no reference to the
service: `PipeInv` says that what was dealt with and what is at work are the first messages
sent, and that buffer and pipe together hold a body and an EOF for each of the rest
(`Stream`, by the number of the byte). A read moves the cut (`StreamRead`), and since a body
is no EOF, the first EOF of a buffer that has one is its second byte (`StreamTaken`).
`AnsweredInOrderEver` follows, for reads of any length.

**SubscriptionProofs.** `StreamAlwaysOutlives` and `AlwaysQuietAfterAwait`:

    SubscriptionInv == Types /\ EventsFit /\ CancelsCounted /\ LastCopyWakes /\ ResultIsLast

`LastCopyWakes` makes the first inductive: once the permit is stored for a waiting receive
task no copy is live, and none is cloned from a copy that is going. `ResultIsLast` makes the
second: nothing is in the result channel, and nothing has come out of it, neither to `cancel`
nor to `cancel_async`, before the task has left its loop. `CancelsCounted` and `EventsFit` bound what the types leave open.

**ClientLinkProofs.** `AnswerNeverTooOld` and `WatcherAlwaysKeepsUp`, for any number of
requesting tasks and changes, and any capacity of the client's channel:

    LinkInv == TypeOK /\ OnlySubscribers /\ NotTooOld /\ EventsArrive

`NotTooOld` bounds the age of everything that may still answer a waiting task: the present
state, the replies in the pipe, those in its inbox. `EventsArrive`
follows the newest change forwarded: it is the last event in the pipe; if none is there, the
last in the watcher's inbox; else what the watcher has. Each is kept by an append and by a
removal at the head (`Appended`, `Shortened`), which is all that the pipe and the channel do,
the overwriting of the oldest included.

**EditingProofs.** For a start list the driver would take: `NeverRefusedEver`,
`ListenerAlwaysCurrent` and the action property `OnlyNamedRowsEver`, about `CliSpec`, so for
command line runs beside any number of other programs.

    EditingInv == TypeOK /\ ProperLists /\ BroadcastIsDriver /\ ListenersFollow

`ProperLists`: neither the driver's list nor a command's copy ever repeats an id, a mode of a
monitor or a rate of a mode, and until a call has let duplicates in (`letIn`) no other copy and
no pending, broadcast or watched list does. It has to be about all of them at once, since each
is copied to the next. `BroadcastIsDriver`: a pending list that no later one has overtaken
shows the driver's monitors, and so does the last broadcast unless such a list is
still to come; `SameMonitors` compares them as sets, since `notify` keeps the order of the
table (`Applied`), and a lemma shows that what it makes of a list has the list's monitors.
`ListenersFollow`: who does not edit has the last broadcast once it has read it. For every
operation a lemma gives the list it makes (`GoodEdit`): no
repetition, and the rows of monitors not named as they were and in their order. Removals are
shown by the places they keep (`Retained`), the merging of typed modes by the resolutions
(`Merge` has one mode for each), and `Ascending` is shown to exist: a finite set of numbers has
an order, by rank.

`FirstUsersListEver` is about `SessionSpec`. `ListInv` says that a thread which reads acts as
some user, so `HKEY_CURRENT_USER` is never mapped to the service's own account, and that the
list it then has in hand comes from the settings mapped in the process, whosever they are. A
failed step leaves a thread's old identity in place, so the invariant says nothing of it
before the impersonation.

**FrameworkCall, MonitorDescription, FrameConversion** (in the modules of the table
above). A status is classified without gap or
overlap, a function is read inside the framework's table, failures of framework calls
surface, and `LockFailureLooksFine`. An EDID's bytes close, the id survives them for all 32
bits, the two descriptions of a mode agree while the clock fits (`DescriptionsAgree`) and do
not for 8K at 240 Hz (`ClockWraps`). Colours stay in range, pixels and chromas are inside
their planes for even sizes, some chroma is not for an odd height, time stamps grow and are
never in the future.

Each step lemma has a step per action, or per group of actions with the same effect
(`StartsWith`, `Takes`, `ThreadEffect`).

Only model-checked: all liveness, for which TLAPS has no rules beyond propositional temporal
logic and none for ENABLED: `ListenersCatchUp`, `StopReplies`, `CallbackEnds`, `LoggerSettles`,
`PowerUpEnds`, `RequestsReturn`, `HeldCancelEnds`, `AwaitTerminates`, `StopEnds` and
`CommandsAnswered`. The theorems on sequences do not use induction, which takes an operator
as a parameter: they speak of places, and where a first or last one is needed, of the least
element of a set of numbers (`LeastElement`, from the well-foundedness of `<`). A count of all
messages sent (`Send` of DxgiCapture bounds it by a fold) is in no theorem.

## 6. What was found

No run ends in a counterexample: each run is for properties that hold. What follows the
models translate as it is; the passing properties except it by name, or bound it.

Against a sentence of the repository:

- `notify` releases the table before monitors are created (`ipc.rs:722`). A Remove or RemoveAll
  of another client in between finds no handle; the monitor then arrives and no row knows of
  it, so no later command can remove it (`EmptyTableUnplugs` of MonitorRegistry).
- A section is "only written from a single thread" (`shared_memory.rs:49`), but a monitor whose
  modes change departs and another is plugged in with its id, which opens the section of the
  same name; if the departure failed, or does not wait, the old thread still writes
  (`OneWriter` says when).
- `cancel` empties the receiver of the callback's result when the task has ended or panicked,
  and leaves it in place (`sync/client.rs:172`). A later `cancel_async` awaits the empty
  receiver and panics, where the doc promises `Ok(false)` (`NeverPanics` of Subscription).
- The session service impersonates a user "for current user reg call" and reads
  `HKEY_CURRENT_USER` (`service.rs:145`, `180`). Windows maps that key once per process and keeps
  it, so every later user is sent the list of the first (`FirstUsersList`).
- Lists are applied under a lock and broadcast without (`ipc.rs:238-241`), so two clients'
  broadcasts may come in the other order and a listener ends on the older list
  (`ListenersAgree` with two writers; `ListenerIsCurrent` excepts it).
- `find_id` compares name and id of one monitor after the other (`driver_client.rs:82`), so an
  earlier monitor's id wins over a later one's name, while the doc gives names precedence.
- `find_monitor_mut` keeps what its closure did when it then finds duplicates and returns
  `None` (`driver_client.rs:218`), which reads as "not found".
- A frame whose monitor was recorded when it was acquired goes to the session of a later
  StartRecording that did not name that monitor (`swap_chain_processor.rs:205`, `344`): one frame
  for each recording and monitor (`AtMostOneStray`).
- A change announced between the reply to `new_with` and `receive_events` reaches neither
  (`driver_client.rs:37`, `41`).
- `cancel` returns `Ok(true)` while the callback runs, the subscription is dropped, and the
  task goes on (`sync/client.rs:124`).
- A client's own list is not sent back to it, so `refresh_state` after a `notify` restores
  the list of before (`ipc.rs:553`, `driver_client.rs:164`).
- A new writer resets `write_sequence`, a "monotonically increasing write counter", in a
  section a reader kept open (`shared_memory.rs:129`).
- A section that still exists keeps its size, so after a change to a larger resolution
  `MapViewOfFile` fails for as long as some reader has the old one (`shared_memory.rs:96`).
- A log that can be initialised only after five minutes fails the device all the same
  (`entry.rs:87`).
- `event_cleanup` drops a context that was never written when `IddCxDeviceInitialize` failed
  (`entry.rs:205`).
- A second power-up stores an adapter in the context whose initialisation is then refused
  (`context.rs:136`, `callbacks.rs:36`).
- An odd height overruns the chroma planes (`recording.rs:178`; `OddHeightOverruns`).
- A poisoned context lock is reported as a success (`wdf.rs:51`; `LockFailureLooksFine`).
- The clock of 7680x4320 at 240 Hz wraps: the system is told 10 Hz by one of the two
  descriptions. A debug build panics with `MONITOR_MODES` locked (`callbacks.rs:68`;
  `ClockWraps`).
- `new_id(Some(id))` answers `None` unless the id is in use, so `add --id` of the command
  line always fails (`driver_client.rs:288`).

Read off the code while modelling:

- A list that `notify` refuses for its duplicates is broadcast all the same (`ipc.rs:641`,
  `238`).
- If `IddCxMonitorArrival` fails the row keeps the handle (`context.rs:223`), and the next
  Notify takes the monitor for plugged (`ipc.rs:692`): it is not tried again.
- A query for the recording's section names locks `MONITOR_MODES` with `RECORDING_STATE` held
  (`ipc.rs:61`). With a departure, which has them the other way round by way of a swap chain's
  thread, this is a circle if the system waits for the unassign inside the departure
  (`Circle` of SwapChain).
- A context's `get_mut` unwraps in the handler of `notify` (`ipc.rs:735`): it panics after the
  device was removed. The pipe server never stops and `ADAPTER` is never unset. `adapter_init_finished`
  may precede `clone_into` as far as the code can tell; `entry.rs:91` casts a driver object to a
  device. `MonitorContext` is never dropped.
- `monitor_query_modes` reports success for a buffer too small that it has not filled
  (`callbacks.rs:266`); `parse_monitor_description` gives mode 0 as preferred where there is none.
- `add_mode` refuses every mode that has a refresh rate (`driver_client.rs:457`).
- Frames queued before the encoder received its first one are thrown away if the stop comes
  first (`recording.rs:157-164`). A frame that `encode_frame` refuses, for its size or for an
  error of the codec or the muxer, is logged and lost (`161`, `188`), and a panic in it ends the
  thread with the frames still queued. `EncoderDrained` is about the threads that are left.
- StopRecording joins outside the lock, so a StartRecording may open its file while the old
  one is still being finalised. A frame rate of 0 is accepted and records nothing.
- A request may take the late answer to an earlier one that timed out: `AnswerNotTooOld`
  bounds its age by what was under way when the request subscribed, no more.
- `Client::drop` wakes the receive task only if it waits in `select!` at that moment
  (`client.rs:296-302`): two drops at once, or a busy task, and it is never aborted, while the
  test at `client.rs:485` expects it to stop. `StreamOutlivesCopies` is the other direction.
- `cancel` can return `Ok(true)` twice. A drop without a cancel ends the task or not,
  depending on where it is (`sync/client.rs:129`); the test at `sync/client.rs:248` and the
  Python doc at `bindings/python/src/lib.rs:586` differ on what is meant.
- The session service's `latest_session` is copied into the handler: a session notified at
  start is notified again, session 0 never, a failed notification is not retried. A logoff of
  any session removes all monitors and may race with the notification at start. The
  impersonation is never reverted, and a failing callback leaks the token's handle
  (`service.rs:183`).
- The capture service goes on reporting that it records when its threads have ended. A
  message that is no text is not answered, and the client's `send_command` has no timeout. A
  partial `try_write` of an answer is not continued (`control.rs:175`). A change of size after
  a lost duplication keeps the old staging texture. A second service would share the
  sections' names.
- `persist` says the driver loads the list when it starts; only the session service reads it.
  The adapter has room for 16 monitors (`MAX_MONITORS`), the user documentation says ten.
  A failed first constructor leaves the Python module's `INIT` set (`lib.rs:349`). The C#
  `Ipc.cs` speaks an older form of the protocol. The comment in `edid.rs` that its cast never
  truncates is wrong for a sum that is a multiple of 256, where truncating is what makes
  the checksum right (`ChecksumCloses`).

## 7. Not modelled, and why

- The driver's and the client's pipe framing: messages are whole in MonitorRegistry and
  ClientLink. The same framing is modelled byte for byte of its separators in DxgiCapture.
- The reply to RequestRecordingState and the client's `request_recording_state`, which repeat
  the State request. Serialisation and what `persist` writes to the registry of Windows.
- The synchronous wrappers, which block on the asynchronous calls (their subscriptions are in
  Subscription), and `mock.rs`, a test double.
- The Direct3D device, textures, strides, dirty rectangles and time stamps of frames; the
  H.264 codec and the MP4 container, which are libraries: each is an outcome of a call.
- The wrappers of single WDF calls and the table of status names, which repeat one pattern
  (`FrameworkCall` models it once).
- Log formatting, security descriptors, adapter capabilities.
- The Python bindings, the C# control application, the installer and the examples: they wrap
  or display. Whether the system waits inside `IddCxMonitorDeparture` is not in the source.

## 8. What is left

1. Abstract specifications beside MonitorService, with the refinements proved: the client's
   channel as a register that is told of changes, the swap chain's section as a register of
   whole frames.
2. What CallbackEnds rests on as an invariant: whoever waits for a lock waits for a thread
   that can go on, except in `Circle`.
3. The driver's pipe framing as a module that DxgiCapture would share.
4. The Python module's single-instance flag beside the client's life time.
