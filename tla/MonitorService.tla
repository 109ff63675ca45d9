--------------------------- MODULE MonitorService ---------------------------
(***************************************************************************)
(* What the driver promises its clients, without handles, locks or         *)
(* handlers: clients declare monitors, and the operating system shows only *)
(* declared, enabled ones.  Stated by the doc comment of notify() in       *)
(* rust/virtual-display-driver/src/ipc.rs: monitors are added, updated and *)
(* removed as needed, an update is a detach and a reattach, and one that   *)
(* changes neither the modes nor the enabled flag keeps the monitor shown. *)
(***************************************************************************)
CONSTANTS Ids, Views

VARIABLES
  declared,   \* the list of monitors the clients asked for
  shown       \* the ids the operating system shows a monitor for

Init == declared \in Views /\ DOMAIN declared = {} /\ shown = {}

Keeps(i, view) ==
  /\ i \in DOMAIN view
  /\ view[i].enabled
  /\ view[i].modes = declared[i].modes

Declare(view) ==
  /\ declared' = view
  /\ shown' = {i \in shown : Keeps(i, view)}

Show(i) ==
  /\ i \in DOMAIN declared \ shown
  /\ declared[i].enabled
  /\ shown' = shown \cup {i}
  /\ UNCHANGED declared

Next == (\E view \in Views : Declare(view)) \/ (\E i \in Ids : Show(i))

Spec == Init /\ [][Next]_<<declared, shown>>
=============================================================================
