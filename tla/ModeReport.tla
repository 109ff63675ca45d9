----------------------------- MODULE ModeReport -----------------------------
(***************************************************************************)
(* ModeReport: what the operating system learns of a monitor's modes from  *)
(* the callbacks of rust/virtual-display-driver/src/callbacks.rs, beside   *)
(* the handlers that change MONITOR_MODES (MonitorRegistry).               *)
(*                                                                         *)
(* The system asks twice, once for a count and once with a buffer of that  *)
(* size, one query after the other: parse_monitor_description finds the    *)
(* row by the serial number in the EDID, monitor_query_modes by the        *)
(* handle.  Each call has MONITOR_MODES locked.                            *)
(***************************************************************************)
EXTENDS MonitorRegistry

CONSTANTS
  ModeCount,   \* refresh rates of each value of Monitor.modes, all sizes together
  Unknown      \* what the system knows before it was told

ASSUME ModeCountAssumption ==
  /\ ModeCount \in [ModeLists -> Nat]
  /\ Unknown \notin ModeLists \cup Nat

Kinds   == {"monitor", "target"}
Unheard == [k \in Kinds |-> Unknown]
NoQuery == [object |-> NoObject, kind |-> "monitor", count |-> 0]

VARIABLES
  query,   \* the query under way and the number of modes the system was told of
  known,   \* the modes it was told of, by monitor and kind
  short    \* did a buffer come back unfilled although all was well?

reportVars == <<query, known, short>>

ReportInit ==
  /\ Init
  /\ query = NoQuery
  /\ known = [o \in Objects |-> Unheard]
  /\ short = FALSE
-----------------------------------------------------------------------------
(* The rows a call looks at *)

\* parse_monitor_description: the serial number of the EDID is the id.
RowBySerial(o) == {i \in Present : i = os[o].serial}

\* monitor_query_modes: the row that holds the handle.
RowByHandle(o) == {i \in Present : Handle(i) = o}

Rows(o, kind) == IF kind = "monitor" THEN RowBySerial(o) ELSE RowByHandle(o)

\* An empty buffer: the number of modes; without a row, STATUS_DRIVER_INTERNAL_ERROR.
AskCount(o, kind) ==
  /\ query = NoQuery
  /\ os[o] # NoMonitor
  /\ os[o].state = "arrived"
  /\ \E i \in Rows(o, kind) :
       query' = [object |-> o, kind |-> kind, count |-> ModeCount[table[i].data.modes]]
  /\ UNCHANGED <<vars, known, short>>

\* The second call, with a buffer of that size.
Row == Rows(query.object, query.kind)

Answered == query # NoQuery /\ query' = NoQuery

\* The buffer is large enough and is filled, flatten()ed.
Fill ==
  /\ Answered
  /\ \E i \in Row :
       /\ ModeCount[table[i].data.modes] <= query.count
       /\ known' = [known EXCEPT ![query.object][query.kind] = table[i].data.modes]
  /\ UNCHANGED <<vars, short>>

\* It is too small.  The description is refused with STATUS_BUFFER_TOO_SMALL, so the
\* system asks again; a target query reports success and leaves the buffer as it was.
TooSmall ==
  /\ Answered
  /\ \E i \in Row : ModeCount[table[i].data.modes] > query.count
  /\ short' = (short \/ query.kind = "target")
  /\ UNCHANGED <<vars, known>>

\* No row any more: an error, and the system gives up.
RowGone ==
  /\ Answered
  /\ Row = {}
  /\ UNCHANGED <<vars, known, short>>

Query == Fill \/ TooSmall \/ RowGone \/ \E o \in Objects, kind \in Kinds : AskCount(o, kind)

\* What the system knew of a monitor, or was about to ask, goes with it.
Forget ==
  /\ known' = [o \in Objects |-> IF os'[o] = NoMonitor THEN Unheard ELSE known[o]]
  /\ query' = IF query # NoQuery /\ os'[query.object] = NoMonitor THEN NoQuery ELSE query
  /\ UNCHANGED short

ReportNext == (Next /\ Forget) \/ Query

ReportSpec == ReportInit /\ [][ReportNext]_<<vars, reportVars>>

\* The same with the handlers' fairness of MonitorRegistry; the system asks when it likes.
FairReportSpec == ReportSpec /\ Fairness
-----------------------------------------------------------------------------
(* Properties *)

\* What the system was told of a monitor that is in the table is what the row holds: the
\* callbacks look the row up in two ways, and the modes may have changed before the
\* handle was stored, but never after it, since notify() takes the monitor away first.
KnownIsCurrent ==
  \A i \in Ids, kind \in Kinds :
    (Handle(i) # NoObject /\ known[Handle(i)][kind] # Unknown)
      => known[Handle(i)][kind] = table[i].data.modes

\* A target query that reports success has filled the buffer: the comment at
\* callbacks.rs:241 rests on the handle, which goes before the modes change.
TargetFilled == ~short
=============================================================================
