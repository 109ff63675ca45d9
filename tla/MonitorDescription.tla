------------------------- MODULE MonitorDescription -------------------------
(***************************************************************************)
(* What the driver makes the operating system believe of a monitor: the    *)
(* EDID that carries the monitor's id as its serial number (edid.rs), by   *)
(* which parse_monitor_description later finds the row, and the timings of *)
(* a mode, once for the monitor and once for the target (callbacks.rs of   *)
(* rust/virtual-display-driver).  The system offers the modes both have.   *)
(*                                                                         *)
(* Arithmetic is that of u32 in a release build, which wraps; a debug      *)
(* build panics where it does.                                             *)
(***************************************************************************)
EXTENDS Integers

Byte  == 0 .. 255
Limit == 4294967296
U32   == {n \in Nat : n < Limit}
Wrap(n) == n % Limit
-----------------------------------------------------------------------------
(* The EDID, 128 bytes; the serial number is in bytes 12 to 15 *)

Places == 0 .. 127

\* bytes_of: the bytes of the serial number, least first.
SerialBytes(serial) ==
  <<serial % 256, (serial \div 256) % 256, (serial \div 65536) % 256, (serial \div 16777216) % 256>>

\* gen_checksum: 256 is cut to the byte 0.
Checksum(sum) == (256 - (sum % 256)) % 256

\* generate_with, the sum being that of the first 127 bytes.
GenerateWith(template, serial, sum) ==
  [k \in Places |-> IF k \in 12 .. 15 THEN SerialBytes(serial)[k - 11]
                    ELSE IF k = 127 THEN Checksum(sum) ELSE template[k]]

\* get_serial, of 128 bytes.
GetSerial(edid) == edid[12] + 256 * edid[13] + 65536 * edid[14] + 16777216 * edid[15]
-----------------------------------------------------------------------------
(* Timings: a vertical rate is a fraction *)

\* What display_info means to compute, and what it does.
ExactClock(height, rate) == rate * ((height + 4) * (height + 4)) + 1000
ClockRate(height, rate)  == Wrap(ExactClock(height, rate))

MonitorVSync(height, rate) ==
  [num |-> ClockRate(height, rate), den |-> Wrap((height + 4) * (height + 4))]

\* target_mode
TargetVSync(rate) == [num |-> rate, den |-> 1]

Truncated(vsync) == vsync.num \div vsync.den
=============================================================================
