--------------------------- MODULE MCDriverStart ---------------------------
(* Small instances of DriverStart for TLC. *)
EXTENDS DriverStart

CONSTANTS c1, c2

TwoClients == {c1, c2}
=============================================================================
