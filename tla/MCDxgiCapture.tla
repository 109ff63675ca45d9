--------------------------- MODULE MCDxgiCapture ---------------------------
(* Small instances of DxgiCapture for TLC. *)
EXTENDS DxgiCapture

CONSTANTS c1, c2, d1, d2

TwoConnections == {c1, c2}
TwoDisplays    == {d1, d2}
OneDisplay     == {d1}
=============================================================================
