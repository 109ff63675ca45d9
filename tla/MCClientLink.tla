---------------------------- MODULE MCClientLink ----------------------------
(* Small instances of ClientLink for TLC. *)
EXTENDS ClientLink

CONSTANTS t1, t2, w

OneTask  == {t1}
TwoTasks == {t1, t2}
=============================================================================
