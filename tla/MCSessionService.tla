-------------------------- MODULE MCSessionService --------------------------
(* Small instances of SessionService for TLC. *)
EXTENDS SessionService

CONSTANTS u1, u2

TwoSessions == {1, 2}
TwoUsers    == {u1, u2}
=============================================================================
