---------------------------- MODULE MCRecording ----------------------------
(* Small instances of Recording for TLC. *)
EXTENDS Recording, TLC

CONSTANTS c1, c2, m1, m2, s1, s2

OneClient   == {c1}
TwoClients  == {c1, c2}
OneMonitor  == {m1}
AllOrOther  == {{}, {m2}}
OneSession  == {s1}
TwoSessions == {s1, s2}
=============================================================================
