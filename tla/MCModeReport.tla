---------------------------- MODULE MCModeReport ----------------------------
(* A small instance of ModeReport, with the registry below it, for TLC. *)
EXTENDS ModeReport, TLC

CONSTANTS c1, c2, i1, o1, o2, m1, m2, n1, n2

OneObject  == {o1}
OneClient  == {c1}
TwoClients == {c1, c2}
OneId      == {i1}
TwoObjects == {o1, o2}
TwoModes   == {m1, m2}
OneName    == {n1}
TwoNames   == {n1, n2}
Counts     == m1 :> 1 @@ m2 :> 2

Symmetric == Permutations(Objects)
=============================================================================
