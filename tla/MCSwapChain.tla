---------------------------- MODULE MCSwapChain ----------------------------
(* Small instances of SwapChain for TLC: one monitor, or two of one id. *)
EXTENDS SwapChain, TLC

CONSTANTS m1, m2, c1, c2, i1

OneMonitor  == {m1}
TwoMonitors == {m1, m2}
OneId       == {i1}
SameId      == [m \in Monitors |-> i1]
OneClient   == {c1}
TwoClients  == {c1, c2}
OneSize     == {1}
TwoSizes    == {1, 2}

\* The monitor objects differ in nothing.  Used by the run that checks no liveness.
Symmetric == Permutations(Monitors)
=============================================================================
