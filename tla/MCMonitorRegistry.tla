------------------------- MODULE MCMonitorRegistry -------------------------
(* Small instances of MonitorRegistry for TLC. *)
EXTENDS MonitorRegistry, TLC

CONSTANTS c1, c2, c3, i1, i2, o1, o2, o3, m1, m2, n1, n2

OneClient    == {c1}
TwoClients   == {c1, c2}
ThreeClients == {c1, c2, c3}
OneId   == {i1}
TwoIds  == {i1, i2}
TwoObjects   == {o1, o2}
ThreeObjects == {o1, o2, o3}
OneMode  == {m1}
TwoModes == {m1, m2}
OneName  == {n1}
TwoNames == {n1, n2}

\* Handles, ids, names and mode lists are only compared: any permutation of each
\* set is a symmetry.  Used by runs that check no liveness.
Symmetric == Permutations(Objects) \cup Permutations(Ids)
               \cup Permutations(ModeLists) \cup Permutations(Names)

\* No step looks at what a client was told, and no property at what a writer was.
ListenersView ==
  <<table, os, context, pc, todo, target, handle, outbox, slot, unread,
    [c \in Clients \ Writers |-> mirror[c]]>>
=============================================================================
