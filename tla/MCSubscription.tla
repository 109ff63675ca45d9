--------------------------- MODULE MCSubscription ---------------------------
(* Small instances of Subscription for TLC. *)
EXTENDS Subscription

CONSTANTS a, b, c

OneCopy     == {a}
TwoCopies   == {a, b}
ThreeCopies == {a, b, c}
=============================================================================
