------------------------------ MODULE MCLifecycle ------------------------------
(* Small instances of Lifecycle: two clients of one build, or of two builds, *)
(* and as many daemons as they can start.                                    *)
EXTENDS Lifecycle, TLC

CONSTANTS b1, b2, c1, c2, d1, d2, d3

TwoDaemons == {d1, d2}
ThreeDaemons == {d1, d2, d3}
TwoBuilds == {b1, b2}
TwoClients == {c1, c2}
Same == [c \in TwoClients |-> b1]
Mixed == [c \in TwoClients |-> IF c = c1 THEN b1 ELSE b2]
SameOrMixed == {Same, Mixed}
OnlySame == {Same}
=============================================================================
