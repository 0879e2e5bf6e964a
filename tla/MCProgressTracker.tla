------------------------- MODULE MCProgressTracker -------------------------
(* Instances of ProgressTracker for TLC. *)
EXTENDS ProgressTracker, TLC

CONSTANTS w1, w2, p1, p2, p3, p4

MCTwoWorkers == {w1, w2}

(* The tracker's object, one for each coroutine to hold, one to build. *)
MCObjects4 == {p1, p2, p3, p4}

MCSymmetry2 == Permutations(MCObjects4) \cup Permutations(MCTwoWorkers)
=============================================================================
