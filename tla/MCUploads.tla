------------------------------ MODULE MCUploads ------------------------------
(* Instances of Uploads for TLC. *)
EXTENDS Uploads, TLC

CONSTANTS w1, w2, w3

TwoWorkers == {w1, w2}
ThreeWorkers == {w1, w2, w3}

\* Workers are interchangeable.
Symmetry2 == Permutations(TwoWorkers)
Symmetry3 == Permutations(ThreeWorkers)
=============================================================================
