---------------------------- MODULE MCTokenSessions ----------------------------
(* Instances of TokenSessions for TLC. *)
EXTENDS TokenSessions, TLC

CONSTANTS w1, w2, s1, s2

TwoWorkers == {w1, w2}
TwoSessions == {s1, s2}

\* Handlers are interchangeable, and so are session ids.
Symmetry == Permutations(TwoWorkers) \cup Permutations(TwoSessions)
=============================================================================
