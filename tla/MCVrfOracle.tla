---------------------------- MODULE MCVrfOracle ----------------------------
(* Model-checking instance of VrfOracle: two request accounts.            *)
EXTENDS VrfOracle, TLC

CONSTANTS r1, r2

MCRequests == {r1, r2}

\* The two accounts are interchangeable in every action and property.
MCSymmetry == Permutations(MCRequests)

=============================================================================
