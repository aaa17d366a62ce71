--------------------------- MODULE MCOracleBootstrap ---------------------------
(* OracleBootstrap with instances and keys as model values; the bounds are *)
(* set per run in the .cfg files.                                          *)
EXTENDS OracleBootstrap, TLC

\* Keys are interchangeable: keygen draws any fresh one.
KeySymmetry == Permutations(Keys)
=============================================================================
