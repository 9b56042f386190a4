---------------------------- MODULE MCERaModbus ----------------------------
(* Instances of ERaModbus for TLC.                                         *)
EXTENDS ERaModbus

\* malloc() may return any free address: keys differ in nothing else.
Symmetry == Permutations(Keys)
=============================================================================
