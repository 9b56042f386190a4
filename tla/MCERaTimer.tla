----------------------------- MODULE MCERaTimer -----------------------------
(* ERaTimer for TLC: the timers are interchangeable. *)
EXTENDS ERaTimer

Symmetry == Permutations(Ids)
=============================================================================
