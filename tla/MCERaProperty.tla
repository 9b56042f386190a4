--------------------------- MODULE MCERaProperty ---------------------------
(* Instances of ERaProperty for TLC.                                       *)
EXTENDS ERaProperty

\* Every change of 1, with a heartbeat; a change of 2, which Values does not
\* have, so the heartbeat alone publishes; and changes only, for ever.
MCSettings == {[change |-> 1, min |-> 2, max |-> 4],
               [change |-> 2, min |-> 3, max |-> 0],
               [change |-> 0, min |-> 0, max |-> WaitForever]}
=============================================================================
