----------------------------- MODULE MCERaSmart -----------------------------
(* Configurations of ERaSmart for TLC.                                     *)
EXTENDS ERaSmart

On(c, S) == [config |-> c, met |-> S]
DelayOf(d) == [kind |-> "delay", delay |-> d]
Alert(d) == [kind |-> "alert", delay |-> d]
Command == [kind |-> "command", delay |-> 0]

\* Both conditions, with an alert after a delay; one of two, with an alert
\* and a command before a delay.
Both == [all |-> TRUE, conds |-> <<On(1, {1}), On(2, {1})>>, acts |-> <<DelayOf(2), Alert(2)>>]
Either == [all |-> FALSE, conds |-> <<On(1, {1}), On(2, {0})>>,
           acts |-> <<Alert(2), Command, DelayOf(3)>>]

\* A delay of zero, and one for which the bound on its wait just fits.
Zero == [all |-> TRUE, conds |-> <<On(1, {1})>>, acts |-> <<DelayOf(0), DelayOf(5)>>]

MCConfigurations == {<<>>, <<Both>>, <<Either>>, <<Either, Both>>, <<Zero>>}
=============================================================================
