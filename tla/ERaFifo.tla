------------------------------- MODULE ERaFifo -------------------------------
(***************************************************************************)
(* What ERaQueue<T, N> promises to its single producer and its single      *)
(* consumer: a bounded first-in first-out queue.  `queue' holds what was   *)
(* put and not yet taken; `out' holds what the consumer took and is still  *)
(* using.  Nothing but the consumer itself changes `out': what get()       *)
(* returned keeps its value until the consumer is done with it.            *)
(***************************************************************************)
EXTENDS Naturals, Sequences

CONSTANTS N,        \* capacity
          Values,   \* what is stored
          MaxBulk   \* most elements moved by one call

VARIABLES queue, out

vars == <<queue, out>>

Chunks == UNION {[1..m -> Values] : m \in 1..MaxBulk}

Init == queue = <<>> /\ out = <<>>

\* A chunk becomes visible at once, behind everything put before it.
Put(s) ==
    /\ Len(queue) + Len(s) <= N
    /\ queue' = queue \o s
    /\ UNCHANGED out

\* The consumer takes the oldest m elements.
Take(m) ==
    /\ out = <<>>
    /\ m <= Len(queue)
    /\ out' = SubSeq(queue, 1, m)
    /\ queue' = SubSeq(queue, m + 1, Len(queue))

\* The consumer is done with what it took.
Release ==
    /\ out # <<>>
    /\ out' = <<>>
    /\ UNCHANGED queue

\* clear(): everything waiting is dropped.
Clear ==
    /\ queue' = <<>>
    /\ UNCHANGED out

Next ==
    \/ \E s \in Chunks : Put(s)
    \/ \E m \in 1..MaxBulk : Take(m)
    \/ Release
    \/ Clear

Spec == Init /\ [][Next]_vars
==============================================================================
