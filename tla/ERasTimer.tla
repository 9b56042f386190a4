----------------------------- MODULE ERasTimer -----------------------------
(***************************************************************************)
(* eras::Timer (src/src/Automation/ERaTimer.tpp): the one-shot timeouts of *)
(* the actions of an automation.  A new item waits in mToAdd until run()   *)
(* moves it into the heap; a cancelled item is only marked, and deleted    *)
(* when it reaches the top of the heap, or with all marked ones once they  *)
(* are too many.                                                           *)
(*                                                                         *)
(* Times are uint32_t: what millis() computes in 64 bits is cut when it is *)
(* read, so the clock is a number modulo M.  The heap is the set of its    *)
(* items; nobody keeps the address of one.                                 *)
(***************************************************************************)
EXTENDS Integers, FiniteSetsExt

CONSTANTS M,          \* 2^32
          MAX_DELETED \* MAX_LOGICALLY_DELETED_ITEMS

ASSUME TimerAssumption == M \in Nat \ {0, 1} /\ MAX_DELETED \in Nat

VARIABLES items,    \* mItems and mToAdd
          toRemove, \* mToRemove
          now       \* ERaMillis()

timerVars == <<items, toRemove, now>>

TIMER_DONT_RUN == M - 1

Heap(its) == {x \in DOMAIN its : ~its[x].new}
Marked(its) == {x \in Heap(its) : its[x].remove}
Live(its) == {x \in DOMAIN its : ~its[x].remove}

\* Item x is on top of the heap.
Top(x) == x \in Heap(items) /\ \A y \in Heap(items) : items[x].next <= items[y].next

Only(its, S) == [x \in S |-> its[x]]

Free(its) == CHOOSE x \in 1..(Cardinality(DOMAIN its) + 1) : x \notin DOMAIN its

\* Mutant of NewItem: the sum is kept in 64 bits.
NewItem_Wider(c, timeout) ==
    [component |-> c, timeout |-> timeout, next |-> now + timeout,
     remove |-> FALSE, new |-> TRUE, age |-> 0]
\* new TimerItem(); age (history) is the time since, M or longer.
NewItem(c, timeout) ==
    [component |-> c, timeout |-> timeout, next |-> (now + timeout) % M,
     remove |-> FALSE, new |-> TRUE, age |-> 0]

setTimeout(its, c, timeout) ==
    IF timeout = TIMER_DONT_RUN THEN its
    ELSE [x \in DOMAIN its \cup {Free(its)} |->
            IF x = Free(its) THEN NewItem(c, timeout) ELSE its[x]]

\* cancelTimeout() and cancelAll() of the components for which Gone(c) holds.
cancelAll(its, C) ==
    [x \in DOMAIN its |-> [its[x] EXCEPT !.remove = @ \/ its[x].component \in C]]
\* Mutant of Cancelled: items that are not in the heap yet count.
Cancelled_New(its, C) == {x \in Live(its) : its[x].component \in C}
Cancelled(its, C) == {x \in Heap(its) \cap Live(its) : its[x].component \in C}

processToAdd(its) ==
    [x \in {y \in DOMAIN its : ~(its[y].new /\ its[y].remove)} |-> [its[x] EXCEPT !.new = FALSE]]

\* Mutant of runBegin: new items enter the heap at the end of a run only.
runBegin_NoAdd ==
    IF toRemove > MAX_DELETED
    THEN items' = Only(items, Live(items)) /\ toRemove' = 0
    ELSE UNCHANGED <<items, toRemove>>
\* The beginning of run(): too many marked items are deleted at once.
runBegin ==
    LET its == processToAdd(items)
    IN  IF toRemove > MAX_DELETED
        THEN items' = Only(its, Live(its)) /\ toRemove' = 0
        ELSE items' = its /\ UNCHANGED toRemove

\* cleanup(): a marked item on top of the heap is deleted.
cleanup(x) ==
    /\ Top(x) /\ items[x].remove
    /\ items' = Only(items, DOMAIN items \ {x})
    /\ toRemove' = toRemove - 1

\* A time-out has come for a run that began at time t.
IsDue(x, t) == Top(x) /\ ~items[x].remove /\ items[x].next <= t

\* Nothing more is due.
NoneDue(t) == \A x \in Heap(items) : Top(x) => ~items[x].remove /\ items[x].next > t

\* A millisecond later.
Later == [x \in DOMAIN items |-> [items[x] EXCEPT !.age = IF @ = M THEN M ELSE @ + 1]]
=============================================================================
