----------------------------- MODULE ERaReport -----------------------------
(***************************************************************************)
(* One report of ERaReport (src/src/ERa/ERaReport.cpp): it decides when a  *)
(* value is published.  A value is published when it moved by minChange,   *)
(* not sooner than minInterval after the last time, and after maxInterval  *)
(* at the latest, the heartbeat, unless that is WaitForever.               *)
(*                                                                         *)
(* The code keeps prevMillis and computes ERaMillis() - prevMillis on      *)
(* unsigned longs and nothing else with it: elapsed is that difference,    *)
(* modulo M = 2^w.  The module has operators only; ERaProperty has the     *)
(* state.                                                                  *)
(***************************************************************************)
EXTENDS Integers

CONSTANTS M,        \* 2^w: ERaMillis() counts modulo M
          Lag,      \* bound: time between two calls of run()
          Settings, \* minChange, minInterval, maxInterval of a report
          NaN       \* not a number

WaitForever == M - 1
None == "none"

\* run() comes often enough to see the heartbeat before elapsed wraps around.
ASSUME ReportAssumption ==
    /\ M \in Nat /\ Lag \in Nat \ {0} /\ Lag < M
    /\ Settings \subseteq [change : Nat, min : Nat, max : Nat]
    /\ \A s \in Settings : s.min < M - Lag /\ (s.max < M - Lag \/ s.max = WaitForever)

Max2(a, b) == IF a < b THEN b ELSE a

\* changeReportableChange(): minInterval is at least 1, maxInterval at least
\* minInterval.
changeReportableChange(rp, s) ==
    [rp EXCEPT !.change = s.change, !.min = Max2(s.min, 1),
               !.max = Max2(s.max, Max2(s.min, 1))]

\* setupReport() with the callback's argument; since and forced are history:
\* the time since it was decided to call back (M: longer), and whether
\* prevMillis was put back since, to call back now.
setupReport(s, arg) ==
    changeReportableChange(
      [value |-> 0, prev |-> 0, elapsed |-> 0, change |-> 0, min |-> 1, max |-> 1,
       enable |-> TRUE, updated |-> FALSE, called |-> FALSE, delete |-> FALSE,
       param |-> arg, since |-> M, forced |-> FALSE], s)

\* updateReport(): NaN is ignored; the first value counts as published, and
\* is, with execute, due for the heartbeat.
updateReport(rp, v, execute) ==
    LET atOnce == execute /\ rp.max # WaitForever
    IN  IF v = NaN THEN rp
        ELSE IF rp.updated THEN [rp EXCEPT !.value = v]
        ELSE [rp EXCEPT !.value = v, !.prev = v, !.updated = TRUE,
                        !.elapsed = IF atOnce THEN rp.max ELSE @, !.forced = @ \/ atOnce]

reportEvery(rp, interval) == [rp EXCEPT !.max = Max2(interval, rp.min)]

executeReport(rp) ==
    [rp EXCEPT !.elapsed = 0, !.prev = rp.value, !.called = TRUE,
               !.since = 0, !.forced = FALSE]

executeNow(rp) == [rp EXCEPT !.elapsed = rp.max, !.forced = TRUE]

deleteReport(rp) == [rp EXCEPT !.enable = FALSE, !.delete = TRUE]

Distance(a, b) == IF a < b THEN b - a ELSE a - b

\* Mutant of Due: a value that did not change is never due.
Due_NoHeartbeat(rp) ==
    rp.elapsed >= rp.min /\ rp.value # rp.prev /\ Distance(rp.value, rp.prev) >= rp.change
\* Mutant of Due: minInterval limits the heartbeat only.
Due_ChangeAtOnce(rp) ==
    \/ rp.value # rp.prev /\ Distance(rp.value, rp.prev) >= rp.change
    \/ rp.elapsed >= rp.min /\ rp.elapsed >= rp.max /\ rp.max # WaitForever
\* The tests of run()'s first loop.
Due(rp) ==
    /\ rp.elapsed >= rp.min
    /\ \/ rp.value # rp.prev /\ Distance(rp.value, rp.prev) >= rp.change
       \/ rp.elapsed >= rp.max /\ rp.max # WaitForever

\* run()'s first loop: a report that is due starts over and is marked, when
\* it has a value and is enabled.
Mark(rp) ==
    LET calls == rp.updated /\ rp.enable
    IN  IF Due(rp) THEN [rp EXCEPT !.elapsed = 0, !.prev = rp.value, !.called = @ \/ calls,
                                   !.since = IF calls THEN 0 ELSE @, !.forced = FALSE]
                   ELSE rp

\* run()'s second loop calls back for these...
Called(rp) == rp.called /\ ~rp.delete

\* ...and clears every mark.
Clear(rp) == [rp EXCEPT !.called = FALSE]

\* Mutant of Later: the difference is taken in a wider type.
Later_Wider(rp) ==
    [rp EXCEPT !.elapsed = @ + 1, !.since = IF @ = M THEN M ELSE @ + 1]
\* A millisecond later.
Later(rp) ==
    [rp EXCEPT !.elapsed = (@ + 1) % M, !.since = IF @ = M THEN M ELSE @ + 1]
=============================================================================
