------------------------------ MODULE ERaTimer ------------------------------
(***************************************************************************)
(* ERaTimer (src/src/ERa/ERaTimer.cpp, .hpp): the software timers of the   *)
(* library (ERa.addInterval, addTimeout, addTimer, Modbus, automation).    *)
(*                                                                         *)
(* run() marks the timers that are due, then calls the callbacks of the    *)
(* marked ones in list order, then frees the deleted ones.  A callback may *)
(* call any operation of the timers, its own included; so may the          *)
(* application between two runs.  Time is unsigned long: millis() wraps.   *)
(*                                                                         *)
(* Operations are given timers that are still in the list: a handle kept   *)
(* after its timer was freed dangles, and what the code then does is       *)
(* outside this model.                                                     *)
(***************************************************************************)
EXTENDS Integers, SequencesExt

CONSTANTS Ids,         \* the Timer_t objects
          MAX_TIMERS,
          M,           \* unsigned long is taken modulo M
          Intervals,   \* the intervals that are asked for
          Limits,      \* 0: setInterval, 1: setTimeout, more: setTimer
          Lag          \* bound: run() is called at least once in Lag ticks

ASSUME MaxAssumption == MAX_TIMERS \in Nat
ASSUME ModAssumption == M \in Nat \ {0}
ASSUME IntervalsAssumption == Intervals \subseteq 0..(M - 1) /\ M > 1
ASSUME LimitsAssumption == Limits \subseteq Nat
ASSUME LagAssumption == Lag \in Nat

VARIABLES now,         \* ERaMillis()
          lag,         \* ticks since run() last started
          tm,          \* what each Timer_t holds
          list,        \* the ERaList of timers in use, oldest first
          numTimer,
          phase,       \* where the loop is: idle, call, callback, reap
          it,          \* position in the list of run()'s second loop
          wait,        \* history: ticks before the timer may be called
          fired,       \* history: callbacks of a limited timer so far
          gone         \* history: deleted by deleteTimer, not set again

vars == <<now, lag, tm, list, numTimer, phase, it, wait, fired, gone>>
loop == <<phase, it>>
clock == <<now, lag>>
history == <<wait, fired, gone>>

Phases == {"idle", "call", "callback", "reap"}
Listed == {list[i] : i \in 1..Len(list)}

NoTimer == [prevMillis |-> 0, delay |-> 1, limit |-> 0, count |-> 0,
            enable |-> FALSE, called |-> FALSE, delete |-> FALSE]

\* A delay of zero is replaced by one.
Delay(interval) == IF interval = 0 THEN 1 ELSE interval

\* ERaRandomNumber(0, interval / 2): nothing when interval / 2 is zero,
\* else a number below it; a limited timer has no offset.
Offsets(interval, limit) ==
    IF limit = 0 /\ interval \div 2 > 0 THEN 0..((interval \div 2) - 1) ELSE {0}

\* currentMillis - pTimer->prevMillis, in unsigned long
Elapsed(t) == (now - tm[t].prevMillis) % M

Init ==
    /\ now = 0 /\ lag = 0
    /\ tm = [t \in Ids |-> NoTimer]
    /\ list = <<>> /\ numTimer = 0
    /\ phase = "idle" /\ it = 1
    /\ wait = [t \in Ids |-> 0] /\ fired = [t \in Ids |-> 0] /\ gone = {}

Tick ==
    /\ lag < Lag
    /\ now' = (now + 1) % M /\ lag' = lag + 1
    /\ wait' = [t \in Ids |-> IF wait[t] = 0 THEN 0 ELSE wait[t] - 1]
    /\ UNCHANGED <<tm, list, numTimer, loop, fired, gone>>

-----------------------------------------------------------------------------
(* The operations, called by the application or by a callback.             *)

CanCall == phase \in {"idle", "callback"}

\* setupTimer: refused, without effect, when MAX_TIMERS timers are in use
Setup(t, interval, limit, offset) ==
    /\ CanCall /\ t \notin Listed /\ numTimer < MAX_TIMERS
    /\ tm' = [tm EXCEPT ![t] =
                [NoTimer EXCEPT !.prevMillis = (now + offset) % M,
                                !.delay = Delay(interval),
                                !.limit = limit, !.enable = TRUE]]
    /\ list' = Append(list, t) /\ numTimer' = numTimer + 1
    /\ wait' = [wait EXCEPT ![t] = Delay(interval)]
    /\ fired' = [fired EXCEPT ![t] = 0] /\ gone' = gone \ {t}
    /\ UNCHANGED <<clock, loop>>

ChangeInterval(t, interval, offset) ==
    /\ CanCall /\ t \in Listed
    /\ tm' = [tm EXCEPT ![t].prevMillis = (now + offset) % M,
                        ![t].delay = Delay(interval)]
    /\ wait' = [wait EXCEPT ![t] = Delay(interval)]
    /\ UNCHANGED <<clock, list, numTimer, loop, fired, gone>>

RestartTimer(t) ==
    /\ CanCall /\ t \in Listed
    /\ tm' = [tm EXCEPT ![t].prevMillis = now]
    /\ wait' = [wait EXCEPT ![t] = tm[t].delay]
    /\ UNCHANGED <<clock, list, numTimer, loop, fired, gone>>

ExecuteNow(t) ==
    /\ CanCall /\ t \in Listed
    /\ tm' = [tm EXCEPT ![t].prevMillis = (now - tm[t].delay) % M]
    /\ wait' = [wait EXCEPT ![t] = 0]
    /\ UNCHANGED <<clock, list, numTimer, loop, fired, gone>>

\* deleteTimer only flags the timer; run() frees it.
Deleted(r) == [r EXCEPT !.enable = FALSE, !.delete = TRUE]

DeleteTimer(t) ==
    /\ CanCall /\ t \in Listed
    /\ tm' = [tm EXCEPT ![t] = Deleted(@)]
    /\ gone' = gone \cup {t}
    /\ UNCHANGED <<clock, list, numTimer, loop, wait, fired>>

\* Mutant of Enable: enabling clears every flag.
Enable_ClearsFlags(t) ==
    /\ CanCall /\ t \in Listed
    /\ tm' = [tm EXCEPT ![t].enable = TRUE, ![t].delete = FALSE]
    /\ UNCHANGED <<clock, list, numTimer, loop, history>>

Enable(t) ==
    /\ CanCall /\ t \in Listed
    /\ tm' = [tm EXCEPT ![t].enable = TRUE]
    /\ UNCHANGED <<clock, list, numTimer, loop, history>>

Disable(t) ==
    /\ CanCall /\ t \in Listed
    /\ tm' = [tm EXCEPT ![t].enable = FALSE]
    /\ UNCHANGED <<clock, list, numTimer, loop, history>>

\* enableAll, disableAll
SetAll(b) ==
    /\ CanCall
    /\ tm' = [t \in Ids |-> IF t \in Listed THEN [tm[t] EXCEPT !.enable = b]
                                            ELSE tm[t]]
    /\ UNCHANGED <<clock, list, numTimer, loop, history>>

-----------------------------------------------------------------------------
(* run()                                                                   *)

\* Mutant of Marked: the comparison of one tick too early.
Marked_Early(t) ==
    IF Elapsed(t) + 1 < tm[t].delay THEN tm[t]
    ELSE [tm[t] EXCEPT !.prevMillis = (@ + tm[t].delay * (Elapsed(t) \div tm[t].delay)) % M,
                       !.called = @ \/ tm[t].enable]

\* Mutant of Marked: a disabled timer leaves prevMillis behind, and so does
\* an enabled one.
Marked_Frozen(t) ==
    IF Elapsed(t) # tm[t].delay THEN tm[t]
    ELSE [tm[t] EXCEPT !.called = @ \/ tm[t].enable]

\* The first loop on one timer: prevMillis catches up by whole delays.
Marked(t) ==
    IF Elapsed(t) < tm[t].delay THEN tm[t]
    ELSE [tm[t] EXCEPT !.prevMillis = (@ + tm[t].delay * (Elapsed(t) \div tm[t].delay)) % M,
                       !.called = @ \/ tm[t].enable]

RunMark ==
    /\ phase = "idle"
    /\ tm' = [t \in Ids |-> IF t \in Listed THEN Marked(t) ELSE tm[t]]
    /\ phase' = "call" /\ it' = 1 /\ lag' = 0
    /\ UNCHANGED <<now, list, numTimer, history>>

\* The second loop passes a timer that is not marked, or deleted.  isCalled
\* clears the mark it tests.
CallSkip ==
    /\ phase = "call" /\ it <= Len(list)
    /\ LET t == list[it] IN
        /\ ~tm[t].called \/ tm[t].delete
        /\ tm' = [tm EXCEPT ![t].called = FALSE]
    /\ it' = it + 1
    /\ UNCHANGED <<clock, list, numTimer, phase, history>>

\* Mutant of Callback: the DELETE flag is not looked at.
Callback_Deleted ==
    /\ phase = "call" /\ it <= Len(list)
    /\ LET t == list[it] IN
        /\ tm[t].called
        /\ tm' = [tm EXCEPT ![t].called = FALSE]
        /\ fired' = [fired EXCEPT ![t] = IF tm[t].limit = 0 THEN 0 ELSE @ + 1]
    /\ phase' = "callback"
    /\ UNCHANGED <<clock, list, numTimer, it, wait, gone>>

\* Mutant of Callback: the flag is tested and not cleared.
Callback_Keeps ==
    /\ phase = "call" /\ it <= Len(list)
    /\ LET t == list[it] IN
        /\ tm[t].called /\ ~tm[t].delete
        /\ fired' = [fired EXCEPT ![t] = IF tm[t].limit = 0 THEN 0 ELSE @ + 1]
    /\ phase' = "callback"
    /\ UNCHANGED <<clock, tm, list, numTimer, it, wait, gone>>

\* The callback of a marked timer is called.
Callback ==
    /\ phase = "call" /\ it <= Len(list)
    /\ LET t == list[it] IN
        /\ tm[t].called /\ ~tm[t].delete
        /\ tm' = [tm EXCEPT ![t].called = FALSE]
        /\ fired' = [fired EXCEPT ![t] = IF tm[t].limit = 0 THEN 0 ELSE @ + 1]
    /\ phase' = "callback"
    /\ UNCHANGED <<clock, list, numTimer, it, wait, gone>>

\* Mutant of Counted: off by one.
Counted_OneMore(r) ==
    IF r.limit = 0 THEN r
    ELSE LET c == [r EXCEPT !.count = @ + 1]
         IN  IF c.count > c.limit THEN Deleted(c) ELSE c

\* if (++pTimer->count >= pTimer->limit) deleteTimer(pTimer)
Counted(r) ==
    IF r.limit = 0 THEN r
    ELSE LET c == [r EXCEPT !.count = @ + 1]
         IN  IF c.count >= c.limit THEN Deleted(c) ELSE c

CallbackReturn ==
    /\ phase = "callback"
    /\ tm' = [tm EXCEPT ![list[it]] = Counted(@)]
    /\ phase' = "call" /\ it' = it + 1
    /\ UNCHANGED <<clock, list, numTimer, history>>

CallEnd ==
    /\ phase = "call" /\ it > Len(list)
    /\ phase' = "reap" /\ it' = 1
    /\ UNCHANGED <<clock, tm, list, numTimer, history>>

\* Mutant of Reap: the counter is not decremented.
Reap_NoCount(i) ==
    /\ phase = "reap" /\ tm[list[i]].delete
    /\ \A j \in 1..(i - 1) : ~tm[list[j]].delete
    /\ tm' = [tm EXCEPT ![list[i]] = NoTimer]
    /\ list' = RemoveAt(list, i)
    /\ UNCHANGED <<clock, numTimer, loop, history>>

\* deleteHandler: the first deleted timer is freed
Reap(i) ==
    /\ phase = "reap" /\ tm[list[i]].delete
    /\ \A j \in 1..(i - 1) : ~tm[list[j]].delete
    /\ tm' = [tm EXCEPT ![list[i]] = NoTimer]
    /\ list' = RemoveAt(list, i) /\ numTimer' = numTimer - 1
    /\ UNCHANGED <<clock, loop, history>>

\* deleteHandler finds nothing more: run() returns
RunEnd ==
    /\ phase = "reap" /\ \A i \in 1..Len(list) : ~tm[list[i]].delete
    /\ phase' = "idle"
    /\ UNCHANGED <<clock, tm, list, numTimer, it, history>>

-----------------------------------------------------------------------------
Run ==
    \/ RunMark \/ CallSkip \/ Callback \/ CallbackReturn \/ CallEnd
    \/ (\E i \in 1..Len(list) : Reap(i)) \/ RunEnd

\* What does not put a timer's next call off.
Calm ==
    \/ \E t \in Ids, i \in Intervals, l \in Limits :
          \E o \in Offsets(Delay(i), l) : Setup(t, i, l, o)
    \/ \E t \in Ids : ExecuteNow(t) \/ DeleteTimer(t) \/ Enable(t) \/ Disable(t)
    \/ \E b \in BOOLEAN : SetAll(b)

\* What does.
Rearm ==
    \/ \E t \in Ids, i \in Intervals :
          \E o \in Offsets(Delay(i), tm[t].limit) : ChangeInterval(t, i, o)
    \/ \E t \in Ids : RestartTimer(t)

Next == Tick \/ Run \/ Calm \/ Rearm

Spec == Init /\ [][Next]_vars

\* The device's loop keeps calling run(), callbacks return, time passes.
Fairness == WF_vars(Run) /\ WF_vars(Tick)

CalmSpec == Init /\ [][Tick \/ Run \/ Calm]_vars /\ Fairness

-----------------------------------------------------------------------------
Timers == [prevMillis : 0..(M - 1), delay : 1..M, limit : Nat, count : Nat,
           enable : BOOLEAN, called : BOOLEAN, delete : BOOLEAN]

\* Types; and numTimer, which guards MAX_TIMERS, counts the list, in which
\* no timer is twice.
TypeOK ==
    /\ now \in 0..(M - 1) /\ lag \in 0..Lag
    /\ tm \in [Ids -> Timers]
    /\ list \in Seq(Ids) /\ numTimer = Len(list) /\ numTimer <= MAX_TIMERS
    /\ \A i, j \in 1..Len(list) : list[i] = list[j] => i = j
    /\ phase \in Phases /\ it \in Nat \ {0}
    /\ wait \in [Ids -> 0..M] /\ fired \in [Ids -> Nat] /\ gone \subseteq Ids

\* A mark lives no longer than the run that set it: every timer the second
\* loop has passed is unmarked, also those that callbacks deleted, enabled or
\* set up meanwhile, so no callback is ever owed from an earlier run.
NoStaleMark ==
    /\ phase \in {"idle", "reap"} => \A t \in Ids : ~tm[t].called
    /\ phase = "call" => \A i \in 1..Len(list) : i < it => ~tm[list[i]].called
    /\ phase = "callback" => \A i \in 1..Len(list) : i <= it => ~tm[list[i]].called

\* A timer with a limit is called at most that often before it is set up
\* again, however its own callback re-enables or restarts it.
LimitRespected ==
    \A t \in Ids : tm[t].limit > 0 => fired[t] <= tm[t].limit

\* The callback of t is called in this step.
Calls(t) == phase = "call" /\ phase' = "callback" /\ list[it] = t

\* After deleteTimer(t) the callback of t is not called again, although the
\* timer may already be marked in this run, be enabled again by enable or
\* enableAll, and stays in the list until the run ends.
DeletedStaysSilent == [][\A t \in gone : ~Calls(t)]_vars

\* run() marks a timer with a limit no earlier than its delay after the last
\* setup, restart or change of interval, also when millis() wraps between.
LimitedNotEarly ==
    [][\A t \in Ids : tm[t].limit > 0 /\ ~tm[t].called /\ tm'[t].called => wait[t] = 0]_vars

\* The same for timers without a limit: an interval timer ("called function
\* every second") is not called before its first interval has passed.
IntervalNotEarly ==
    [][\A t \in Ids : tm[t].limit = 0 /\ ~tm[t].called /\ tm'[t].called => wait[t] = 0]_vars

\* A deleted timer is freed, so that its place can be used again.
DeletedIsFreed ==
    \A t \in Ids : (t \in Listed /\ tm[t].delete) ~> (t \notin Listed)

\* A timer that nothing re-arms keeps being called for as long as it is
\* enabled, wherever millis() wraps.
KeepsFiring ==
    \A t \in Ids : []<>(t \notin Listed \/ ~tm[t].enable
                        \/ (phase = "callback" /\ list[it] = t))
=============================================================================
