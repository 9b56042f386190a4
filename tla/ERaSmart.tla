------------------------------ MODULE ERaSmart ------------------------------
(***************************************************************************)
(* ERaSmart (src/src/Automation/ERaSmart.tpp, ERaAutomation.hpp): the      *)
(* automations of a configuration.  Each has conditions on values of the   *)
(* board and a chain of actions; when the conditions come to hold, the     *)
(* chain is played: an action that waits (a delay, an alert that comes too *)
(* soon after the last one) sets a time-out of eras::Timer, whose callback *)
(* goes on with the rest.                                                  *)
(*                                                                         *)
(* ERa.run() and the handlers of the cloud's commands share one task (no   *)
(* setTaskSize): a configuration arrives between two runs, a value also    *)
(* during one, from an action.                                             *)
(***************************************************************************)
EXTENDS ERasTimer, Sequences

CONSTANTS Configurations, \* sequences of automations
          ConfigIDs,      \* what conditions are about
          Values,         \* its values
          MaxLen,         \* bound: automations in a configuration
          Lag,            \* bound: time between two runs
          MaxOps,         \* bound: configurations received
          MaxUpdates      \* bound: values received

\* A condition holds for a set of values; an action is a delay, an alert (at
\* most one per delay) or a command (what it does is not modelled).
Conditions == [config : ConfigIDs, met : SUBSET Values]
Actions == [kind : {"delay", "alert", "command"}, delay : {d \in 0..(M - 2) : d + 2 * Lag < M}]
Automations == [all : BOOLEAN, conds : Seq(Conditions), acts : Seq(Actions)]

ASSUME SmartAssumption ==
    /\ \A C \in Configurations : C \in Seq(Automations) /\ Len(C) <= MaxLen
    /\ MaxLen \in Nat /\ Lag \in Nat \ {0} /\ MaxOps \in Nat /\ MaxUpdates \in Nat

VARIABLES smarts, \* mSmarts
          pc,     \* "idle", in mTimer.run() or in the loop over the automations
          at,     \* mTimer.run(): now
          k,      \* the next automation of the loop
          lag,    \* time since the last run
          ops, updates \* configurations and values received

vars == <<timerVars, smarts, pc, at, k, lag, ops, updates>>

\* An automation: of each condition, whether the last value satisfies it and
\* mReset; the deduplicator of the result; of the actions, which is running
\* and mLastAlert.  History: mute, an action waits for no time-out; played,
\* triggered since a value for it last came.
NewSmart(spec) ==
    [spec |-> spec,
     held |-> [i \in DOMAIN spec.conds |-> FALSE],
     reset |-> [i \in DOMAIN spec.conds |-> FALSE],
     last |-> "none",
     running |-> {}, lastAlert |-> [i \in DOMAIN spec.acts |-> 0],
     mute |-> FALSE, played |-> FALSE]

Init ==
    /\ items = [x \in {} |-> 0] /\ toRemove = 0 /\ now = 0
    /\ smarts = <<>> /\ pc = "idle" /\ at = 0 /\ k = 1 /\ lag = 0 /\ ops = 0 /\ updates = 0

isRunning(s) == s.running # {}
Components == UNION {{<<a, i>> : i \in DOMAIN smarts[a].spec.acts} : a \in DOMAIN smarts}

----------------------------------------------------------------------------
(* The chain of actions.                                                   *)

Elapsed(s, i) == (now - s.lastAlert[i]) % M
Amount(s, i) == Elapsed(s, i) \div s.spec.acts[i].delay

\* AlertAction::play() sends at once.
Sends(s, i) ==
    LET act == s.spec.acts[i]
    IN  act.delay = 0 \/ (Amount(s, i) > 0 /\ now > s.lastAlert[i])

Waits(s, i) ==
    \/ s.spec.acts[i].kind = "delay"
    \/ s.spec.acts[i].kind = "alert" /\ ~Sends(s, i)

\* The actions from i on are played up to j, the first that waits (0: none).
Stops(s, i, j) ==
    /\ \A h \in i..(IF j = 0 THEN Len(s.spec.acts) ELSE j - 1) : ~Waits(s, h)
    /\ j # 0 => j >= i /\ Waits(s, j)

\* The time-out that action i sets.
Timeout(s, i) ==
    LET delay == s.spec.acts[i].delay
    IN  IF s.spec.acts[i].kind = "delay" THEN delay
        ELSE (s.lastAlert[i] + delay - now) % M

Alerted(s, i) ==
    LET delay == s.spec.acts[i].delay
    IN  IF Sends(s, i) THEN IF delay = 0 THEN now ELSE (s.lastAlert[i] + Amount(s, i) * delay) % M
        ELSE (s.lastAlert[i] + delay) % M

\* s after the actions from i on are played up to j.
Played(s, i, j) ==
    LET reached == i..(IF j = 0 THEN Len(s.spec.acts) ELSE j)
    IN  [s EXCEPT !.running = @ \cup ({j} \ {0}),
                  !.lastAlert = [n \in DOMAIN @ |->
                      IF n \in reached /\ s.spec.acts[n].kind = "alert" THEN Alerted(s, n) ELSE @[n]],
                  !.mute = j # 0 /\ Timeout(s, j) = TIMER_DONT_RUN]

\* Action j of automation a, which is s, sets its time-out.
Set(its, a, s, j) == IF j = 0 THEN its ELSE setTimeout(its, <<a, j>>, Timeout(s, j))

----------------------------------------------------------------------------
(* One round: run().                                                       *)

RunTimers ==
    /\ pc = "idle" /\ pc' = "timer" /\ at' = now /\ lag' = 0
    /\ runBegin
    /\ UNCHANGED <<now, smarts, k, ops, updates>>

Cleanup ==
    /\ pc = "timer" /\ \E x \in Heap(items) : cleanup(x)
    /\ UNCHANGED <<now, smarts, pc, at, k, lag, ops, updates>>

\* The callback (playNext, or execute of an alert) of the item on top, which
\* is then deleted.
Fire(x) ==
    /\ pc = "timer" /\ IsDue(x, at)
    /\ LET a == items[x].component[1]
           i == items[x].component[2]
           s == [smarts[a] EXCEPT !.running = @ \ {i}]
       IN  \E j \in 0..Len(s.spec.acts) :
             /\ IF i \in smarts[a].running THEN Stops(s, i + 1, j) ELSE j = 0
             /\ smarts' = [smarts EXCEPT ![a] =
                              IF i \in @.running THEN Played(s, i + 1, j) ELSE @]
             /\ LET after == Set(items, a, s, j)
                IN  items' = Only(after, DOMAIN after \ {x})
    /\ UNCHANGED <<toRemove, now, pc, at, k, lag, ops, updates>>

EndTimers ==
    /\ pc = "timer" /\ NoneDue(at)
    /\ items' = processToAdd(items)
    /\ pc' = IF smarts = <<>> THEN "idle" ELSE "smart"
    /\ at' = 0
    /\ UNCHANGED <<toRemove, now, smarts, k, lag, ops, updates>>

\* ValueCondition::check(), and which of them And- and OrCondition evaluate.
Holds(s, i) == s.held[i] /\ ~s.reset[i]
Evaluated(s) == {i \in DOMAIN s.spec.conds : \A j \in 1..(i - 1) : Holds(s, j) = s.spec.all}
Check(s) ==
    IF s.spec.all THEN \A i \in DOMAIN s.spec.conds : Holds(s, i)
    ELSE \E i \in DOMAIN s.spec.conds : Holds(s, i)

\* Mutant of Evaluate: the deduplicator remembers TRUE only.
Evaluate_KeepsTrue(s) ==
    [s EXCEPT !.reset = [i \in DOMAIN @ |-> @[i] /\ i \notin Evaluated(s)],
              !.last = IF Check(s) THEN "true" ELSE @]
\* A condition that is evaluated has had its reset.
Evaluate(s) ==
    [s EXCEPT !.reset = [i \in DOMAIN @ |-> @[i] /\ i \notin Evaluated(s)],
              !.last = IF Check(s) THEN "true" ELSE "false"]

\* Smart::run() of automation k: a change to TRUE triggers its chain, unless
\* that is running.
RunSmart ==
    /\ pc = "smart"
    /\ LET s == Evaluate(smarts[k])
       IN  IF Check(smarts[k]) /\ smarts[k].last # "true" /\ ~isRunning(s)
           THEN \E j \in 0..Len(s.spec.acts) :
                  /\ Stops(s, 1, j)
                  /\ smarts' = [smarts EXCEPT ![k] = [Played(s, 1, j) EXCEPT !.played = TRUE]]
                  /\ items' = Set(items, k, s, j)
           ELSE smarts' = [smarts EXCEPT ![k] = s] /\ UNCHANGED items
    /\ IF k < Len(smarts) THEN k' = k + 1 /\ UNCHANGED pc
                         ELSE k' = 1 /\ pc' = "idle"
    /\ UNCHANGED <<toRemove, now, at, lag, ops, updates>>

----------------------------------------------------------------------------
(* The cloud's commands.                                                   *)

\* deleteAll(), with every automation's stop(), then the automations of C:
\* begin(), or removeAutomationConfig() when C is empty.
Begin(C) ==
    /\ pc = "idle" /\ ops < MaxOps /\ ops' = ops + 1
    /\ items' = cancelAll(items, Components)
    /\ toRemove' = toRemove + Cardinality(Cancelled(items, Components))
    /\ smarts' = [a \in DOMAIN C |-> NewSmart(C[a])]
    /\ UNCHANGED <<now, pc, at, k, lag, updates>>

\* updateValue(): a value arrives; trigger asks to take it for a new one.
UpdateValue(c, v, trigger) ==
    /\ updates < MaxUpdates /\ updates' = updates + 1
    /\ smarts' = [a \in DOMAIN smarts |->
         LET s == smarts[a]
             about == {i \in DOMAIN s.spec.conds : s.spec.conds[i].config = c}
         IN  [s EXCEPT !.held = [i \in DOMAIN @ |-> IF i \in about THEN v \in s.spec.conds[i].met ELSE @[i]],
                       !.reset = [i \in DOMAIN @ |-> IF i \in about THEN trigger ELSE @[i]],
                       !.played = @ /\ about = {}]]
    /\ UNCHANGED <<timerVars, pc, at, k, lag, ops>>

Tick ==
    /\ lag < Lag /\ lag' = lag + 1
    /\ now' = (now + 1) % M /\ items' = Later
    /\ UNCHANGED <<toRemove, smarts, pc, at, k, ops, updates>>

Main == RunTimers \/ Cleanup \/ (\E x \in DOMAIN items : Fire(x)) \/ EndTimers \/ RunSmart

Next ==
    \/ Main
    \/ Tick
    \/ \E C \in Configurations : Begin(C)
    \/ \E c \in ConfigIDs, v \in Values, trigger \in BOOLEAN : UpdateValue(c, v, trigger)

Spec == Init /\ [][Next]_vars
FairSpec == Spec /\ WF_vars(Main) /\ WF_vars(Tick)

----------------------------------------------------------------------------
TypeOK ==
    /\ \A x \in DOMAIN items :
         /\ items[x].timeout \in 0..(M - 2) /\ items[x].next \in 0..(M - 1)
         /\ items[x].age \in 0..M /\ items[x].remove \in BOOLEAN /\ items[x].new \in BOOLEAN
    /\ toRemove \in Nat /\ now \in 0..(M - 1) /\ at \in 0..(M - 1)
    /\ \A a \in DOMAIN smarts :
         /\ smarts[a].running \subseteq DOMAIN smarts[a].spec.acts
         /\ \A i \in DOMAIN smarts[a].spec.acts : smarts[a].lastAlert[i] \in 0..(M - 1)
         /\ \A i \in DOMAIN smarts[a].spec.conds :
              smarts[a].held[i] \in BOOLEAN /\ smarts[a].reset[i] \in BOOLEAN
         /\ smarts[a].last \in {"none", "true", "false"}
    /\ pc \in {"idle", "timer", "smart"} /\ k \in 1..(Len(smarts) + 1)
    /\ lag \in 0..Lag /\ ops \in 0..MaxOps /\ updates \in 0..MaxUpdates

Automation(x) == items[x].component[1]
Action(x) == items[x].component[2]

\* An item that is not cancelled belongs to an action that is running of an
\* automation that lives: its callback finds both.  An automation has at most
\* one, and one while its chain is running, except for a chain that is mute:
\* an alert whose remaining time happened to be TIMER_DONT_RUN.  mToRemove
\* counts the cancelled items in the heap.
TimersOwned ==
    /\ toRemove = Cardinality(Marked(items))
    /\ \A x \in Live(items) :
         Automation(x) \in DOMAIN smarts /\ Action(x) \in smarts[Automation(x)].running
    /\ \A x, y \in Live(items) : Automation(x) = Automation(y) => x = y
    /\ \A a \in DOMAIN smarts : isRunning(smarts[a]) =>
         (smarts[a].mute <=> \A x \in Live(items) : Automation(x) # a)

\* The code compares times as numbers: a deadline beyond the wrap of the clock
\* seems to be over at once...
Cut(x) == items[x].next < items[x].timeout
\* ...and one just before the wrap is forgotten when no run sees it; the run
\* in which a time-out of zero is set does not.
Missed(x) == items[x].next >= M - Lag + (IF items[x].timeout = 0 THEN 0 ELSE 1)

Delay(x) == smarts[Automation(x)].spec.acts[Action(x)].delay
\* The time of the last alert, and when this one was to be sent.
Before(x) == (items[x].next - Delay(x)) % M
Start(x) == (items[x].next - items[x].timeout) % M

\* A time-out is waited for at most two rounds longer than asked for, and is
\* not asked for longer than the action's delay, unless the last alert was
\* sent before the clock wrapped.
NotLate == \A x \in Live(items) :
    /\ items[x].age <= items[x].timeout + 2 * Lag \/ Missed(x)
    /\ items[x].timeout <= Delay(x) \/ Before(x) > Start(x)
\* A time-out comes in time, away from the wrap of the clock: not before the
\* time asked for has passed, and not late.
OnTime == [][/\ \A x \in Live(items) : x \notin DOMAIN items' =>
                 items[x].age >= items[x].timeout \/ Cut(x)
             /\ NotLate']_vars

\* The conditions of s hold, were it not for values that ask for a new edge.
Would(s) ==
    IF s.spec.all THEN \A i \in DOMAIN s.spec.conds : s.held[i]
    ELSE \E i \in DOMAIN s.spec.conds : s.held[i]
AsksAgain(a) == a \in DOMAIN smarts /\ Would(smarts[a]) /\ ~Check(smarts[a])
Answered(a) ==
    a \in DOMAIN smarts => smarts[a].played \/ isRunning(smarts[a]) \/ ~Would(smarts[a])
\* Liveness: a value sent to trigger (ERA_WRITE_CONFIG_ID_AND_TRIGGER) lets the
\* chain play, also when the conditions held before: the one false result
\* makes an edge.  (While the chain is running the edge passes unused.)
Retriggers == \A a \in 1..MaxLen : AsksAgain(a) ~> Answered(a)
=============================================================================
