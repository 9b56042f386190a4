---------------------------- MODULE ERaProperty ----------------------------
(***************************************************************************)
(* ERaProperty (src/src/ERa/ERaProperty.hpp) with its ERaReport on a board *)
(* where ERa.run(), the sketch and the handlers of the cloud's commands    *)
(* share one task (ERA_NO_RTOS).  A property binds a virtual pin to a      *)
(* number: one of the sketch (addPropertyVirtual), or one the library      *)
(* allocates when the sketch or the cloud writes a pin that has none.      *)
(* run() polls the numbers every timeout and lets their reports decide     *)
(* what is published; a publication may be lost while offline.             *)
(*                                                                         *)
(* Properties and reports are heap objects: an address is reused.          *)
(***************************************************************************)
EXTENDS ERaReport, FiniteSets

CONSTANTS Pins,      \* virtual pins
          Addrs,     \* addresses malloc() returns for properties
          Reports,   \* addresses malloc() returns for reports
          Values,    \* numbers
          MAX_PROPERTIES, MAX_REPORTS,
          Timeout,   \* timeout: the time between two polls
          MaxOps,    \* bound: calls of the sketch and commands of the cloud
          MaxLost    \* bound: publications lost

\* ERA_MAX_REPORTS and ERA_MAX_PROPERTIES have the same default.
ASSUME PropertyAssumption ==
    /\ None \notin Reports /\ IsFiniteSet(Reports) /\ IsFiniteSet(Addrs)
    /\ Values \subseteq Nat /\ NaN \notin Values /\ Timeout \in Nat \ {0}
    /\ MAX_PROPERTIES \in Nat /\ MAX_REPORTS \in Nat /\ MAX_PROPERTIES <= MAX_REPORTS
    /\ MaxOps \in Nat /\ MaxLost \in Nat

VARIABLES prop,        \* ERaProp: the properties in the list, by address
          rep,         \* ERaPropRp: the reports in the list, by address
          numProperty, \* properties ever added
          cloud,       \* the number the cloud has for a pin (NaN: none yet)
          lag,         \* time since run()
          ops, lost    \* calls made, publications lost

vars == <<prop, rep, numProperty, cloud, lag, ops, lost>>

Permissions == {{"read"}, {"write"}, {"read", "write"}, {"read", "write", "cloud"}}
CLOUD_READ_WRITE == {"read", "write", "cloud"}
Numbers == Values \cup {NaN}

Init ==
    /\ prop = [a \in {} |-> 0] /\ rep = [r \in {} |-> 0]
    /\ numProperty = 0
    /\ cloud = [p \in Pins |-> NaN]
    /\ lag = 0 /\ ops = 0 /\ lost = 0

numReport == Cardinality(DOMAIN rep)
Put(f, x, y) == [z \in DOMAIN f \cup {x} |-> IF z = x THEN y ELSE f[z]]
Without(f, S) == [z \in DOMAIN f \ S |-> f[z]]

\* isPropertyIdExist()
At(p) == {a \in DOMAIN prop : prop[a].pin = p}

\* The reports of the properties S: the methods of an iterator without a
\* report do nothing.
ReportsOf(S) == {r \in DOMAIN rep : \E a \in S : prop[a].report = r}

\* virtualWriteSingle() of the pins P with the numbers of properties ps: each
\* reaches the cloud or is lost; NaN is not sent.
Publish(ps, A) ==
    LET sent == {a \in A \cap DOMAIN ps : ps[a].value # NaN}
    IN  \E L \in SUBSET sent :
          /\ lost + Cardinality(L) <= MaxLost /\ lost' = lost + Cardinality(L)
          /\ cloud' = [p \in Pins |->
               IF \E a \in sent \ L : ps[a].pin = p
               THEN ps[CHOOSE a \in sent \ L : ps[a].pin = p].value ELSE cloud[p]]

\* ERaReport::run() on reports rs of properties ps: mark those that are due,
\* publish for the marked ones, delete those flagged.
RunReports(ps, rs) ==
    LET marked == [r \in DOMAIN rs |-> Mark(rs[r])]
    IN  /\ Publish(ps, {marked[r].param : r \in {q \in DOMAIN rs : Called(marked[q])}})
        /\ rep' = [r \in {q \in DOMAIN rs : ~rs[q].delete} |-> Clear(marked[r])]

----------------------------------------------------------------------------
(* Properties are added.                                                   *)

NewProperty(p, perm, v, r) ==
    [pin |-> p, perm |-> perm, value |-> v, report |-> r, polled |-> 0]

\* setupProperty() at address a: a property that is read gets a report at
\* address r, if there is room for it, and its first value.
Setup(a, r, p, perm, v, s) ==
    /\ numProperty < MAX_PROPERTIES /\ numProperty' = numProperty + 1
    /\ a \notin DOMAIN prop
    /\ IF "read" \in perm /\ numReport < MAX_REPORTS
       THEN /\ r \in Reports \ DOMAIN rep
            /\ prop' = Put(prop, a, NewProperty(p, perm, v, r))
            /\ rep' = Put(rep, r, updateReport(setupReport(s, a), v, FALSE))
       ELSE /\ r = None
            /\ prop' = Put(prop, a, NewProperty(p, perm, v, None))
            /\ UNCHANGED rep

Call == ops < MaxOps /\ ops' = ops + 1

\* addPropertyVirtual(p, variable, perm).publishOnChange(s) of the sketch.
AddPropertyVirtual(a, r, p, perm, v, s) ==
    /\ Call /\ At(p) = {} /\ "cloud" \notin perm
    /\ Setup(a, r, p, perm, v, s)
    /\ UNCHANGED <<cloud, lag, lost>>

\* A write to a pin without property adds one; none is added when
\* MAX_PROPERTIES have been.
AddProperty(p, v, s) ==
    IF numProperty < MAX_PROPERTIES
    THEN \E a \in Addrs, r \in Reports \cup {None} : Setup(a, r, p, CLOUD_READ_WRITE, v, s)
    ELSE UNCHANGED <<prop, rep, numProperty>>

----------------------------------------------------------------------------
(* Numbers change.                                                         *)

\* The sketch assigns the variable of its property.
Assign(a, v) ==
    /\ Call /\ a \in DOMAIN prop /\ "cloud" \notin prop[a].perm
    /\ prop' = [prop EXCEPT ![a].value = v]
    /\ UNCHANGED <<rep, numProperty, cloud, lag, lost>>

\* virtualWriteProperty(p, v, send): a new property's number is published.
VirtualWrite(p, v, send, s) ==
    /\ Call /\ UNCHANGED lag
    /\ \/ /\ At(p) = {} /\ AddProperty(p, v, s)
          /\ Publish(prop', DOMAIN prop' \ DOMAIN prop)
       \/ /\ At(p) # {}
          /\ prop' = [a \in DOMAIN prop |->
                        IF a \in At(p) THEN [prop[a] EXCEPT !.value = v] ELSE prop[a]]
          /\ LET Write(rp) == IF send THEN executeReport(updateReport(rp, v, FALSE))
                                      ELSE updateReport(rp, v, FALSE)
             IN  rep' = [r \in DOMAIN rep |->
                           IF r \in ReportsOf(At(p)) THEN Write(rep[r]) ELSE rep[r]]
          /\ UNCHANGED <<numProperty, cloud, lost>>

\* handler(p, v): the cloud writes v, and knows it (a new property publishes
\* it back).
Handler(p, v, s) ==
    /\ Call /\ UNCHANGED <<lag, lost>>
    /\ cloud' = [cloud EXCEPT ![p] = v]
    /\ \/ /\ At(p) = {} /\ AddProperty(p, v, s)
       \/ /\ At(p) # {}
          /\ LET written == {a \in At(p) : "write" \in prop[a].perm}
             IN  /\ prop' = [a \in DOMAIN prop |->
                               IF a \in written THEN [prop[a] EXCEPT !.value = v] ELSE prop[a]]
                 /\ rep' = [r \in DOMAIN rep |->
                              IF r \in ReportsOf(written) THEN updateReport(rep[r], v, TRUE)
                              ELSE rep[r]]
          /\ UNCHANGED numProperty

\* publishOnChange(s) and publishEvery(interval) of the sketch, later.
PublishOnChange(a, s) ==
    /\ Call /\ a \in DOMAIN prop /\ "read" \in prop[a].perm
    /\ rep' = [r \in DOMAIN rep |->
                 IF r \in ReportsOf({a})
                 THEN updateReport(changeReportableChange(rep[r], s), prop[a].value, FALSE)
                 ELSE rep[r]]
    /\ UNCHANGED <<prop, numProperty, cloud, lag, lost>>
PublishEvery(a, s) ==
    /\ Call /\ a \in DOMAIN prop /\ "read" \in prop[a].perm
    /\ rep' = [r \in DOMAIN rep |->
                 IF r \in ReportsOf({a}) THEN reportEvery(rep[r], s.max) ELSE rep[r]]
    /\ UNCHANGED <<prop, numProperty, cloud, lag, lost>>

----------------------------------------------------------------------------
(* A configuration of the cloud arrives (processPinConfig).                *)

\* publishAll(true): the configuration is the one already known.
PublishAll ==
    /\ Call
    /\ rep' = [r \in DOMAIN rep |->
                 IF r \in ReportsOf(DOMAIN prop) THEN executeNow(rep[r]) ELSE rep[r]]
    /\ UNCHANGED <<prop, numProperty, cloud, lag, lost>>

\* Mutant of UpdateProperty: the report of a removed property stays.
UpdateProperty_KeepsReport(C) ==
    /\ Call
    /\ LET gone == {a \in DOMAIN prop : "cloud" \in prop[a].perm /\ prop[a].pin \notin C}
       IN  /\ prop' = Without(prop, gone)
           /\ RunReports(prop', [r \in DOMAIN rep |-> executeNow(rep[r])])
    /\ UNCHANGED <<numProperty, lag>>
\* updateProperty(): the virtual pins of the new configuration are C; the
\* properties the library added for other pins are removed, the rest is
\* published, and the reports run.
UpdateProperty(C) ==
    /\ Call
    /\ LET gone == {a \in DOMAIN prop : "cloud" \in prop[a].perm /\ prop[a].pin \notin C}
       IN  /\ prop' = Without(prop, gone)
           /\ RunReports(prop', [r \in DOMAIN rep |->
                IF r \in ReportsOf(gone) THEN deleteReport(rep[r])
                ELSE IF r \in ReportsOf(DOMAIN prop \ gone) THEN executeNow(rep[r])
                ELSE rep[r]])
    /\ UNCHANGED <<numProperty, lag>>

----------------------------------------------------------------------------
(* ERa.run()                                                               *)

\* A property that is due is polled, then the reports run.
Run ==
    /\ LET due == {a \in DOMAIN prop : prop[a].polled >= Timeout}
       IN  /\ prop' = [a \in DOMAIN prop |-> [prop[a] EXCEPT !.polled = @ % Timeout]]
           /\ RunReports(prop', [r \in DOMAIN rep |->
                IF r \in ReportsOf(due)
                THEN updateReport(rep[r], prop[rep[r].param].value, FALSE) ELSE rep[r]])
    /\ lag' = 0
    /\ UNCHANGED <<numProperty, ops>>

\* Time passes: the sketch's loop() calls ERa.run() within Lag.
Tick ==
    /\ lag < Lag /\ lag' = lag + 1
    /\ rep' = [r \in DOMAIN rep |-> Later(rep[r])]
    /\ prop' = [a \in DOMAIN prop |-> [prop[a] EXCEPT !.polled = @ + 1]]
    /\ UNCHANGED <<numProperty, cloud, ops, lost>>

Sketch ==
    \/ \E a \in Addrs, r \in Reports \cup {None}, p \in Pins, perm \in Permissions,
          v \in Numbers, s \in Settings : AddPropertyVirtual(a, r, p, perm, v, s)
    \/ \E a \in Addrs, v \in Numbers : Assign(a, v)
    \/ \E p \in Pins, v \in Values, send \in BOOLEAN, s \in Settings : VirtualWrite(p, v, send, s)
    \/ \E a \in Addrs, s \in Settings : PublishOnChange(a, s) \/ PublishEvery(a, s)
Commands ==
    \/ \E p \in Pins, v \in Values, s \in Settings : Handler(p, v, s)
    \/ \E C \in SUBSET Pins : UpdateProperty(C)
    \/ PublishAll

Next == Sketch \/ Commands \/ Run \/ Tick
Spec == Init /\ [][Next]_vars
\* The sketch calls ERa.run() from loop() for ever, and time passes.
FairSpec == Spec /\ WF_vars(Run) /\ WF_vars(Tick)

----------------------------------------------------------------------------
(* Properties                                                              *)

Property == [pin : Pins, perm : Permissions, value : Numbers,
             report : Reports \cup {None}, polled : 0..(Lag + Timeout)]
Report == [value : Values \cup {0}, prev : Values \cup {0}, elapsed : 0..(M - 1),
           change : Nat, min : 1..(M - 1), max : 1..(M - 1),
           enable : BOOLEAN, updated : BOOLEAN, called : BOOLEAN, delete : BOOLEAN,
           param : Addrs, since : 0..M, forced : BOOLEAN]

\* Every variable has its type; elapsed stays below M.
TypeOK ==
    /\ DOMAIN prop \subseteq Addrs /\ \A a \in DOMAIN prop : prop[a] \in Property
    /\ DOMAIN rep \subseteq Reports /\ \A r \in DOMAIN rep : rep[r] \in Report
    /\ numProperty \in 0..MAX_PROPERTIES
    /\ cloud \in [Pins -> Numbers]
    /\ lag \in 0..Lag /\ ops \in 0..MaxOps /\ lost \in 0..MaxLost

\* Whatever is added and removed: every property that is read has a report of
\* its own (there is room for it), and the callback of every report in the
\* list has a live property as its argument, the one that holds the report.
ReportsOwned ==
    /\ \A a \in DOMAIN prop : "read" \in prop[a].perm =>
          prop[a].report \in DOMAIN rep /\ rep[prop[a].report].param = a
    /\ \A r \in DOMAIN rep : rep[r].param \in DOMAIN prop /\ prop[rep[r].param].report = r

\* When run() decides to publish a value, its minInterval has passed since it
\* or a send last did, across the wrap-around of the clock and changes of its
\* settings, unless the code asked for the value now (send, a configuration).
Spaced == [][ops' = ops => \A r \in DOMAIN rep \cap DOMAIN rep' :
                rep'[r].since < rep[r].since => rep[r].since >= rep[r].min \/ rep[r].forced]_vars

\* With a heartbeat, the cloud ends with the number of each property, though
\* publications are lost, a NaN stood in for one, and a number published
\* between two polls was gone at the next.
Heartbeat(p) == \E a \in At(p) : /\ "read" \in prop[a].perm /\ prop[a].value # NaN
                                 /\ rep[prop[a].report].max # WaitForever
Converges == \A p \in Pins : <>[]Heartbeat(p) =>
                <>[](\E a \in At(p) : cloud[p] = prop[a].value)
=============================================================================
