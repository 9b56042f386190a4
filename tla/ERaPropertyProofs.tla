------------------------- MODULE ERaPropertyProofs -------------------------
(***************************************************************************)
(* Proofs about ERaProperty for every number of pins, addresses, settings  *)
(* and calls, and every width of the clock: types, the ownership of        *)
(* reports and the interval between publications.                          *)
(***************************************************************************)
EXTENDS ERaProperty, FiniteSetTheorems, TLAPS

\* A report whose elapsed was not advanced counts at most the time since it
\* last decided to publish.
Timed(rp) == rp.forced \/ rp.elapsed <= rp.since

\* A report of the list between two steps; q comes from rp.
Live(rp) == rp \in Report /\ ~rp.delete /\ Timed(rp)
Kept(rp, q) == Live(q) /\ q.param = rp.param

ClockOK == lag \in 0..Lag /\ ops \in 0..MaxOps
CloudOK == cloud \in [Pins -> Numbers] /\ lost \in 0..MaxLost

\* There are no more reports than properties were ever added, hence room for
\* one as long as properties can be added.
Room == numProperty \in 0..MAX_PROPERTIES /\ Cardinality(DOMAIN rep) <= numProperty

Tables ==
    /\ DOMAIN prop \subseteq Addrs
    /\ \A a \in DOMAIN prop : prop[a] \in Property /\ prop[a].polled <= lag + Timeout
    /\ DOMAIN rep \subseteq Reports
    /\ \A r \in DOMAIN rep : Live(rep[r])
    /\ Room
    /\ ReportsOwned

IInv == ClockOK /\ CloudOK /\ Tables

----------------------------------------------------------------------------
(* What the operations of a report keep.                                   *)

LEMMA Clock == M \in Nat /\ M > 1 /\ Lag \in Nat /\ Timeout \in Nat /\ Timeout > 0
BY ReportAssumption, PropertyAssumption

LEMMA NaNApart == NaN \notin Values /\ Values \subseteq Nat
BY PropertyAssumption

LEMMA SettingsType ==
    ASSUME NEW s \in Settings
    PROVE  /\ s.change \in Nat /\ s.min \in Nat /\ s.max \in Nat
           /\ s.min < M - 1 /\ s.max <= M - 1
<1>1. s \in [change : Nat, min : Nat, max : Nat]
  BY ReportAssumption
<1>2. s.min < M - Lag /\ (s.max < M - Lag \/ s.max = M - 1)
  BY ReportAssumption DEF WaitForever
<1>3. Lag \in Nat \ {0} /\ M \in Nat
  BY ReportAssumption
<1> QED BY <1>1, <1>2, <1>3

LEMMA Max2Type ==
    ASSUME NEW a \in Nat, NEW b \in Nat
    PROVE  Max2(a, b) \in Nat /\ Max2(a, b) >= b /\ Max2(a, b) \in {a, b}
BY DEF Max2

LEMMA FieldsType ==
    ASSUME NEW rp \in Report
    PROVE  /\ rp.elapsed \in 0..(M - 1) /\ rp.since \in 0..M
           /\ rp.min \in 1..(M - 1) /\ rp.max \in 1..(M - 1)
           /\ rp.forced \in BOOLEAN /\ rp.called \in BOOLEAN
           /\ rp.updated \in BOOLEAN /\ rp.enable \in BOOLEAN /\ rp.delete \in BOOLEAN
           /\ rp.param \in Addrs /\ rp.value \in Values \cup {0} /\ rp.prev \in Values \cup {0}
BY DEF Report

LEMMA ChangeKeeps ==
    ASSUME NEW rp, Live(rp), NEW s \in Settings
    PROVE  Kept(rp, changeReportableChange(rp, s))
<1> DEFINE lo == Max2(s.min, 1)
           hi == Max2(s.max, lo)
<1>1. lo \in 1..(M - 1) /\ hi \in 1..(M - 1)
  <2>1. lo \in Nat /\ lo >= 1 /\ lo \in {s.min, 1}
    BY SettingsType, Max2Type
  <2> HIDE DEF lo
  <2>2. hi \in Nat /\ hi >= lo /\ hi \in {s.max, lo}
    BY <2>1, SettingsType, Max2Type
  <2> HIDE DEF hi
  <2> QED BY <2>1, <2>2, SettingsType, Clock
<1>2. s.change \in Nat
  BY SettingsType
<1> HIDE DEF lo, hi
<1>3. [rp EXCEPT !.change = s.change, !.min = lo, !.max = hi] \in Report
  BY <1>1, <1>2 DEF Live, Report
<1> QED BY <1>3 DEF Kept, Live, Report, Timed, changeReportableChange, lo, hi

LEMMA SetupLive ==
    ASSUME NEW s \in Settings, NEW a \in Addrs
    PROVE  Live(setupReport(s, a)) /\ setupReport(s, a).param = a
<1> DEFINE new == [value |-> 0, prev |-> 0, elapsed |-> 0, change |-> 0, min |-> 1, max |-> 1,
                   enable |-> TRUE, updated |-> FALSE, called |-> FALSE, delete |-> FALSE,
                   param |-> a, since |-> M, forced |-> FALSE]
<1>1. Live(new) /\ new.param = a
  BY Clock DEF Live, Report, Timed
<1> HIDE DEF new
<1>2. Kept(new, changeReportableChange(new, s))
  BY <1>1, ChangeKeeps
<1> QED BY <1>1, <1>2 DEF Kept, setupReport, new

LEMMA UpdateKeeps ==
    ASSUME NEW rp, Live(rp), NEW v \in Numbers, NEW execute \in BOOLEAN
    PROVE  Kept(rp, updateReport(rp, v, execute))
<1>1. CASE v = NaN
  BY <1>1 DEF Kept, updateReport
<1>2. CASE v # NaN
  <2>1. v \in Values
    BY <1>2 DEF Numbers
  <2>2. CASE rp.updated
    BY <1>2, <2>1, <2>2 DEF Kept, Live, Report, Timed, updateReport
  <2>3. CASE ~rp.updated
    <3> DEFINE atOnce == execute /\ rp.max # WaitForever
               e == IF atOnce THEN rp.max ELSE rp.elapsed
               f == rp.forced \/ atOnce
               q == [rp EXCEPT !.value = v, !.prev = v, !.updated = TRUE, !.elapsed = e, !.forced = f]
    <3>1. updateReport(rp, v, execute) = q
      BY <1>2, <2>3 DEF updateReport
    <3>2. e \in 0..(M - 1) /\ f \in BOOLEAN /\ (f \/ e <= rp.since)
      BY FieldsType, Clock DEF Live, Timed
    <3> HIDE DEF e, f
    <3>3. Kept(rp, q)
      BY <2>1, <3>2 DEF Kept, Live, Report, Timed
    <3> QED BY <3>1, <3>3
  <2> QED BY <2>2, <2>3
<1> QED BY <1>1, <1>2

LEMMA EveryKeeps ==
    ASSUME NEW rp, Live(rp), NEW s \in Settings
    PROVE  Kept(rp, reportEvery(rp, s.max))
BY SettingsType, Clock DEF Kept, Live, Report, Timed, reportEvery, Max2

LEMMA ExecuteKeeps ==
    ASSUME NEW rp, Live(rp)
    PROVE  Kept(rp, executeReport(rp)) /\ Kept(rp, executeNow(rp))
<1>1. 0 \in 0..(M - 1) /\ 0 \in 0..M /\ rp.max \in 0..(M - 1)
  BY FieldsType, Clock DEF Live
<1>2. Kept(rp, executeReport(rp))
  <2> DEFINE n == 0
             c == TRUE
             q == [rp EXCEPT !.elapsed = 0, !.prev = rp.value, !.called = c, !.since = n, !.forced = FALSE]
  <2>1. n \in 0..M /\ c \in BOOLEAN /\ 0 <= n
    BY <1>1
  <2>2. executeReport(rp) = q
    BY DEF executeReport
  <2> HIDE DEF n, c
  <2> QED BY <1>1, <2>1, <2>2 DEF Kept, Live, Report, Timed
<1>3. Kept(rp, executeNow(rp))
  BY <1>1 DEF Kept, Live, Report, Timed, executeNow
<1> QED BY <1>2, <1>3

LEMMA LaterKeeps ==
    ASSUME NEW rp, Live(rp)
    PROVE  Kept(rp, Later(rp))
<1> DEFINE e == (rp.elapsed + 1) % M
           n == IF rp.since = M THEN M ELSE rp.since + 1
<1>1. rp.elapsed \in 0..(M - 1) /\ rp.since \in 0..M /\ rp.forced \in BOOLEAN
  BY FieldsType DEF Live
<1>2. e \in 0..(M - 1) /\ e <= rp.elapsed + 1
  <2>1. CASE rp.elapsed = M - 1
    BY <1>1, <2>1, Clock
  <2>2. CASE rp.elapsed < M - 1
    BY <1>1, <2>2, Clock
  <2> QED BY <1>1, <2>1, <2>2, Clock
<1>3. n \in 0..M /\ (rp.forced \/ e <= n)
  BY <1>1, <1>2, Clock DEF Live, Timed
<1> HIDE DEF e, n
<1>4. Kept(rp, [rp EXCEPT !.elapsed = e, !.since = n])
  BY <1>2, <1>3 DEF Kept, Live, Report, Timed
<1> QED BY <1>4 DEF Later, e, n

LEMMA RunKeeps ==
    ASSUME NEW rp, Live(rp)
    PROVE  Kept(rp, Mark(rp)) /\ Kept(rp, Clear(Mark(rp)))
<1>1. Kept(rp, Mark(rp))
  <2>1. CASE Due(rp)
    <3> DEFINE calls == rp.updated /\ rp.enable
               n == IF calls THEN 0 ELSE rp.since
               c == rp.called \/ calls
    <3>1. n \in 0..M /\ c \in BOOLEAN /\ 0 <= n /\ 0 \in 0..(M - 1)
      BY FieldsType, Clock DEF Live
    <3>2. Mark(rp) = [rp EXCEPT !.elapsed = 0, !.prev = rp.value, !.called = c,
                                !.since = n, !.forced = FALSE]
      BY <2>1 DEF Mark
    <3> HIDE DEF n, c
    <3> QED BY <3>1, <3>2 DEF Kept, Live, Report, Timed
  <2>2. CASE ~Due(rp)
    BY <2>2 DEF Kept, Mark
  <2> QED BY <2>1, <2>2
<1>2. ASSUME NEW q, Live(q) PROVE Kept(q, Clear(q))
  BY <1>2 DEF Kept, Live, Report, Timed, Clear
<1> QED BY <1>1, <1>2 DEF Kept

----------------------------------------------------------------------------
(* What a step does to the tables.                                         *)

\* Publications keep the cloud's numbers and the count of losses.
LEMMA PublishType ==
    ASSUME CloudOK, NEW ps, NEW A, IsFiniteSet(DOMAIN ps),
           \A a \in DOMAIN ps : ps[a].value \in Numbers,
           Publish(ps, A)
    PROVE  CloudOK'
<1> DEFINE sent == {a \in A \cap DOMAIN ps : ps[a].value # NaN}
<1>1. PICK L \in SUBSET sent :
         /\ lost + Cardinality(L) <= MaxLost /\ lost' = lost + Cardinality(L)
         /\ cloud' = [p \in Pins |->
               IF \E a \in sent \ L : ps[a].pin = p
               THEN ps[CHOOSE a \in sent \ L : ps[a].pin = p].value ELSE cloud[p]]
  BY DEF Publish
<1>2. Cardinality(L) \in Nat
  <2>1. L \subseteq DOMAIN ps
    OBVIOUS
  <2> QED BY <2>1, FS_Subset, FS_CardinalityType
<1>3. lost' \in 0..MaxLost
  BY <1>1, <1>2, PropertyAssumption DEF CloudOK
<1>4. ASSUME NEW p \in Pins PROVE cloud'[p] \in Numbers
  <2>1. CASE \E a \in sent \ L : ps[a].pin = p
    <3>1. (CHOOSE a \in sent \ L : ps[a].pin = p) \in DOMAIN ps
      BY <2>1
    <3>2. cloud'[p] = ps[CHOOSE a \in sent \ L : ps[a].pin = p].value
      BY <1>1, <2>1
    <3> QED BY <3>1, <3>2
  <2>2. CASE ~\E a \in sent \ L : ps[a].pin = p
    <3>1. cloud'[p] = cloud[p]
      BY <1>1, <2>2
    <3> QED BY <3>1 DEF CloudOK
  <2> QED BY <2>1, <2>2
<1>5. cloud' \in [Pins -> Numbers]
  <2>1. \E F : cloud' = [p \in Pins |-> F[p]]
    <3> DEFINE G == [p \in Pins |->
               IF \E a \in sent \ L : ps[a].pin = p
               THEN ps[CHOOSE a \in sent \ L : ps[a].pin = p].value ELSE cloud[p]]
    <3>1. cloud' = G
      BY <1>1
    <3>2. G = [p \in Pins |-> G[p]]
      OBVIOUS
    <3> HIDE DEF G
    <3> QED BY <3>1, <3>2
  <2> QED BY <1>4, <2>1
<1> QED BY <1>3, <1>5 DEF CloudOK

\* A step that keeps both tables' addresses keeps the ownership.
LEMMA KeepTables ==
    ASSUME Tables, ClockOK, lag' \in 0..Lag, numProperty' = numProperty,
           DOMAIN prop' = DOMAIN prop, DOMAIN rep' = DOMAIN rep,
           \A a \in DOMAIN prop : /\ prop'[a] \in Property
                                 /\ prop'[a].polled <= lag' + Timeout
                                 /\ prop'[a].perm = prop[a].perm
                                 /\ prop'[a].report = prop[a].report,
           \A r \in DOMAIN rep : Kept(rep[r], rep'[r])
    PROVE  Tables'
<1>1. Room'
  BY DEF Tables, Room
<1>2. ReportsOwned'
  BY DEF Tables, ReportsOwned, Kept
<1> QED BY <1>1, <1>2 DEF Tables, Kept

\* run() of the reports rs, some of which are being deleted.
LEMMA RunReportsKeeps ==
    ASSUME NEW ps, NEW rs, RunReports(ps, rs),
           \A r \in DOMAIN rs : rs[r].delete \/ Live(rs[r])
    PROVE  /\ DOMAIN rep' = {r \in DOMAIN rs : ~rs[r].delete}
           /\ \A r \in DOMAIN rep' : rep'[r] = Clear(Mark(rs[r])) /\ Kept(rs[r], rep'[r])
<1>1. rep' = [r \in {q \in DOMAIN rs : ~rs[q].delete} |-> Clear(Mark(rs[r]))]
  BY DEF RunReports
<1> QED BY <1>1, RunKeeps

\* A new property has a fresh address and, when it is read, a fresh report.
LEMMA SetupTables ==
    ASSUME Tables, ClockOK, lag' = lag,
           NEW a \in Addrs, NEW r \in Reports \cup {None}, NEW p \in Pins,
           NEW perm \in Permissions, NEW v \in Numbers, NEW s \in Settings,
           Setup(a, r, p, perm, v, s)
    PROVE  Tables'
<1>1. numProperty < MAX_PROPERTIES /\ numProperty' = numProperty + 1 /\ a \notin DOMAIN prop
  BY DEF Setup
<1>2. IsFiniteSet(DOMAIN rep) /\ numReport \in Nat /\ numReport <= numProperty
  BY FS_Subset, FS_CardinalityType, PropertyAssumption DEF Tables, Room, numReport
<1>3. numReport < MAX_REPORTS
  BY <1>1, <1>2, PropertyAssumption DEF Tables, Room
<1>4. DOMAIN Put(prop, a, NewProperty(p, perm, v, r)) = DOMAIN prop \cup {a}
  BY DEF Put
<1>5. prop' = Put(prop, a, NewProperty(p, perm, v, r))
  BY DEF Setup
<1>6. /\ DOMAIN prop' = DOMAIN prop \cup {a}
      /\ prop'[a] = NewProperty(p, perm, v, r)
      /\ \A b \in DOMAIN prop : prop'[b] = prop[b]
  BY <1>1, <1>5 DEF Put
<1>7. NewProperty(p, perm, v, r) \in Property /\ NewProperty(p, perm, v, r).polled <= lag + Timeout
  <2>1. 0 \in 0..(Lag + Timeout) /\ 0 <= lag + Timeout
    BY Clock DEF ClockOK
  <2> QED BY <2>1 DEF NewProperty, Property
<1>8. \A b \in DOMAIN prop' : prop'[b] \in Property /\ prop'[b].polled <= lag' + Timeout
  BY <1>6, <1>7 DEF Tables
<1>9. CASE "read" \in perm
  <2> DEFINE new == updateReport(setupReport(s, a), v, FALSE)
  <2>1. r \in Reports \ DOMAIN rep /\ rep' = Put(rep, r, new)
    BY <1>3, <1>9 DEF Setup
  <2>2. Live(new) /\ new.param = a
    BY SetupLive, UpdateKeeps DEF Kept
  <2> HIDE DEF new
  <2>3. /\ DOMAIN rep' = DOMAIN rep \cup {r}
        /\ rep'[r] = new
        /\ \A q \in DOMAIN rep : rep'[q] = rep[q]
    BY <2>1 DEF Put
  <2>4. Room'
    <3>1. Cardinality(DOMAIN rep \cup {r}) = numReport + 1
      BY <1>2, <2>1, FS_AddElement DEF numReport
    <3> QED BY <1>1, <1>2, <2>3, <3>1, PropertyAssumption DEF Tables, Room
  <2>5. ReportsOwned'
    BY <1>1, <1>6, <2>1, <2>2, <2>3 DEF Tables, ReportsOwned, NewProperty
  <2> QED BY <1>6, <1>8, <2>1, <2>2, <2>3, <2>4, <2>5 DEF Tables
<1>10. CASE "read" \notin perm
  <2>1. r = None /\ rep' = rep
    BY <1>10 DEF Setup
  <2>2. Room'
    BY <1>1, <1>2, <2>1, PropertyAssumption DEF Tables, Room, numReport
  <2>3. ReportsOwned'
    BY <1>1, <1>6, <1>10, <2>1 DEF Tables, ReportsOwned, NewProperty
  <2> QED BY <1>6, <1>8, <2>1, <2>2, <2>3 DEF Tables
<1> QED BY <1>9, <1>10

\* A call of the sketch or a command is counted.
LEMMA CallClock ==
    ASSUME ClockOK, Call, UNCHANGED lag
    PROVE  ClockOK'
BY PropertyAssumption DEF ClockOK, Call

\* A write to a pin that has no property.
LEMMA AddTables ==
    ASSUME Tables, ClockOK, lag' = lag, NEW p \in Pins, NEW v \in Values, NEW s \in Settings,
           AddProperty(p, v, s)
    PROVE  Tables'
<1>1. CASE numProperty < MAX_PROPERTIES
  <2>1. PICK a \in Addrs, r \in Reports \cup {None} : Setup(a, r, p, CLOUD_READ_WRITE, v, s)
    BY <1>1 DEF AddProperty
  <2> QED BY <2>1, SetupTables DEF CLOUD_READ_WRITE, Permissions, Numbers
<1>2. CASE ~(numProperty < MAX_PROPERTIES)
  BY <1>2 DEF AddProperty, Tables, Room, ReportsOwned
<1> QED BY <1>1, <1>2

\* What the tables say of the properties a publication reads.
LEMMA TablesFinite ==
    ASSUME Tables
    PROVE  /\ IsFiniteSet(DOMAIN prop)
           /\ \A a \in DOMAIN prop : prop[a].value \in Numbers
BY FS_Subset, PropertyAssumption DEF Tables, Property

LEMMA AddPropertyVirtualInv ==
    ASSUME IInv, NEW a \in Addrs, NEW r \in Reports \cup {None}, NEW p \in Pins,
           NEW perm \in Permissions, NEW v \in Numbers, NEW s \in Settings,
           AddPropertyVirtual(a, r, p, perm, v, s)
    PROVE  IInv'
BY CallClock, SetupTables DEF AddPropertyVirtual, IInv, CloudOK

LEMMA AssignInv ==
    ASSUME IInv, NEW a \in Addrs, NEW v \in Numbers, Assign(a, v)
    PROVE  IInv'
<1>1. \A b \in DOMAIN prop :
         /\ prop'[b] \in Property /\ prop'[b].polled <= lag' + Timeout
         /\ prop'[b].perm = prop[b].perm /\ prop'[b].report = prop[b].report
  BY DEF Assign, IInv, Tables, Property
<1>2. Tables'
  BY <1>1, KeepTables DEF Assign, IInv, ClockOK, Tables, Kept
<1> QED BY <1>2, CallClock DEF Assign, IInv, CloudOK

LEMMA VirtualWriteInv ==
    ASSUME IInv, NEW p \in Pins, NEW v \in Values, NEW send \in BOOLEAN, NEW s \in Settings,
           VirtualWrite(p, v, send, s)
    PROVE  IInv'
<1>1. ClockOK' /\ lag' = lag
  BY CallClock DEF VirtualWrite, IInv
<1>2. CASE AddProperty(p, v, s) /\ Publish(prop', DOMAIN prop' \ DOMAIN prop)
  <2>1. Tables'
    BY <1>1, <1>2, AddTables DEF IInv
  <2>2. IsFiniteSet(DOMAIN prop') /\ \A a \in DOMAIN prop' : prop'[a].value \in Numbers
    BY <2>1, FS_Subset, PropertyAssumption DEF Tables, Property
  <2>3. CloudOK'
    BY <1>2, <2>2, PublishType DEF IInv
  <2> QED BY <1>1, <2>1, <2>3 DEF IInv
<1>3. CASE ~(AddProperty(p, v, s) /\ Publish(prop', DOMAIN prop' \ DOMAIN prop))
  <2> DEFINE Write(rp) == IF send THEN executeReport(updateReport(rp, v, FALSE))
                                  ELSE updateReport(rp, v, FALSE)
  <2>1. /\ prop' = [a \in DOMAIN prop |->
                      IF a \in At(p) THEN [prop[a] EXCEPT !.value = v] ELSE prop[a]]
        /\ rep' = [r \in DOMAIN rep |->
                      IF r \in ReportsOf(At(p)) THEN Write(rep[r]) ELSE rep[r]]
        /\ UNCHANGED <<numProperty, cloud, lost>>
    BY <1>3 DEF VirtualWrite
  <2>2. \A rp : Live(rp) => Kept(rp, Write(rp))
    BY UpdateKeeps, ExecuteKeeps DEF Kept, Numbers
  <2> HIDE DEF Write
  <2>3. DOMAIN rep' = DOMAIN rep /\ \A r \in DOMAIN rep : Kept(rep[r], rep'[r])
    BY <2>1, <2>2 DEF IInv, Tables, Kept
  <2>4. \A b \in DOMAIN prop :
           /\ prop'[b] \in Property /\ prop'[b].polled <= lag' + Timeout
           /\ prop'[b].perm = prop[b].perm /\ prop'[b].report = prop[b].report
    BY <1>1, <2>1 DEF IInv, Tables, Property, Numbers
  <2>5. Tables'
    BY <1>1, <2>1, <2>3, <2>4, KeepTables DEF IInv, ClockOK
  <2> QED BY <1>1, <2>1, <2>5 DEF IInv, CloudOK
<1> QED BY <1>2, <1>3

LEMMA HandlerInv ==
    ASSUME IInv, NEW p \in Pins, NEW v \in Values, NEW s \in Settings, Handler(p, v, s)
    PROVE  IInv'
<1>1. ClockOK' /\ lag' = lag
  BY CallClock DEF Handler, IInv
<1>2. CloudOK'
  BY DEF Handler, IInv, CloudOK, Numbers
<1>3. CASE AddProperty(p, v, s)
  BY <1>1, <1>2, <1>3, AddTables DEF IInv
<1>4. CASE ~AddProperty(p, v, s)
  <2> DEFINE written == {a \in At(p) : "write" \in prop[a].perm}
             Write(rp) == updateReport(rp, v, TRUE)
  <2>1. /\ prop' = [a \in DOMAIN prop |->
                      IF a \in written THEN [prop[a] EXCEPT !.value = v] ELSE prop[a]]
        /\ rep' = [r \in DOMAIN rep |->
                      IF r \in ReportsOf(written) THEN Write(rep[r]) ELSE rep[r]]
        /\ UNCHANGED numProperty
    BY <1>4 DEF Handler
  <2>2. \A rp : Live(rp) => Kept(rp, Write(rp))
    BY UpdateKeeps DEF Numbers
  <2> HIDE DEF Write, written
  <2>3. DOMAIN rep' = DOMAIN rep /\ \A r \in DOMAIN rep : Kept(rep[r], rep'[r])
    BY <2>1, <2>2 DEF IInv, Tables, Kept
  <2>4. \A b \in DOMAIN prop :
           /\ prop'[b] \in Property /\ prop'[b].polled <= lag' + Timeout
           /\ prop'[b].perm = prop[b].perm /\ prop'[b].report = prop[b].report
    BY <1>1, <2>1 DEF IInv, Tables, Property, Numbers
  <2>5. Tables'
    BY <1>1, <2>1, <2>3, <2>4, KeepTables DEF IInv, ClockOK
  <2> QED BY <1>1, <1>2, <2>5 DEF IInv
<1> QED BY <1>3, <1>4

\* A call that only changes reports.
LEMMA ReportsOnlyInv ==
    ASSUME IInv, Call, UNCHANGED <<prop, numProperty, cloud, lag, lost>>,
           DOMAIN rep' = DOMAIN rep, \A r \in DOMAIN rep : Kept(rep[r], rep'[r])
    PROVE  IInv'
<1>1. Tables'
  BY KeepTables DEF IInv, Tables, ClockOK
<1> QED BY <1>1, CallClock DEF IInv, CloudOK

LEMMA PublishOnChangeInv ==
    ASSUME IInv, NEW a \in Addrs, NEW s \in Settings, PublishOnChange(a, s)
    PROVE  IInv'
<1> DEFINE Change(rp) == updateReport(changeReportableChange(rp, s), prop[a].value, FALSE)
<1>1. a \in DOMAIN prop /\ rep' = [r \in DOMAIN rep |->
           IF r \in ReportsOf({a}) THEN Change(rep[r]) ELSE rep[r]]
  BY DEF PublishOnChange
<1>2. prop[a].value \in Numbers
  BY <1>1, TablesFinite DEF IInv
<1>3. \A rp : Live(rp) => Kept(rp, Change(rp))
  BY <1>2, ChangeKeeps, UpdateKeeps DEF Kept
<1> HIDE DEF Change
<1>4. DOMAIN rep' = DOMAIN rep /\ \A r \in DOMAIN rep : Kept(rep[r], rep'[r])
  BY <1>1, <1>3 DEF IInv, Tables, Kept
<1> QED BY <1>4, ReportsOnlyInv DEF PublishOnChange

LEMMA PublishEveryInv ==
    ASSUME IInv, NEW a \in Addrs, NEW s \in Settings, PublishEvery(a, s)
    PROVE  IInv'
<1> DEFINE Change(rp) == reportEvery(rp, s.max)
<1>1. rep' = [r \in DOMAIN rep |->
           IF r \in ReportsOf({a}) THEN Change(rep[r]) ELSE rep[r]]
  BY DEF PublishEvery
<1>2. \A rp : Live(rp) => Kept(rp, Change(rp))
  BY EveryKeeps
<1> HIDE DEF Change
<1>3. DOMAIN rep' = DOMAIN rep /\ \A r \in DOMAIN rep : Kept(rep[r], rep'[r])
  BY <1>1, <1>2 DEF IInv, Tables, Kept
<1> QED BY <1>3, ReportsOnlyInv DEF PublishEvery

LEMMA PublishAllInv ==
    ASSUME IInv, PublishAll
    PROVE  IInv'
<1>1. DOMAIN rep' = DOMAIN rep /\ \A r \in DOMAIN rep : Kept(rep[r], rep'[r])
  BY ExecuteKeeps DEF PublishAll, IInv, Tables, Kept
<1> QED BY <1>1, ReportsOnlyInv DEF PublishAll

\* A configuration removes properties with their reports and no other report:
\* every property with a report is the argument of that report.
LEMMA UpdatePropertyInv ==
    ASSUME IInv, NEW C, UpdateProperty(C)
    PROVE  IInv'
<1> DEFINE gone == {a \in DOMAIN prop : "cloud" \in prop[a].perm /\ prop[a].pin \notin C}
           IsGone(r) == r \in ReportsOf(gone)
           now == [r \in DOMAIN rep |->
                     IF r \in ReportsOf(DOMAIN prop \ gone) THEN executeNow(rep[r]) ELSE rep[r]]
           rs == [r \in DOMAIN rep |-> IF IsGone(r) THEN deleteReport(rep[r]) ELSE now[r]]
<1>1. /\ prop' = Without(prop, gone) /\ RunReports(prop', rs)
      /\ Call /\ UNCHANGED <<numProperty, lag>>
  BY DEF UpdateProperty
<1>2. DOMAIN prop' = DOMAIN prop \ gone /\ \A a \in DOMAIN prop' : prop'[a] = prop[a]
  BY <1>1 DEF Without
<1>3. \A r \in DOMAIN rep : Live(rep[r])
  BY DEF IInv, Tables
<1>4. \A r \in DOMAIN rep : IF IsGone(r) THEN rs[r].delete ELSE Kept(rep[r], rs[r])
  <2>1. TAKE r \in DOMAIN rep
  <2>2. CASE IsGone(r)
    BY <1>3, <2>2 DEF deleteReport, Live, Report
  <2>3. CASE ~IsGone(r)
    <3>1. rs[r] = now[r]
      BY <2>3
    <3>2. now[r] \in {rep[r], executeNow(rep[r])}
      OBVIOUS
    <3> HIDE DEF rs, now
    <3>3. Kept(rep[r], now[r])
      BY <1>3, <3>2, ExecuteKeeps DEF Kept
    <3> QED BY <2>3, <3>1, <3>3
  <2> QED BY <2>2, <2>3
<1>5. DOMAIN rs = DOMAIN rep
  OBVIOUS
<1> HIDE DEF rs, now
<1>6. \A r \in DOMAIN rs : rs[r].delete \/ Live(rs[r])
  BY <1>4, <1>5 DEF Kept
<1>7. /\ DOMAIN rep' = {r \in DOMAIN rep : ~IsGone(r)}
      /\ \A r \in DOMAIN rep' : Kept(rep[r], rep'[r])
  <2>1. /\ DOMAIN rep' = {r \in DOMAIN rs : ~rs[r].delete}
        /\ \A r \in DOMAIN rep' : Kept(rs[r], rep'[r])
    BY <1>1, <1>6, RunReportsKeeps
  <2> QED BY <1>4, <1>5, <2>1 DEF Kept, Live
<1>8. CloudOK'
  <2>1. IsFiniteSet(DOMAIN prop') /\ \A a \in DOMAIN prop' : prop'[a].value \in Numbers
    BY <1>2, TablesFinite, FS_Subset DEF IInv
  <2>2. CloudOK
    BY DEF IInv
  <2> QED BY <1>1, <2>1, <2>2, PublishType DEF RunReports
<1>9. Room'
  <2>1. IsFiniteSet(DOMAIN rep)
    BY FS_Subset, PropertyAssumption DEF IInv, Tables
  <2>2. Cardinality(DOMAIN rep') <= Cardinality(DOMAIN rep)
    <3>1. DOMAIN rep' \subseteq DOMAIN rep
      BY <1>7
    <3> QED BY <2>1, <3>1, FS_Subset
  <2>3. Cardinality(DOMAIN rep') \in Nat /\ Cardinality(DOMAIN rep) \in Nat
    BY <1>7, <2>1, FS_Subset, FS_CardinalityType
  <2> QED BY <1>1, <2>2, <2>3 DEF IInv, Tables, Room
<1>10. ReportsOwned'
  <2>1. ReportsOwned
    BY DEF IInv, Tables
  <2>2. \A b \in gone : "read" \in prop[b].perm
    BY DEF IInv, Tables, Property, Permissions
  <2>3. \A b \in gone : prop[b].report \in DOMAIN rep /\ rep[prop[b].report].param = b
    BY <2>1, <2>2 DEF ReportsOwned
  <2>4. ASSUME NEW a \in DOMAIN prop', "read" \in prop'[a].perm
        PROVE  prop'[a].report \in DOMAIN rep' /\ rep'[prop'[a].report].param = a
    <3>1. a \in DOMAIN prop /\ a \notin gone /\ prop'[a] = prop[a]
      BY <1>2
    <3>2. prop[a].report \in DOMAIN rep /\ rep[prop[a].report].param = a
      BY <2>1, <2>4, <3>1 DEF ReportsOwned
    <3>3. ~IsGone(prop[a].report)
      BY <2>3, <3>1, <3>2 DEF ReportsOf
    <3> QED BY <1>7, <3>1, <3>2, <3>3 DEF Kept
  <2>5. ASSUME NEW r \in DOMAIN rep'
        PROVE  rep'[r].param \in DOMAIN prop' /\ prop'[rep'[r].param].report = r
    <3>1. r \in DOMAIN rep /\ ~IsGone(r) /\ rep'[r].param = rep[r].param
      BY <1>7 DEF Kept
    <3>2. rep[r].param \in DOMAIN prop /\ prop[rep[r].param].report = r
      BY <2>1, <3>1 DEF ReportsOwned
    <3> QED BY <1>2, <3>1, <3>2 DEF ReportsOf
  <2> QED BY <2>4, <2>5 DEF ReportsOwned
<1>11. Tables'
  <2>1. DOMAIN rep' \subseteq Reports /\ \A r \in DOMAIN rep' : Live(rep'[r])
    BY <1>7 DEF IInv, Tables, Kept
  <2>2. DOMAIN prop' \subseteq Addrs
    BY <1>2 DEF IInv, Tables
  <2>3. \A a \in DOMAIN prop' : prop'[a] \in Property /\ prop'[a].polled <= lag' + Timeout
    BY <1>1, <1>2 DEF IInv, Tables
  <2> QED BY <1>9, <1>10, <2>1, <2>2, <2>3 DEF Tables
<1> QED BY <1>1, <1>8, <1>11, CallClock DEF IInv

\* ERa.run() polls the numbers that are due and runs the reports. Before the
\* first tests of a report, Update left its clock alone.
LEMMA RunStep ==
    ASSUME IInv, Run
    PROVE  /\ DOMAIN rep' = DOMAIN rep
           /\ \A r \in DOMAIN rep : \E q :
                 /\ Kept(rep[r], q) /\ rep'[r] = Clear(Mark(q)) /\ Kept(q, rep'[r])
                 /\ q.elapsed = rep[r].elapsed /\ q.since = rep[r].since
                 /\ q.min = rep[r].min /\ q.forced = rep[r].forced
           /\ CloudOK'
<1> DEFINE due == {a \in DOMAIN prop : prop[a].polled >= Timeout}
           Update(r) == LET rp == rep[r] IN
             IF r \in ReportsOf(due)
             THEN updateReport(rp, prop[rp.param].value, FALSE) ELSE rp
           rs == [r \in DOMAIN rep |-> Update(r)]
<1>1. /\ prop' = [a \in DOMAIN prop |-> [prop[a] EXCEPT !.polled = @ % Timeout]]
      /\ RunReports(prop', rs)
  BY DEF Run
<1>2. ASSUME NEW r \in DOMAIN rep
      PROVE  /\ Kept(rep[r], rs[r])
             /\ rs[r].elapsed = rep[r].elapsed /\ rs[r].since = rep[r].since
             /\ rs[r].min = rep[r].min /\ rs[r].forced = rep[r].forced
  <2>1. Live(rep[r]) /\ rep[r].param \in DOMAIN prop
    BY DEF IInv, Tables, ReportsOwned
  <2>2. prop[rep[r].param].value \in Numbers
    BY <2>1, TablesFinite DEF IInv
  <2> DEFINE v == prop[rep[r].param].value
  <2>3. rs[r] \in {rep[r], updateReport(rep[r], v, FALSE)}
    OBVIOUS
  <2> HIDE DEF rs, v
  <2>4. Kept(rep[r], updateReport(rep[r], v, FALSE))
    BY <2>1, <2>2, UpdateKeeps DEF v
  <2>5. LET q == updateReport(rep[r], v, FALSE)
        IN  /\ q.elapsed = rep[r].elapsed /\ q.since = rep[r].since
            /\ q.min = rep[r].min /\ q.forced = rep[r].forced
    BY <2>1 DEF updateReport, Live, Report
  <2> QED BY <2>1, <2>3, <2>4, <2>5 DEF Kept
<1>3. DOMAIN rs = DOMAIN rep
  OBVIOUS
<1> HIDE DEF rs
<1>4. /\ DOMAIN rep' = {r \in DOMAIN rs : ~rs[r].delete}
      /\ \A r \in DOMAIN rep' : rep'[r] = Clear(Mark(rs[r])) /\ Kept(rs[r], rep'[r])
  <2>1. \A r \in DOMAIN rs : rs[r].delete \/ Live(rs[r])
    BY <1>2, <1>3 DEF Kept
  <2> QED BY <1>1, <2>1, RunReportsKeeps
<1>5. DOMAIN rep' = DOMAIN rep
  BY <1>2, <1>3, <1>4 DEF Kept, Live
<1>6. CloudOK'
  <2>1. IsFiniteSet(DOMAIN prop) /\ \A a \in DOMAIN prop : prop[a].value \in Numbers
    BY TablesFinite DEF IInv
  <2>2. DOMAIN prop' = DOMAIN prop /\ \A a \in DOMAIN prop : prop'[a].value = prop[a].value
    BY <1>1 DEF IInv, Tables, Property
  <2>3. IsFiniteSet(DOMAIN prop') /\ \A a \in DOMAIN prop' : prop'[a].value \in Numbers
    BY <2>1, <2>2
  <2>4. CloudOK
    BY DEF IInv
  <2> QED BY <1>1, <2>3, <2>4, PublishType DEF RunReports
<1> QED BY <1>2, <1>4, <1>5, <1>6

LEMMA RunInv ==
    ASSUME IInv, Run
    PROVE  IInv'
<1>1. DOMAIN rep' = DOMAIN rep /\ CloudOK' /\ \A r \in DOMAIN rep : Kept(rep[r], rep'[r])
  BY RunStep DEF Kept
<1>2. lag' = 0 /\ UNCHANGED <<numProperty, ops>>
  BY DEF Run
<1>3. prop' = [a \in DOMAIN prop |-> [prop[a] EXCEPT !.polled = @ % Timeout]]
  BY DEF Run
<1>4. ClockOK' /\ lag' \in 0..Lag
  BY <1>2, Clock DEF IInv, ClockOK
<1>5. \A a \in DOMAIN prop :
         /\ prop'[a] \in Property /\ prop'[a].polled <= lag' + Timeout
         /\ prop'[a].perm = prop[a].perm /\ prop'[a].report = prop[a].report
  <2>1. TAKE a \in DOMAIN prop
  <2>2. prop[a] \in Property /\ prop[a].polled \in 0..(Lag + Timeout)
    BY DEF IInv, Tables, Property
  <2> DEFINE n == prop[a].polled % Timeout
  <2>3. n \in 0..(Lag + Timeout) /\ n <= 0 + Timeout
    BY <2>2, Clock
  <2>4. prop'[a] = [prop[a] EXCEPT !.polled = n]
    BY <1>3
  <2> HIDE DEF n
  <2> QED BY <1>2, <2>2, <2>3, <2>4 DEF Property
<1>6. Tables'
  BY <1>1, <1>2, <1>3, <1>4, <1>5, KeepTables DEF IInv
<1> QED BY <1>1, <1>4, <1>6 DEF IInv

LEMMA TickInv ==
    ASSUME IInv, Tick
    PROVE  IInv'
<1>1. lag < Lag /\ lag' = lag + 1 /\ UNCHANGED <<numProperty, cloud, ops, lost>>
  BY DEF Tick
<1>2. ClockOK' /\ lag' \in 0..Lag
  BY <1>1, Clock DEF IInv, ClockOK
<1>3. DOMAIN rep' = DOMAIN rep /\ \A r \in DOMAIN rep : Kept(rep[r], rep'[r])
  BY LaterKeeps DEF Tick, IInv, Tables
<1>4. prop' = [a \in DOMAIN prop |-> [prop[a] EXCEPT !.polled = @ + 1]]
  BY DEF Tick
<1>5. \A a \in DOMAIN prop :
         /\ prop'[a] \in Property /\ prop'[a].polled <= lag' + Timeout
         /\ prop'[a].perm = prop[a].perm /\ prop'[a].report = prop[a].report
  <2>1. TAKE a \in DOMAIN prop
  <2>2. /\ prop[a] \in Property /\ prop[a].polled <= lag + Timeout
        /\ prop[a].polled \in 0..(Lag + Timeout)
    BY DEF IInv, Tables, Property
  <2> DEFINE n == prop[a].polled + 1
  <2>3. n \in 0..(Lag + Timeout) /\ n <= lag' + Timeout
    BY <1>1, <1>2, <2>2, Clock DEF IInv, ClockOK
  <2>4. prop'[a] = [prop[a] EXCEPT !.polled = n]
    BY <1>4
  <2> HIDE DEF n
  <2> QED BY <2>2, <2>3, <2>4 DEF Property
<1>6. Tables'
  BY <1>1, <1>2, <1>3, <1>4, <1>5, KeepTables DEF IInv
<1> QED BY <1>1, <1>2, <1>6 DEF IInv, CloudOK

----------------------------------------------------------------------------
(* The theorems.                                                           *)

LEMMA InitInv == Init => IInv
<1> SUFFICES ASSUME Init PROVE IInv
  OBVIOUS
<1>1. ClockOK /\ CloudOK
  BY Clock, PropertyAssumption DEF Init, ClockOK, CloudOK, Numbers
<1>2. DOMAIN prop = {} /\ DOMAIN rep = {}
  BY DEF Init
<1>3. Room
  BY <1>2, FS_EmptySet, PropertyAssumption DEF Init, Room
<1> QED BY <1>1, <1>2, <1>3 DEF IInv, Tables, ReportsOwned

LEMMA NextInv == IInv /\ [Next]_vars => IInv'
<1> SUFFICES ASSUME IInv, [Next]_vars PROVE IInv'
  OBVIOUS
<1>1. CASE Sketch
  BY <1>1, AddPropertyVirtualInv, AssignInv, VirtualWriteInv, PublishOnChangeInv, PublishEveryInv
     DEF Sketch
<1>2. CASE Commands
  BY <1>2, HandlerInv, UpdatePropertyInv, PublishAllInv DEF Commands
<1>3. CASE Run
  BY <1>3, RunInv
<1>4. CASE Tick
  BY <1>4, TickInv
<1>5. CASE UNCHANGED vars
  BY <1>5 DEF vars, IInv, ClockOK, CloudOK, Tables, Room, ReportsOwned
<1> QED BY <1>1, <1>2, <1>3, <1>4, <1>5 DEF Next

LEMMA SpecInv == Spec => []IInv
BY InitInv, NextInv, PTL DEF Spec

\* Every field of every property and report keeps its type whatever the width
\* of the clock and however often the lists change: elapsed stays below M and
\* the time since a poll within Lag of the timeout.
THEOREM PropertyTypeOK == Spec => []TypeOK
<1>1. IInv => TypeOK
  BY DEF IInv, ClockOK, CloudOK, Tables, Room, Live, TypeOK
<1> QED BY <1>1, SpecInv, PTL

\* Every property that is read has a report of its own, and the callback of
\* every report in the list has the live property that holds it as argument,
\* for every history of additions and configurations.
THEOREM PropertyReportsOwned == Spec => []ReportsOwned
<1>1. IInv => ReportsOwned
  BY DEF IInv, Tables
<1> QED BY <1>1, SpecInv, PTL

\* run() never decides to publish before minInterval has passed, unless
\* prevMillis was put back, for every width of the clock and all settings.
THEOREM PropertySpaced == Spec => Spaced
<1> DEFINE Early == ops' = ops => \A r \in DOMAIN rep \cap DOMAIN rep' :
                rep'[r].since < rep[r].since => rep[r].since >= rep[r].min \/ rep[r].forced
<1>1. ASSUME IInv, [Next]_vars PROVE [Early]_vars
  <2>1. CASE Run
    <3>1. ASSUME NEW r \in DOMAIN rep, rep'[r].since < rep[r].since, ~rep[r].forced
          PROVE  rep[r].since >= rep[r].min
      <4>1. PICK q : /\ Kept(rep[r], q) /\ rep'[r] = Clear(Mark(q))
                     /\ q.elapsed = rep[r].elapsed /\ q.since = rep[r].since
                     /\ q.min = rep[r].min /\ q.forced = rep[r].forced
        BY <1>1, <2>1, RunStep
      <4>2. Live(q)
        BY <4>1 DEF Kept
      <4>3. Due(q)
        <5>1. SUFFICES ASSUME ~Due(q) PROVE FALSE
          OBVIOUS
        <5>2. rep'[r].since = q.since
          BY <4>1, <4>2, <5>1 DEF Mark, Clear, Live, Report
        <5>3. q.since \in 0..M
          BY <4>2, FieldsType DEF Live
        <5> QED BY <3>1, <4>1, <5>2, <5>3, Clock
      <4>4. q.elapsed >= q.min /\ q.elapsed <= q.since
        BY <3>1, <4>1, <4>2, <4>3 DEF Due, Live, Timed
      <4> QED BY <4>1, <4>2, <4>4, FieldsType, Clock DEF Live
    <3> QED BY <3>1
  <2>2. CASE Tick
    <3>1. ASSUME NEW r \in DOMAIN rep PROVE ~(rep'[r].since < rep[r].since)
      <4>1. Live(rep[r]) /\ rep'[r] = Later(rep[r])
        BY <1>1, <2>2, <3>1 DEF IInv, Tables, Tick
      <4>2. rep[r].since \in 0..M
        BY <4>1, FieldsType DEF Live
      <4>3. rep'[r].since = IF rep[r].since = M THEN M ELSE rep[r].since + 1
        BY <4>1 DEF Later, Live, Report
      <4> QED BY <4>2, <4>3, Clock
    <3> QED BY <3>1
  <2>3. ASSUME Sketch \/ Commands PROVE ops' = ops + 1
    BY <2>3 DEF Sketch, Commands, AddPropertyVirtual, Assign, VirtualWrite, PublishOnChange,
                PublishEvery, Handler, UpdateProperty, PublishAll, Call
  <2>4. ops \in Nat
    BY <1>1 DEF IInv, ClockOK
  <2>5. CASE Sketch \/ Commands
    BY <2>3, <2>4, <2>5
  <2>6. CASE UNCHANGED vars
    BY <2>6
  <2> QED BY <1>1, <2>1, <2>2, <2>5, <2>6 DEF Next
<1>2. Spec => [][Early]_vars
  BY <1>1, SpecInv, PTL DEF Spec
<1> QED BY <1>2 DEF Spaced
=============================================================================
