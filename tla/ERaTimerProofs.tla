--------------------------- MODULE ERaTimerProofs ---------------------------
(***************************************************************************)
(* Proofs about ERaTimer for every number of timers, every width of        *)
(* unsigned long and every choice of intervals and limits.                 *)
(*                                                                         *)
(* The argument: a mark is set by the first loop only and cleared when the *)
(* second loop passes the timer, and the list can only grow behind the     *)
(* loop; the count of a limited timer follows its callbacks, one behind    *)
(* while the callback runs, and reaches the limit only together with the   *)
(* DELETE flag, which nothing takes back before the timer is freed; a      *)
(* limited timer is armed without an offset, so that the time since then,  *)
(* modulo the width of unsigned long, is what its delay has left behind.   *)
(***************************************************************************)
EXTENDS ERaTimer, SequenceTheorems, TLAPS

InCallback(t) == phase = "callback" /\ list[it] = t

FreeInv ==
    /\ \A t \in Ids : t \notin Listed => tm[t] = NoTimer
    /\ phase = "callback" => it <= Len(list)

CountInv ==
    \A t \in Listed : tm[t].limit > 0 =>
        /\ fired[t] = IF InCallback(t) THEN tm[t].count + 1 ELSE tm[t].count
        /\ tm[t].count <= tm[t].limit
        /\ ~tm[t].delete \/ InCallback(t) => tm[t].count < tm[t].limit

GoneInv == \A t \in gone : t \in Listed => tm[t].delete

IInv == TypeOK /\ NoStaleMark /\ FreeInv /\ CountInv /\ GoneInv

-----------------------------------------------------------------------------
(* The list.                                                               *)

LEMMA RemoveAtLemma ==
  ASSUME NEW S, NEW s \in Seq(S), NEW i \in 1..Len(s)
  PROVE  /\ RemoveAt(s, i) \in Seq(S)
         /\ Len(RemoveAt(s, i)) = Len(s) - 1
         /\ \A j \in 1..(Len(s) - 1) :
               RemoveAt(s, i)[j] = IF j < i THEN s[j] ELSE s[j + 1]
<1> DEFINE a == SubSeq(s, 1, i - 1)
           b == SubSeq(s, i + 1, Len(s))
<1>1. a \in Seq(S) /\ Len(a) = i - 1 /\ \A j \in 1..(i - 1) : a[j] = s[j]
  OBVIOUS
<1>2. /\ b \in Seq(S) /\ Len(b) = Len(s) - i
      /\ \A j \in 1..(Len(s) - i) : b[j] = s[i + j]
  OBVIOUS
<1>3. RemoveAt(s, i) = a \o b  BY DEF RemoveAt
<1> HIDE DEF a, b
<1>4. /\ a \o b \in Seq(S) /\ Len(a \o b) = Len(s) - 1
      /\ \A j \in 1..(Len(s) - 1) :
            (a \o b)[j] = IF j <= Len(a) THEN a[j] ELSE b[j - Len(a)]
  <2>1. /\ a \o b \in Seq(S) /\ Len(a \o b) = Len(a) + Len(b)
        /\ \A j \in 1..(Len(a) + Len(b)) :
              (a \o b)[j] = IF j <= Len(a) THEN a[j] ELSE b[j - Len(a)]
    BY <1>1, <1>2, ConcatProperties, Zenon
  <2>2. Len(a) + Len(b) = Len(s) - 1  BY <1>1, <1>2
  <2>. QED  BY <2>1, <2>2
<1>5. ASSUME NEW j \in 1..(Len(s) - 1)
      PROVE  (a \o b)[j] = IF j < i THEN s[j] ELSE s[j + 1]
  <2>1. CASE j < i
    <3>1. j \in 1..(i - 1) /\ j <= i - 1  BY <2>1
    <3>2. a[j] = s[j]  BY <1>1, <3>1
    <3>3. j <= Len(a)  BY <1>1, <3>1
    <3>4. (a \o b)[j] = a[j]  BY <1>4, <3>3
    <3>. QED  BY <2>1, <3>2, <3>4
  <2>2. CASE j >= i
    <3>1. j - (i - 1) \in 1..(Len(s) - i) /\ i + (j - (i - 1)) = j + 1
      BY <2>2
    <3>2. b[j - (i - 1)] = s[j + 1]  BY <1>2, <3>1
    <3>3. ~(j <= Len(a)) /\ Len(a) = i - 1  BY <1>1, <2>2
    <3>4. (a \o b)[j] = b[j - (i - 1)]  BY <1>4, <3>3
    <3>5. ~(j < i)  BY <2>2
    <3>6. (a \o b)[j] = s[j + 1]  BY ONLY <3>2, <3>4, Zenon
    <3>. QED  BY ONLY <3>5, <3>6, Zenon
  <2>3. j < i \/ j >= i  OBVIOUS
  <2>. QED  BY ONLY <2>1, <2>2, <2>3, Zenon
<1>. QED  BY <1>3, <1>4, <1>5

\* Freeing the timer at position i takes it, and nothing else, off the list.
LEMMA ReapLemma ==
  ASSUME list \in Seq(Ids),
         \A j, k \in 1..Len(list) : list[j] = list[k] => j = k,
         NEW i \in 1..Len(list), list' = RemoveAt(list, i)
  PROVE  /\ list' \in Seq(Ids) /\ Len(list') = Len(list) - 1
         /\ \A j, k \in 1..Len(list') : list'[j] = list'[k] => j = k
         /\ Listed' = Listed \ {list[i]}
<1>1. /\ list' \in Seq(Ids) /\ Len(list') = Len(list) - 1
      /\ \A j \in 1..(Len(list) - 1) :
            list'[j] = IF j < i THEN list[j] ELSE list[j + 1]
  BY RemoveAtLemma, Zenon
<1>2. \A j, k \in 1..Len(list') : list'[j] = list'[k] => j = k
  BY <1>1
<1>3. \A j \in 1..Len(list') : list'[j] \in Listed \ {list[i]}
  BY <1>1 DEF Listed
<1>4. ASSUME NEW j \in 1..Len(list), j # i
      PROVE  \E k \in 1..Len(list') : list'[k] = list[j]
  <2>1. CASE j < i  BY <1>1, <2>1
  <2>2. CASE j > i
    <3>1. j - 1 \in 1..Len(list') /\ list'[j - 1] = list[j]  BY <1>1, <2>2
    <3>. QED  BY <3>1
  <2>3. j < i \/ j > i  BY <1>4
  <2>. QED  BY <2>1, <2>2, <2>3
<1>5. Listed' = Listed \ {list[i]}
  <2>1. Listed' \subseteq Listed \ {list[i]}  BY <1>3 DEF Listed
  <2>2. ASSUME NEW x \in Listed, x # list[i]  PROVE x \in Listed'
    <3>1. PICK j \in 1..Len(list) : list[j] = x  BY <2>2 DEF Listed
    <3>2. PICK k \in 1..Len(list') : list'[k] = x  BY <1>4, <2>2, <3>1
    <3>. QED  BY <3>2 DEF Listed
  <2>. QED  BY <2>1, <2>2
<1>. QED  BY <1>1, <1>2, <1>5

\* A timer set up goes to the end.
LEMMA AppendLemma ==
  ASSUME list \in Seq(Ids), NEW t \in Ids, t \notin Listed,
         \A j, k \in 1..Len(list) : list[j] = list[k] => j = k,
         list' = Append(list, t)
  PROVE  /\ list' \in Seq(Ids) /\ Len(list') = Len(list) + 1
         /\ list'[Len(list) + 1] = t
         /\ \A j \in 1..Len(list) : list'[j] = list[j]
         /\ \A j, k \in 1..Len(list') : list'[j] = list'[k] => j = k
         /\ Listed' = Listed \cup {t}
<1>1. /\ list' \in Seq(Ids) /\ Len(list') = Len(list) + 1
      /\ list'[Len(list) + 1] = t
      /\ \A j \in 1..Len(list) : list'[j] = list[j]
  OBVIOUS
<1>2. \A j, k \in 1..Len(list') : list'[j] = list'[k] => j = k
  BY <1>1 DEF Listed
<1>3. Listed' = Listed \cup {t}
  BY <1>1 DEF Listed
<1>. QED  BY <1>1, <1>2, <1>3

\* Unsigned arithmetic stays in range.
LEMMA ModLemma == \A x \in Int : x % M \in 0..(M - 1)
BY ModAssumption

-----------------------------------------------------------------------------
(* One step.                                                               *)

\* An operation that leaves the list, the loop and the marks and counts of
\* the timers alone, and takes no DELETE flag back.
LEMMA FieldStep ==
  ASSUME IInv, UNCHANGED <<list, numTimer, loop, fired>>,
         now' \in 0..(M - 1), lag' \in 0..Lag, wait' \in [Ids -> 0..M],
         tm' \in [Ids -> Timers],
         \A t \in Ids : /\ tm'[t].called = tm[t].called
                        /\ tm'[t].limit = tm[t].limit
                        /\ tm'[t].count = tm[t].count
                        /\ tm[t].delete => tm'[t].delete
                        /\ t \notin Listed => tm'[t] = tm[t],
         gone' \subseteq Ids, \A t \in gone' : t \in gone \/ tm'[t].delete
  PROVE  IInv'
<1>. USE DEF IInv, loop
<1>0. Listed' = Listed /\ Listed \subseteq Ids  BY DEF Listed, TypeOK
<1>1. TypeOK'  BY DEF TypeOK
<1>2. NoStaleMark'
  <2>1. \A i \in 1..Len(list) : list[i] \in Ids  BY DEF TypeOK
  <2>. QED  BY <2>1 DEF NoStaleMark
<1>3. FreeInv'  BY <1>0 DEF FreeInv
<1>4. CountInv'
  <2>1. \A t \in Ids : InCallback(t)' = InCallback(t)  BY DEF InCallback
  <2>. QED  BY <1>0, <2>1 DEF CountInv
<1>5. GoneInv'
  <2>1. gone \subseteq Ids  BY DEF TypeOK
  <2>. QED  BY <1>0, <2>1 DEF GoneInv
<1>. QED  BY <1>1, <1>2, <1>3, <1>4, <1>5

LEMMA DelayLemma == \A i \in Intervals : Delay(i) \in 1..M
BY IntervalsAssumption, ModAssumption DEF Delay

LEMMA OffsetLemma ==
  \A i \in Intervals : \A l \in Nat : Offsets(Delay(i), l) \subseteq Int
BY DelayLemma, ModAssumption DEF Offsets

LEMMA TickStep == IInv /\ Tick => IInv'
<1>. SUFFICES ASSUME IInv, Tick PROVE IInv'  OBVIOUS
<1>. USE DEF IInv
<1>1. now' \in 0..(M - 1) /\ lag' \in 0..Lag /\ wait' \in [Ids -> 0..M]
  <2>1. now' \in 0..(M - 1)
    <3>1. now + 1 \in Int  BY ModAssumption DEF TypeOK
    <3>. QED  BY <3>1, ModLemma DEF Tick
  <2>2. lag' \in 0..Lag  BY LagAssumption DEF Tick, TypeOK
  <2>3. wait' \in [Ids -> 0..M]
    <3>1. \A t \in Ids : (IF wait[t] = 0 THEN 0 ELSE wait[t] - 1) \in 0..M
      BY ModAssumption DEF TypeOK
    <3>. QED  BY <3>1 DEF Tick
  <2>. QED  BY <2>1, <2>2, <2>3
<1>. QED  BY <1>1, FieldStep DEF Tick, TypeOK

\* The operations change one timer in the list.
LEMMA UpdateStep ==
  ASSUME IInv, NEW t \in Ids, t \in Listed,
         NEW r \in Timers, tm' = [tm EXCEPT ![t] = r],
         r.called = tm[t].called, r.limit = tm[t].limit, r.count = tm[t].count,
         tm[t].delete => r.delete,
         wait' \in [Ids -> 0..M],
         \/ gone' = gone
         \/ gone' = gone \cup {t} /\ r.delete,
         UNCHANGED <<now, lag, list, numTimer, loop, fired>>
  PROVE  IInv'
<1>. USE DEF IInv
<1>0. /\ now \in 0..(M - 1) /\ lag \in 0..Lag /\ tm \in [Ids -> Timers]
      /\ gone \subseteq Ids
  BY DEF TypeOK
<1>1. /\ tm' \in [Ids -> Timers] /\ tm'[t] = r
      /\ \A u \in Ids : u # t => tm'[u] = tm[u]
  BY <1>0
<1>2. /\ tm' \in [Ids -> Timers]
      /\ \A u \in Ids : /\ tm'[u].called = tm[u].called
                        /\ tm'[u].limit = tm[u].limit
                        /\ tm'[u].count = tm[u].count
                        /\ tm[u].delete => tm'[u].delete
                        /\ u \notin Listed => tm'[u] = tm[u]
  BY <1>1
<1>3. gone' \subseteq Ids /\ \A u \in gone' : u \in gone \/ tm'[u].delete
  BY <1>0, <1>1
<1>. QED  BY <1>0, <1>2, <1>3, FieldStep

LEMMA FieldsStep ==
  ASSUME IInv, NEW t \in Ids,
         \/ \E i \in Intervals : \E o \in Offsets(Delay(i), tm[t].limit) :
               ChangeInterval(t, i, o)
         \/ RestartTimer(t) \/ ExecuteNow(t)
         \/ DeleteTimer(t) \/ Enable(t) \/ Disable(t)
  PROVE  IInv'
<1>. USE DEF clock, history
<1>0. /\ now \in 0..(M - 1) /\ wait \in [Ids -> 0..M] /\ tm[t] \in Timers
      /\ tm \in [Ids -> Timers] /\ M \in Nat /\ M > 0
      /\ tm[t].delay \in 1..M /\ tm[t].delay \in 0..M /\ tm[t].limit \in Nat
  BY ModAssumption DEF IInv, TypeOK, Timers
<1>1. ASSUME NEW i \in Intervals, NEW o \in Offsets(Delay(i), tm[t].limit),
             ChangeInterval(t, i, o)
      PROVE IInv'
  <2>1. Delay(i) \in 1..M /\ Delay(i) \in 0..M /\ (now + o) % M \in 0..(M - 1)
    <3>1. now + o \in Int  BY <1>0, OffsetLemma
    <3>2. Delay(i) \in 1..M /\ Delay(i) \in 0..M  BY <1>0, DelayLemma
    <3>. QED  BY <3>1, <3>2, ModLemma
  <2> DEFINE r == [tm[t] EXCEPT !.prevMillis = (now + o) % M, !.delay = Delay(i)]
  <2>2. /\ r \in Timers /\ r.called = tm[t].called /\ r.limit = tm[t].limit
        /\ r.count = tm[t].count /\ r.delete = tm[t].delete
    BY <1>0, <2>1 DEF Timers
  <2>3. tm' = [tm EXCEPT ![t] = r]  BY <1>0, <1>1 DEF ChangeInterval
  <2> HIDE DEF r
  <2>4. wait' \in [Ids -> 0..M]  BY <1>0, <1>1, <2>1 DEF ChangeInterval
  <2>5. t \in Listed /\ UNCHANGED <<now, lag, list, numTimer, loop, fired, gone>>
    BY <1>1 DEF ChangeInterval
  <2>. QED  BY <2>2, <2>3, <2>4, <2>5, UpdateStep
<1>2. CASE RestartTimer(t)
  <2> DEFINE r == [tm[t] EXCEPT !.prevMillis = now]
  <2>2. /\ r \in Timers /\ r.called = tm[t].called /\ r.limit = tm[t].limit
        /\ r.count = tm[t].count /\ r.delete = tm[t].delete
    BY <1>0 DEF Timers
  <2>3. tm' = [tm EXCEPT ![t] = r]  BY <1>0, <1>2 DEF RestartTimer
  <2> HIDE DEF r
  <2>4. wait' \in [Ids -> 0..M]  BY <1>0, <1>2 DEF RestartTimer
  <2>5. t \in Listed /\ UNCHANGED <<now, lag, list, numTimer, loop, fired, gone>>
    BY <1>2 DEF RestartTimer
  <2>. QED  BY <2>2, <2>3, <2>4, <2>5, UpdateStep
<1>3. CASE ExecuteNow(t)
  <2>1. (now - tm[t].delay) % M \in 0..(M - 1)
    <3>1. now - tm[t].delay \in Int  BY <1>0
    <3>. QED  BY <3>1, ModLemma
  <2> DEFINE r == [tm[t] EXCEPT !.prevMillis = (now - tm[t].delay) % M]
  <2>2. /\ r \in Timers /\ r.called = tm[t].called /\ r.limit = tm[t].limit
        /\ r.count = tm[t].count /\ r.delete = tm[t].delete
    BY <1>0, <2>1 DEF Timers
  <2>3. tm' = [tm EXCEPT ![t] = r]  BY <1>0, <1>3 DEF ExecuteNow
  <2> HIDE DEF r
  <2>4. wait' \in [Ids -> 0..M]  BY <1>0, <1>3 DEF ExecuteNow
  <2>5. t \in Listed /\ UNCHANGED <<now, lag, list, numTimer, loop, fired, gone>>
    BY <1>3 DEF ExecuteNow
  <2>. QED  BY <2>2, <2>3, <2>4, <2>5, UpdateStep
<1>4. CASE DeleteTimer(t)
  <2> DEFINE r == Deleted(tm[t])
  <2>2. /\ r \in Timers /\ r.called = tm[t].called /\ r.limit = tm[t].limit
        /\ r.count = tm[t].count /\ r.delete
    BY <1>0 DEF Timers, Deleted
  <2>3. tm' = [tm EXCEPT ![t] = r]  BY <1>4 DEF DeleteTimer
  <2> HIDE DEF r
  <2>4. /\ t \in Listed /\ gone' = gone \cup {t} /\ wait' \in [Ids -> 0..M]
        /\ UNCHANGED <<now, lag, list, numTimer, loop, fired>>
    BY <1>0, <1>4 DEF DeleteTimer
  <2>. QED  BY <2>2, <2>3, <2>4, UpdateStep
<1>5. ASSUME NEW b \in BOOLEAN, tm' = [tm EXCEPT ![t].enable = b],
             t \in Listed, UNCHANGED <<clock, list, numTimer, loop, history>>
      PROVE  IInv'
  <2> DEFINE r == [tm[t] EXCEPT !.enable = b]
  <2>2. /\ r \in Timers /\ r.called = tm[t].called /\ r.limit = tm[t].limit
        /\ r.count = tm[t].count /\ r.delete = tm[t].delete
    BY <1>0 DEF Timers
  <2>3. tm' = [tm EXCEPT ![t] = r]  BY <1>0, <1>5
  <2> HIDE DEF r
  <2>4. /\ wait' \in [Ids -> 0..M]
        /\ UNCHANGED <<now, lag, list, numTimer, loop, fired, gone>>
    BY <1>0, <1>5
  <2>. QED  BY <1>5, <2>2, <2>3, <2>4, UpdateStep
<1>6. CASE Enable(t)  BY <1>5, <1>6 DEF Enable
<1>7. CASE Disable(t)  BY <1>5, <1>7 DEF Disable
<1>. QED  BY <1>1, <1>2, <1>3, <1>4, <1>6, <1>7

LEMMA SetAllStep ==
  ASSUME IInv, NEW b \in BOOLEAN, SetAll(b)  PROVE IInv'
<1>. USE DEF IInv, clock, history
<1>1. tm \in [Ids -> Timers]  BY DEF TypeOK
<1>2. /\ tm' \in [Ids -> Timers]
      /\ \A u \in Ids : /\ tm'[u].called = tm[u].called
                        /\ tm'[u].limit = tm[u].limit
                        /\ tm'[u].count = tm[u].count
                        /\ tm'[u].delete = tm[u].delete
                        /\ u \notin Listed => tm'[u] = tm[u]
  BY <1>1 DEF SetAll, Timers
<1>. QED  BY <1>2, FieldStep DEF SetAll, TypeOK

LEMMA SetupStep ==
  ASSUME IInv, NEW t \in Ids, NEW i \in Intervals, NEW l \in Limits,
         NEW o \in Offsets(Delay(i), l), Setup(t, i, l, o)
  PROVE  IInv'
<1>. USE DEF IInv
<1>0. /\ tm \in [Ids -> Timers] /\ wait \in [Ids -> 0..M] /\ fired \in [Ids -> Nat]
      /\ list \in Seq(Ids) /\ now \in 0..(M - 1) /\ M \in Nat /\ Len(list) \in Nat
      /\ gone \subseteq Ids
  BY ModAssumption DEF TypeOK
<1>1. /\ list' \in Seq(Ids) /\ Len(list') = Len(list) + 1
      /\ list'[Len(list) + 1] = t
      /\ \A j \in 1..Len(list) : list'[j] = list[j]
      /\ \A j, k \in 1..Len(list') : list'[j] = list'[k] => j = k
      /\ Listed' = Listed \cup {t}
  BY AppendLemma DEF TypeOK, Setup
<1>2. /\ Delay(i) \in 1..M /\ Delay(i) \in 0..M
      /\ (now + o) % M \in 0..(M - 1) /\ l \in Nat
  <2>1. l \in Nat  BY LimitsAssumption
  <2>2. o \in Int  BY <2>1, OffsetLemma
  <2>3. (now + o) % M \in 0..(M - 1)
    <3>1. now + o \in Int  BY <1>0, <2>2
    <3>. QED  BY <3>1, ModLemma
  <2>4. Delay(i) \in 1..M /\ Delay(i) \in 0..M  BY <1>0, DelayLemma
  <2>. QED  BY <2>1, <2>3, <2>4
<1>3. /\ tm' \in [Ids -> Timers]
      /\ \A u \in Ids : u # t => tm'[u] = tm[u]
      /\ ~tm'[t].called /\ ~tm'[t].delete /\ tm'[t].count = 0 /\ tm'[t].limit = l
  BY <1>0, <1>2 DEF Setup, NoTimer, Timers
<1>4. TypeOK'
  <2>1. wait' \in [Ids -> 0..M] /\ fired' \in [Ids -> Nat] /\ gone' \subseteq Ids
    BY <1>0, <1>2 DEF Setup
  <2>2. numTimer' = Len(list') /\ numTimer' <= MAX_TIMERS
    BY <1>0, <1>1, MaxAssumption DEF Setup, TypeOK
  <2>. QED  BY <1>1, <1>3, <2>1, <2>2 DEF Setup, TypeOK, clock, loop
<1>5. NoStaleMark'
  <2>1. \A j \in 1..Len(list') : list'[j] \in Ids  BY <1>1
  <2>2. CASE phase = "idle"
    BY <1>3, <2>2 DEF NoStaleMark, Setup, loop
  <2>3. CASE phase = "callback"
    <3>1. it <= Len(list) /\ it \in Nat  BY <2>3 DEF FreeInv, TypeOK
    <3>2. ASSUME NEW j \in 1..Len(list'), j <= it  PROVE ~tm'[list'[j]].called
      <4>0. j \in 1..Len(list)  BY <1>0, <1>1, <3>1, <3>2
      <4>a. list'[j] = list[j]  BY ONLY <1>1, <4>0
      <4>b. list[j] \in Ids  BY ONLY <1>0, <4>0
      <4>1. j \in 1..Len(list) /\ list'[j] = list[j] /\ list[j] \in Ids
        BY <4>0, <4>a, <4>b
      <4>2. list[j] # t  BY <4>1 DEF Setup, Listed
      <4>. QED  BY <1>3, <2>3, <3>2, <4>1, <4>2 DEF NoStaleMark
    <3>. QED  BY <2>3, <3>2 DEF NoStaleMark, Setup, loop
  <2>. QED  BY <2>2, <2>3 DEF Setup, CanCall
<1>6. FreeInv'
  <2>1. \A u \in Ids : u \notin Listed' => tm'[u] = NoTimer
    BY <1>1, <1>3 DEF FreeInv
  <2>2. phase' = "callback" => it' <= Len(list')
    BY <1>0, <1>1 DEF FreeInv, Setup, loop, TypeOK
  <2>. QED  BY <2>1, <2>2 DEF FreeInv
<1>7. CountInv'
  <2>1. ASSUME NEW u \in Listed  PROVE InCallback(u)' <=> InCallback(u)
    BY <1>0, <1>1 DEF InCallback, Setup, loop, FreeInv, TypeOK
  <2>2. ~InCallback(t)'
    BY <1>0, <1>1 DEF InCallback, Setup, loop, FreeInv, TypeOK, Listed
  <2>3. t \notin Listed /\ fired'[t] = 0 /\ \A u \in Ids : u # t => fired'[u] = fired[u]
    BY <1>0 DEF Setup
  <2>4. Listed \subseteq Ids  BY <1>0 DEF Listed
  <2>5. ASSUME NEW u \in Listed', tm'[u].limit > 0
        PROVE  /\ fired'[u] = IF InCallback(u)' THEN tm'[u].count + 1 ELSE tm'[u].count
               /\ tm'[u].count <= tm'[u].limit
               /\ ~tm'[u].delete \/ InCallback(u)' => tm'[u].count < tm'[u].limit
    <3>1. CASE u = t  BY <1>2, <1>3, <2>2, <2>3, <2>5, <3>1
    <3>2. CASE u # t
      <4>1. u \in Listed /\ tm'[u] = tm[u] /\ fired'[u] = fired[u]
        BY <1>1, <1>3, <2>3, <2>4, <3>2
      <4>. QED  BY <2>1, <2>5, <4>1 DEF CountInv
    <3>. QED  BY <3>1, <3>2
  <2>. QED  BY <2>5 DEF CountInv
<1>8. GoneInv'
  BY <1>0, <1>1, <1>3 DEF GoneInv, Setup
<1>. QED  BY <1>4, <1>5, <1>6, <1>7, <1>8

\* The first loop changes prevMillis and sets marks.
LEMMA MarkLemma ==
  ASSUME TypeOK, NEW t \in Ids
  PROVE  /\ Marked(t) \in Timers
         /\ Marked(t).limit = tm[t].limit /\ Marked(t).count = tm[t].count
         /\ Marked(t).delete = tm[t].delete
<1>1. tm[t] \in Timers /\ M \in Nat \ {0} /\ now \in Int  BY ModAssumption DEF TypeOK
<1>2. Elapsed(t) \in 0..(M - 1)
  <2>1. now - tm[t].prevMillis \in Int  BY <1>1 DEF Timers
  <2>. QED  BY <2>1, ModLemma DEF Elapsed
<1> DEFINE p == (tm[t].prevMillis + tm[t].delay * (Elapsed(t) \div tm[t].delay)) % M
<1>3. p \in 0..(M - 1)
  <2>1. Elapsed(t) \div tm[t].delay \in Int  BY <1>1, <1>2 DEF Timers
  <2>2. tm[t].delay * (Elapsed(t) \div tm[t].delay) \in Int
    BY <1>1, <2>1 DEF Timers
  <2>3. tm[t].prevMillis + tm[t].delay * (Elapsed(t) \div tm[t].delay) \in Int
    BY <1>1, <2>2 DEF Timers
  <2>. QED  BY <2>3, ModLemma
<1> HIDE DEF p
<1>4. Marked(t) = IF Elapsed(t) < tm[t].delay THEN tm[t]
                  ELSE [tm[t] EXCEPT !.prevMillis = p, !.called = @ \/ tm[t].enable]
  BY DEF Marked, p
<1>5. (tm[t].called \/ tm[t].enable) \in BOOLEAN  OBVIOUS
<1>. QED  BY <1>1, <1>3, <1>4, <1>5 DEF Timers

LEMMA MarkStep == IInv /\ RunMark => IInv'
<1>. SUFFICES ASSUME IInv, RunMark PROVE IInv'  OBVIOUS
<1>. USE DEF IInv
<1>0. /\ Listed' = Listed /\ Listed \subseteq Ids /\ list' = list
      /\ list \in Seq(Ids) /\ tm \in [Ids -> Timers]
      /\ phase = "idle" /\ phase' = "call" /\ it' = 1
  BY DEF RunMark, TypeOK, Listed
<1>1. /\ tm' \in [Ids -> Timers]
      /\ \A t \in Ids : /\ tm'[t].limit = tm[t].limit
                        /\ tm'[t].count = tm[t].count
                        /\ tm'[t].delete = tm[t].delete
                        /\ t \notin Listed => tm'[t] = tm[t]
  <2>1. ASSUME NEW t \in Ids
        PROVE  /\ tm'[t] \in Timers
               /\ tm'[t].limit = tm[t].limit
               /\ tm'[t].count = tm[t].count
               /\ tm'[t].delete = tm[t].delete
               /\ t \notin Listed => tm'[t] = tm[t]
    <3>1. tm'[t] = IF t \in Listed THEN Marked(t) ELSE tm[t]  BY DEF RunMark
    <3>. QED  BY <1>0, <3>1, MarkLemma
  <2>2. tm' = [t \in Ids |-> tm'[t]]  BY DEF RunMark
  <2>. QED  BY <2>1, <2>2
<1>2. TypeOK'
  BY <1>0, <1>1, LagAssumption DEF RunMark, TypeOK, Phases, history
<1>3. NoStaleMark'  BY <1>0 DEF NoStaleMark
<1>4. FreeInv'  BY <1>0, <1>1 DEF FreeInv
<1>5. CountInv'
  BY <1>0, <1>1 DEF CountInv, InCallback, RunMark, history
<1>6. GoneInv'
  <2>1. gone \subseteq Ids /\ gone' = gone  BY DEF TypeOK, RunMark, history
  <2>. QED  BY <1>0, <1>1, <2>1 DEF GoneInv
<1>. QED  BY <1>2, <1>3, <1>4, <1>5, <1>6

LEMMA SkipStep == IInv /\ CallSkip => IInv'
<1>. SUFFICES ASSUME IInv, CallSkip PROVE IInv'  OBVIOUS
<1>. USE DEF IInv
<1> DEFINE t == list[it]
<1>0. /\ Listed' = Listed /\ Listed \subseteq Ids /\ list' = list
      /\ list \in Seq(Ids) /\ tm \in [Ids -> Timers] /\ gone \subseteq Ids
      /\ phase = "call" /\ phase' = "call" /\ it' = it + 1
      /\ it \in 1..Len(list) /\ t \in Ids
      /\ UNCHANGED <<now, lag, numTimer, wait, fired, gone>>
  BY DEF CallSkip, TypeOK, Listed, clock, history
<1>1. tm' = [tm EXCEPT ![t].called = FALSE]  BY DEF CallSkip
<1> HIDE DEF t
<1>2. /\ tm' \in [Ids -> Timers] /\ ~tm'[t].called
      /\ \A u \in Ids : /\ tm'[u].limit = tm[u].limit
                        /\ tm'[u].count = tm[u].count
                        /\ tm'[u].delete = tm[u].delete
                        /\ u # t => tm'[u] = tm[u]
  <2>1. tm[t] \in Timers  BY <1>0
  <2> DEFINE r == [tm[t] EXCEPT !.called = FALSE]
  <2>2. /\ r \in Timers /\ ~r.called /\ r.limit = tm[t].limit
        /\ r.count = tm[t].count /\ r.delete = tm[t].delete
    BY <2>1 DEF Timers
  <2>3. tm' = [tm EXCEPT ![t] = r]  BY <1>0, <1>1
  <2> HIDE DEF r
  <2>. QED  BY <1>0, <2>2, <2>3
<1>3. TypeOK'  BY <1>0, <1>2 DEF TypeOK
<1>4. NoStaleMark'
  <2>1. \A i \in 1..Len(list) : list[i] \in Ids  BY <1>0
  <2>2. ASSUME NEW i \in 1..Len(list), i < it + 1  PROVE ~tm'[list[i]].called
    <3>1. CASE i = it  BY <1>2, <3>1 DEF t
    <3>2. CASE i < it
      <4>1. ~tm[list[i]].called  BY <1>0, <3>2 DEF NoStaleMark
      <4>. QED  BY <1>2, <2>1, <4>1
    <3>. QED  BY <1>0, <2>2, <3>1, <3>2
  <2>. QED  BY <1>0, <2>2 DEF NoStaleMark
<1>5. FreeInv'
  <2>1. t \in Listed  BY <1>0 DEF Listed, t
  <2>. QED  BY <1>0, <1>2, <2>1 DEF FreeInv
<1>6. CountInv'
  BY <1>0, <1>2 DEF CountInv, InCallback
<1>7. GoneInv'
  BY <1>0, <1>2 DEF GoneInv
<1>. QED  BY <1>3, <1>4, <1>5, <1>6, <1>7

LEMMA CallbackStep == IInv /\ Callback => IInv'
<1>. SUFFICES ASSUME IInv, Callback PROVE IInv'  OBVIOUS
<1>. USE DEF IInv
<1> DEFINE t == list[it]
<1>0. /\ Listed' = Listed /\ Listed \subseteq Ids /\ list' = list
      /\ list \in Seq(Ids) /\ tm \in [Ids -> Timers] /\ gone \subseteq Ids
      /\ fired \in [Ids -> Nat]
      /\ phase = "call" /\ phase' = "callback" /\ it' = it
      /\ it \in 1..Len(list) /\ t \in Ids /\ ~tm[t].delete
      /\ UNCHANGED <<now, lag, numTimer, wait, gone>>
  BY DEF Callback, TypeOK, Listed, clock
<1>1. /\ tm' = [tm EXCEPT ![t].called = FALSE]
      /\ fired' = [fired EXCEPT ![t] = IF tm[t].limit = 0 THEN 0 ELSE @ + 1]
  BY DEF Callback
<1>a. t \in Listed  BY <1>0 DEF Listed
<1>b. list[it] = t  OBVIOUS
<1> HIDE DEF t
<1>2. /\ tm' \in [Ids -> Timers] /\ ~tm'[t].called
      /\ \A u \in Ids : /\ tm'[u].limit = tm[u].limit
                        /\ tm'[u].count = tm[u].count
                        /\ tm'[u].delete = tm[u].delete
                        /\ u # t => tm'[u] = tm[u]
  <2>1. tm[t] \in Timers  BY <1>0
  <2> DEFINE r == [tm[t] EXCEPT !.called = FALSE]
  <2>2. /\ r \in Timers /\ ~r.called /\ r.limit = tm[t].limit
        /\ r.count = tm[t].count /\ r.delete = tm[t].delete
    BY <2>1 DEF Timers
  <2>3. tm' = [tm EXCEPT ![t] = r]  BY <1>0, <1>1
  <2> HIDE DEF r
  <2>. QED  BY <1>0, <2>2, <2>3
<1>3. TypeOK'
  <2>1. fired' \in [Ids -> Nat]  BY <1>0, <1>1
  <2>. QED  BY <1>0, <1>2, <2>1 DEF TypeOK, Phases
<1>4. NoStaleMark'
  <2>1. \A i \in 1..Len(list) : list[i] \in Ids  BY <1>0
  <2>2. ASSUME NEW i \in 1..Len(list), i <= it  PROVE ~tm'[list[i]].called
    <3>1. CASE i = it  BY <1>2, <1>b, <3>1
    <3>2. CASE i < it
      <4>1. ~tm[list[i]].called  BY <1>0, <3>2 DEF NoStaleMark
      <4>. QED  BY <1>2, <2>1, <4>1
    <3>. QED  BY <1>0, <2>2, <3>1, <3>2
  <2>. QED  BY <1>0, <2>2 DEF NoStaleMark
<1>5. FreeInv'
  BY <1>0, <1>2, <1>a DEF FreeInv
<1>6. CountInv'
  <2>1. \A u \in Listed : ~InCallback(u) /\ (InCallback(u)' <=> u = t)
    BY <1>0, <1>b DEF InCallback
  <2>2. \A u \in Listed : u # t => fired'[u] = fired[u]  BY <1>0, <1>1
  <2>3. tm[t].limit > 0 => fired'[t] = fired[t] + 1
    BY <1>0, <1>1 DEF Timers
  <2>4. ASSUME NEW u \in Listed, tm'[u].limit > 0
        PROVE  /\ fired'[u] = IF InCallback(u)' THEN tm'[u].count + 1 ELSE tm'[u].count
               /\ tm'[u].count <= tm'[u].limit
               /\ ~tm'[u].delete \/ InCallback(u)' => tm'[u].count < tm'[u].limit
    <3>1. u \in Ids /\ tm[u].limit > 0  BY <1>0, <1>2, <2>4
    <3>2. CASE u = t  BY <1>0, <1>2, <2>1, <2>3, <3>1, <3>2 DEF CountInv
    <3>3. CASE u # t  BY <1>0, <1>2, <2>1, <2>2, <3>1, <3>3 DEF CountInv
    <3>. QED  BY <3>2, <3>3
  <2>. QED  BY <1>0, <2>4 DEF CountInv
<1>7. GoneInv'
  BY <1>0, <1>2 DEF GoneInv
<1>. QED  BY <1>3, <1>4, <1>5, <1>6, <1>7

LEMMA CountedLemma ==
  ASSUME NEW r \in Timers
  PROVE  /\ Counted(r) \in Timers
         /\ Counted(r).called = r.called /\ Counted(r).limit = r.limit
         /\ r.delete => Counted(r).delete
         /\ r.limit > 0 => /\ Counted(r).count = r.count + 1
                           /\ r.count + 1 >= r.limit => Counted(r).delete
<1>1. CASE r.limit = 0  BY <1>1 DEF Counted, Timers
<1>2. CASE r.limit # 0
  <2> DEFINE c == [r EXCEPT !.count = @ + 1]
  <2>1. /\ c \in Timers /\ c.count = r.count + 1 /\ c.limit = r.limit
        /\ c.called = r.called /\ c.delete = r.delete
    BY DEF Timers
  <2>2. Counted(r) = IF c.count >= c.limit THEN Deleted(c) ELSE c
    BY <1>2 DEF Counted
  <2> HIDE DEF c
  <2>3. /\ Deleted(c) \in Timers /\ Deleted(c).count = c.count
        /\ Deleted(c).limit = c.limit /\ Deleted(c).called = c.called
        /\ Deleted(c).delete
    BY <2>1 DEF Deleted, Timers
  <2>. QED  BY <2>1, <2>2, <2>3
<1>. QED  BY <1>1, <1>2

LEMMA ReturnStep == IInv /\ CallbackReturn => IInv'
<1>. SUFFICES ASSUME IInv, CallbackReturn PROVE IInv'  OBVIOUS
<1>. USE DEF IInv
<1> DEFINE t == list[it]
<1>0. /\ Listed' = Listed /\ Listed \subseteq Ids /\ list' = list
      /\ list \in Seq(Ids) /\ tm \in [Ids -> Timers] /\ gone \subseteq Ids
      /\ phase = "callback" /\ phase' = "call" /\ it' = it + 1
      /\ it \in 1..Len(list) /\ t \in Ids
      /\ UNCHANGED <<now, lag, numTimer, wait, fired, gone>>
  BY DEF CallbackReturn, TypeOK, FreeInv, Listed, clock, history
<1>1. tm' = [tm EXCEPT ![t] = Counted(tm[t])]  BY DEF CallbackReturn
<1>a. t \in Listed  BY <1>0 DEF Listed
<1>b. list[it] = t  OBVIOUS
<1> HIDE DEF t
<1>2. /\ tm' \in [Ids -> Timers] /\ tm'[t] = Counted(tm[t]) /\ tm[t] \in Timers
      /\ \A u \in Ids : u # t => tm'[u] = tm[u]
  BY <1>0, <1>1, CountedLemma
<1>3. /\ tm'[t].called = tm[t].called /\ tm'[t].limit = tm[t].limit
      /\ tm[t].delete => tm'[t].delete
      /\ tm[t].limit > 0 => /\ tm'[t].count = tm[t].count + 1
                            /\ tm[t].count + 1 >= tm[t].limit => tm'[t].delete
  BY <1>2, CountedLemma
<1>4. TypeOK'  BY <1>0, <1>2 DEF TypeOK, Phases
<1>5. NoStaleMark'
  <2>1. \A i \in 1..Len(list) : list[i] \in Ids  BY <1>0
  <2>2. ASSUME NEW i \in 1..Len(list), i < it + 1  PROVE ~tm'[list[i]].called
    <3>1. i <= it  BY <1>0, <2>2
    <3>2. ~tm[list[i]].called  BY <1>0, <3>1 DEF NoStaleMark
    <3>. QED  BY <1>2, <1>3, <2>1, <3>2
  <2>. QED  BY <1>0, <2>2 DEF NoStaleMark
<1>6. FreeInv'  BY <1>0, <1>2, <1>a DEF FreeInv
<1>7. CountInv'
  <2>1. \A u \in Listed : ~InCallback(u)' /\ (InCallback(u) <=> u = t)
    BY <1>0, <1>b DEF InCallback
  <2>2. ASSUME NEW u \in Listed, tm'[u].limit > 0
        PROVE  /\ fired'[u] = IF InCallback(u)' THEN tm'[u].count + 1 ELSE tm'[u].count
               /\ tm'[u].count <= tm'[u].limit
               /\ ~tm'[u].delete \/ InCallback(u)' => tm'[u].count < tm'[u].limit
    <3>1. u \in Ids /\ tm[u].limit > 0  BY <1>0, <1>2, <1>3, <2>2
    <3>2. CASE u = t
      <4>1. /\ fired[t] = tm[t].count + 1 /\ tm[t].count < tm[t].limit
        BY <1>a, <2>1, <3>1, <3>2 DEF CountInv
      <4>2. tm[t].count \in Nat /\ tm[t].limit \in Nat  BY <1>2 DEF Timers
      <4>. QED  BY <1>0, <1>3, <2>1, <3>1, <3>2, <4>1, <4>2
    <3>3. CASE u # t  BY <1>0, <1>2, <2>1, <3>1, <3>3 DEF CountInv
    <3>. QED  BY <3>2, <3>3
  <2>. QED  BY <1>0, <2>2 DEF CountInv
<1>8. GoneInv'
  <2>1. \A u \in Ids : tm[u].delete => tm'[u].delete  BY <1>2, <1>3
  <2>. QED  BY <1>0, <2>1 DEF GoneInv
<1>. QED  BY <1>4, <1>5, <1>6, <1>7, <1>8

LEMMA CallEndStep == IInv /\ CallEnd => IInv'
<1>. SUFFICES ASSUME IInv, CallEnd PROVE IInv'  OBVIOUS
<1>. USE DEF IInv
<1>0. /\ Listed' = Listed /\ list' = list /\ tm' = tm /\ list \in Seq(Ids)
      /\ phase = "call" /\ phase' = "reap" /\ it > Len(list) /\ it \in Nat
  BY DEF CallEnd, Listed, TypeOK
<1>1. TypeOK'  BY DEF CallEnd, TypeOK, Phases, clock, history
<1>2. NoStaleMark'
  <2>1. ASSUME NEW t \in Ids  PROVE ~tm[t].called
    <3>1. CASE t \in Listed
      <4>1. PICK i \in 1..Len(list) : list[i] = t  BY <3>1 DEF Listed
      <4>2. i < it  BY <1>0
      <4>. QED  BY <1>0, <4>1, <4>2 DEF NoStaleMark
    <3>2. CASE t \notin Listed  BY <3>2 DEF FreeInv, NoTimer
    <3>. QED  BY <3>1, <3>2
  <2>. QED  BY <1>0, <2>1 DEF NoStaleMark
<1>3. FreeInv' /\ CountInv' /\ GoneInv'
  BY <1>0 DEF CallEnd, FreeInv, CountInv, GoneInv, InCallback, history
<1>. QED  BY <1>1, <1>2, <1>3

LEMMA ReapStep ==
  ASSUME IInv, NEW i \in 1..Len(list), Reap(i)  PROVE IInv'
<1>. USE DEF IInv
<1> DEFINE t == list[i]
<1>0. /\ list \in Seq(Ids) /\ tm \in [Ids -> Timers] /\ gone \subseteq Ids
      /\ phase = "reap" /\ phase' = "reap" /\ it' = it /\ t \in Ids
      /\ Len(list) \in Nat /\ numTimer = Len(list) /\ numTimer' = Len(list) - 1
      /\ UNCHANGED <<now, lag, wait, fired, gone>>
  BY DEF Reap, TypeOK, clock, loop, history
<1>1. /\ list' \in Seq(Ids) /\ Len(list') = Len(list) - 1
      /\ \A j, k \in 1..Len(list') : list'[j] = list'[k] => j = k
      /\ Listed' = Listed \ {t}
  BY ReapLemma DEF Reap, TypeOK
<1>2. tm' = [tm EXCEPT ![t] = NoTimer]  BY DEF Reap
<1> HIDE DEF t
<1>3. NoTimer \in Timers  BY ModAssumption DEF NoTimer, Timers
<1>4. /\ tm' \in [Ids -> Timers] /\ tm'[t] = NoTimer
      /\ \A u \in Ids : u # t => tm'[u] = tm[u]
  BY <1>0, <1>2, <1>3
<1>5. TypeOK'
  <2>1. numTimer' = Len(list') /\ numTimer' <= MAX_TIMERS
    BY <1>0, <1>1, MaxAssumption DEF TypeOK
  <2>. QED  BY <1>0, <1>1, <1>4, <2>1 DEF TypeOK
<1>6. NoStaleMark'  BY <1>0, <1>4 DEF NoStaleMark, NoTimer
<1>7. FreeInv'  BY <1>0, <1>1, <1>4 DEF FreeInv
<1>8. CountInv'
  <2>1. Listed \subseteq Ids  BY <1>0 DEF Listed
  <2>. QED  BY <1>0, <1>1, <1>4, <2>1 DEF CountInv, InCallback
<1>9. GoneInv'  BY <1>0, <1>1, <1>4 DEF GoneInv
<1>. QED  BY <1>5, <1>6, <1>7, <1>8, <1>9

LEMMA RunEndStep == IInv /\ RunEnd => IInv'
BY DEF IInv, RunEnd, TypeOK, NoStaleMark, FreeInv, CountInv, GoneInv, InCallback,
       Listed, Phases, clock, history

LEMMA StutterStep == IInv /\ UNCHANGED vars => IInv'
BY DEF IInv, vars, TypeOK, NoStaleMark, FreeInv, CountInv, GoneInv, InCallback,
       Listed

-----------------------------------------------------------------------------
LEMMA InitIInv == Init => IInv
<1>. SUFFICES ASSUME Init PROVE IInv  OBVIOUS
<1>1. NoTimer \in Timers  BY ModAssumption DEF NoTimer, Timers
<1>2. TypeOK
  BY <1>1, ModAssumption, MaxAssumption, LagAssumption DEF Init, TypeOK, Phases
<1>3. NoStaleMark /\ FreeInv  BY DEF Init, NoStaleMark, FreeInv, NoTimer
<1>4. CountInv /\ GoneInv  BY DEF Init, CountInv, GoneInv, Listed
<1>. QED  BY <1>2, <1>3, <1>4 DEF IInv

LEMMA NextIInv == IInv /\ [Next]_vars => IInv'
<1>. SUFFICES ASSUME IInv, [Next]_vars PROVE IInv'  OBVIOUS
<1>1. CASE Run
  BY <1>1, MarkStep, SkipStep, CallbackStep, ReturnStep, CallEndStep, ReapStep,
     RunEndStep DEF Run
<1>2. CASE Calm
  BY <1>2, SetupStep, FieldsStep, SetAllStep DEF Calm
<1>3. CASE Rearm
  <2>1. PICK t \in Ids :
          \/ \E i \in Intervals : \E o \in Offsets(Delay(i), tm[t].limit) :
                ChangeInterval(t, i, o)
          \/ RestartTimer(t)
    BY <1>3 DEF Rearm
  <2>. QED  BY <2>1, FieldsStep
<1>. QED  BY <1>1, <1>2, <1>3, TickStep, StutterStep DEF Next

\* Every reachable state satisfies the invariant.
THEOREM TimerInvariant == Spec => []IInv
BY InitIInv, NextIInv, PTL DEF Spec

\* numTimer counts the list and never passes MAX_TIMERS; every field keeps
\* its width.
THEOREM TimerTypeOK == Spec => []TypeOK
BY TimerInvariant, PTL DEF IInv

\* No mark outlives the run that set it, whatever the callbacks do.
THEOREM TimerNoStaleMark == Spec => []NoStaleMark
BY TimerInvariant, PTL DEF IInv

\* A limited timer is called at most its limit of times.
THEOREM TimerLimitRespected == Spec => []LimitRespected
<1>1. IInv => LimitRespected
  <2>. SUFFICES ASSUME IInv, NEW t \in Ids, tm[t].limit > 0
                PROVE  fired[t] <= tm[t].limit
    BY DEF LimitRespected
  <2>1. t \in Listed  BY DEF IInv, FreeInv, NoTimer
  <2>2. tm[t].count \in Nat /\ tm[t].limit \in Nat  BY DEF IInv, TypeOK, Timers
  <2>. QED  BY <2>1, <2>2 DEF IInv, CountInv
<1>. QED  BY <1>1, TimerInvariant, PTL

\* A timer that deleteTimer was called for is not called again.
THEOREM TimerDeletedStaysSilent == Spec => DeletedStaysSilent
<1>1. IInv /\ [Next]_vars => [\A t \in gone : ~Calls(t)]_vars
  <2>. SUFFICES ASSUME IInv, Next, NEW t \in gone, Calls(t)  PROVE FALSE
    OBVIOUS
  <2>1. Callback
    BY DEF Calls, Next, Run, Calm, Rearm, Tick, RunMark, CallSkip, Callback,
           CallbackReturn, CallEnd, Reap, RunEnd, Setup, ChangeInterval, RestartTimer,
           ExecuteNow, DeleteTimer, Enable, Disable, SetAll, CanCall, loop
  <2>2. it \in 1..Len(list) /\ list[it] = t /\ ~tm[t].delete
    BY <2>1 DEF Callback, Calls, IInv, TypeOK
  <2>3. t \in Listed  BY <2>2 DEF Listed
  <2>. QED  BY <2>2, <2>3 DEF IInv, GoneInv
<1>. QED  BY <1>1, TimerInvariant, PTL DEF Spec, DeletedStaysSilent

-----------------------------------------------------------------------------
(* A limited timer is not marked early.                                    *)

\* The remainder of a number less than M away from the range.
LEMMA NearLemma ==
  ASSUME NEW x \in Int, -M <= x, x < M
  PROVE  x % M = IF x >= 0 THEN x ELSE x + M
BY ModAssumption

LEMMA ZeroLemma ==
  ASSUME NEW n \in 0..(M - 1)
  PROVE  (n + 0) % M = n /\ (n - n) % M = 0
<1>1. n + 0 = n /\ n - n = 0 /\ n \in Int
  OBVIOUS
<1>. QED  BY <1>1, NearLemma, ModAssumption

\* The time since a timer was armed grows with the clock, also when it wraps.
LEMMA ElapsedLemma ==
  ASSUME NEW n \in 0..(M - 1), NEW p \in 0..(M - 1), ((n - p) % M) + 1 < M
  PROVE  (((n + 1) % M) - p) % M = ((n - p) % M) + 1
<1>1. (n - p) % M = IF n >= p THEN n - p ELSE (n - p) + M
  BY NearLemma, ModAssumption
<1>2. CASE n + 1 < M
  <2>1. (n + 1) % M = n + 1
    BY <1>2, NearLemma, ModAssumption
  <2>2. ((n + 1) - p) % M = IF n + 1 >= p THEN (n + 1) - p ELSE ((n + 1) - p) + M
    BY <1>2, NearLemma, ModAssumption
  <2>. QED  BY <1>1, <2>1, <2>2, ModAssumption
<1>3. CASE n + 1 = M
  <2>1. (n + 1) % M = 0
    BY <1>3, ModAssumption
  <2>2. (0 - p) % M = IF p = 0 THEN 0 ELSE M - p
    BY NearLemma, ModAssumption
  <2>. QED  BY <1>1, <1>3, <2>1, <2>2, ModAssumption
<1>. QED  BY <1>2, <1>3, ModAssumption

\* A limited timer that may not be called yet was armed without an offset,
\* and the time since then is what its delay has left behind.
Armed(t) ==
    tm[t].limit > 0 /\ wait[t] > 0 => Elapsed(t) = tm[t].delay - wait[t]

WaitInv == \A t \in Ids : Armed(t)

\* Every step keeps WaitInv.
LEMMA NextWaitInv ==
  ASSUME IInv, WaitInv, [Next]_vars
  PROVE  WaitInv'
<1>0. /\ now \in 0..(M - 1) /\ tm \in [Ids -> Timers] /\ wait \in [Ids -> 0..M]
      /\ list \in Seq(Ids) /\ it \in Nat \ {0} /\ Listed \subseteq Ids
  BY DEF IInv, TypeOK, Listed
<1>a. ASSUME NEW u \in Ids
      PROVE  /\ tm[u].prevMillis \in 0..(M - 1) /\ tm[u].delay \in 1..M /\ tm[u].limit \in Nat
             /\ wait[u] \in 0..M
  BY <1>0 DEF Timers
\* a timer that is not armed again, while the clock stands
<1>b. ASSUME NEW u \in Ids, UNCHANGED <<now, wait>>,
             tm'[u].prevMillis = tm[u].prevMillis, tm'[u].delay = tm[u].delay,
             tm'[u].limit = tm[u].limit
      PROVE  Armed(u)'
  BY <1>b DEF WaitInv, Armed, Elapsed
\* a timer that is armed now
<1>c. ASSUME NEW u \in Ids, now' = now, tm'[u].limit > 0 => tm'[u].prevMillis = now,
             wait'[u] = tm'[u].delay, tm'[u].delay \in 1..M
      PROVE  Armed(u)'
  <2>1. (now - now) % M = 0
    BY <1>0, ZeroLemma
  <2>. QED  BY <1>c, <2>1, ModAssumption DEF Armed, Elapsed
<1>d. ASSUME NEW t \in Ids, NEW u \in Ids, u # t, NEW r, tm' = [tm EXCEPT ![t] = r],
             wait'[u] = wait[u], now' = now
      PROVE  Armed(u)'
  <2>1. tm'[u] = tm[u]
    BY <1>0, <1>d
  <2>. QED  BY <1>d, <2>1 DEF WaitInv, Armed, Elapsed
\* a change of what one timer holds beside its delay
<1>e. ASSUME NEW t \in Ids, NEW r, tm' = [tm EXCEPT ![t] = r], UNCHANGED <<now, wait>>,
             r.prevMillis = tm[t].prevMillis, r.delay = tm[t].delay, r.limit = tm[t].limit
      PROVE  WaitInv'
  <2>1. tm'[t] = r
    BY <1>0, <1>e
  <2>2. \A u \in Ids : u # t => Armed(u)'
    BY <1>d, <1>e
  <2>. QED  BY <2>1, <2>2, <1>b, <1>e DEF WaitInv
<1>1. CASE Tick
  <2>. SUFFICES ASSUME NEW u \in Ids, tm[u].limit > 0, wait'[u] > 0
                PROVE  Elapsed(u)' = tm[u].delay - wait'[u]
    BY <1>1 DEF WaitInv, Armed, Tick
  <2>1. wait[u] > 1 /\ wait'[u] = wait[u] - 1 /\ now' = (now + 1) % M /\ tm' = tm
    BY <1>0, <1>1, <1>a DEF Tick
  <2>2. (now - tm[u].prevMillis) % M = tm[u].delay - wait[u]
    BY <2>1, <1>a DEF WaitInv, Armed, Elapsed
  <2>3. ((now - tm[u].prevMillis) % M) + 1 < M
    BY <2>1, <2>2, <1>a, ModAssumption
  <2>4. (((now + 1) % M) - tm[u].prevMillis) % M = ((now - tm[u].prevMillis) % M) + 1
    BY <2>3, <1>0, <1>a, ElapsedLemma
  <2>. QED  BY <2>1, <2>2, <2>4, <1>a, ModAssumption DEF Elapsed
<1>2. ASSUME NEW t \in Ids, NEW i \in Intervals, NEW l \in Limits,
             NEW o \in Offsets(Delay(i), l), Setup(t, i, l, o)
      PROVE  WaitInv'
  <2>0. Delay(i) \in 1..M /\ (l > 0 => o = 0)
    <3>1. l \in Nat
      BY LimitsAssumption
    <3>. QED  BY <3>1, DelayLemma DEF Offsets
  <2>1. l > 0 => (now + o) % M = now
    <3>1. (now + 0) % M = now
      BY <1>0, ZeroLemma
    <3>. QED  BY <2>0, <3>1
  <2>2. /\ tm'[t].prevMillis = (now + o) % M /\ tm'[t].delay = Delay(i) /\ tm'[t].limit = l
        /\ wait'[t] = Delay(i) /\ now' = now
    BY <1>0, <1>2 DEF Setup, clock, NoTimer
  <2>3. Armed(t)'
    BY <2>0, <2>1, <2>2, <1>c
  <2>4. ASSUME NEW u \in Ids, u # t PROVE Armed(u)'
    <3>1. wait'[u] = wait[u] /\ now' = now
      BY <1>0, <1>2, <2>4 DEF Setup, clock
    <3>. QED  BY <1>2, <1>d, <2>4, <3>1 DEF Setup
  <2>. QED  BY <2>3, <2>4 DEF WaitInv
<1>3. ASSUME NEW t \in Ids, NEW i \in Intervals, NEW o \in Offsets(Delay(i), tm[t].limit),
             ChangeInterval(t, i, o)
      PROVE  WaitInv'
  <2>0. Delay(i) \in 1..M /\ (tm[t].limit > 0 => o = 0)
    BY DelayLemma, <1>a DEF Offsets
  <2>1. tm[t].limit > 0 => (now + o) % M = now
    BY <2>0, <1>0, NearLemma, ModAssumption
  <2>2. /\ tm'[t].prevMillis = (now + o) % M /\ tm'[t].delay = Delay(i)
        /\ tm'[t].limit = tm[t].limit /\ wait'[t] = Delay(i) /\ now' = now
    BY <1>0, <1>3 DEF ChangeInterval, clock, Timers
  <2>3. Armed(t)'
    BY <2>0, <2>1, <2>2, <1>c
  <2>4. ASSUME NEW u \in Ids, u # t PROVE Armed(u)'
    <3>1. tm'[u] = tm[u] /\ wait'[u] = wait[u] /\ now' = now
      BY <1>0, <1>3, <2>4 DEF ChangeInterval, clock
    <3>. QED  BY <3>1 DEF WaitInv, Armed, Elapsed
  <2>. QED  BY <2>3, <2>4 DEF WaitInv
<1>4. ASSUME NEW t \in Ids, RestartTimer(t) PROVE WaitInv'
  <2>1. /\ tm'[t].prevMillis = now /\ tm'[t].delay = tm[t].delay /\ wait'[t] = tm[t].delay
        /\ now' = now
    BY <1>0, <1>4 DEF RestartTimer, clock, Timers
  <2>2. Armed(t)'
    BY <2>1, <1>a, <1>c
  <2>3. ASSUME NEW u \in Ids, u # t PROVE Armed(u)'
    <3>1. tm'[u] = tm[u] /\ wait'[u] = wait[u] /\ now' = now
      BY <1>0, <1>4, <2>3 DEF RestartTimer, clock
    <3>. QED  BY <3>1 DEF WaitInv, Armed, Elapsed
  <2>. QED  BY <2>2, <2>3 DEF WaitInv
<1>5. ASSUME NEW t \in Ids, ExecuteNow(t) PROVE WaitInv'
  <2>1. wait'[t] = 0
    BY <1>0, <1>5 DEF ExecuteNow
  <2>2. ASSUME NEW u \in Ids, u # t PROVE Armed(u)'
    <3>1. tm'[u] = tm[u] /\ wait'[u] = wait[u] /\ now' = now
      BY <1>0, <1>5, <2>2 DEF ExecuteNow, clock
    <3>. QED  BY <3>1 DEF WaitInv, Armed, Elapsed
  <2>3. Armed(t)'
    BY <2>1 DEF Armed
  <2>. QED  BY <2>2, <2>3 DEF WaitInv
<1>6. ASSUME NEW t \in Ids, DeleteTimer(t) \/ Enable(t) \/ Disable(t) PROVE WaitInv'
  <2>1. UNCHANGED <<now, wait>> /\ tm[t] \in Timers
    BY <1>0, <1>6 DEF DeleteTimer, Enable, Disable, clock, history
  <2>2. CASE DeleteTimer(t)
    <3>1. tm' = [tm EXCEPT ![t] = Deleted(tm[t])]
      BY <2>2 DEF DeleteTimer
    <3>2. /\ Deleted(tm[t]).prevMillis = tm[t].prevMillis
          /\ Deleted(tm[t]).delay = tm[t].delay /\ Deleted(tm[t]).limit = tm[t].limit
      BY <2>1 DEF Deleted, Timers
    <3>. QED  BY <2>1, <3>1, <3>2, <1>e
  <2>3. CASE Enable(t) \/ Disable(t)
    <3>1. PICK b \in BOOLEAN : tm' = [tm EXCEPT ![t] = [tm[t] EXCEPT !.enable = b]]
      BY <2>3, <1>0 DEF Enable, Disable
    <3> DEFINE r == [tm[t] EXCEPT !.enable = b]
    <3>2. /\ r.prevMillis = tm[t].prevMillis /\ r.delay = tm[t].delay
          /\ r.limit = tm[t].limit
      BY <2>1 DEF Timers
    <3> HIDE DEF r
    <3>3. tm' = [tm EXCEPT ![t] = r]
      BY <3>1 DEF r
    <3>. QED  BY <2>1, <3>2, <3>3, <1>e
  <2>. QED  BY <1>6, <2>2, <2>3
<1>7. ASSUME NEW b \in BOOLEAN, SetAll(b) PROVE WaitInv'
  <2>1. /\ UNCHANGED <<now, wait>>
        /\ \A u \in Ids : /\ tm'[u].prevMillis = tm[u].prevMillis
                          /\ tm'[u].delay = tm[u].delay /\ tm'[u].limit = tm[u].limit
    BY <1>0, <1>7 DEF SetAll, clock, history, Timers
  <2>. QED  BY <2>1, <1>b DEF WaitInv
<1>8. CASE RunMark
  <2>. SUFFICES ASSUME NEW u \in Ids PROVE Armed(u)'
    BY DEF WaitInv
  <2>1. UNCHANGED <<now, wait>> /\ tm'[u] = IF u \in Listed THEN Marked(u) ELSE tm[u]
    BY <1>0, <1>8 DEF RunMark, history
  <2>2. tm'[u].limit = tm[u].limit
    BY <2>1, <1>0 DEF Marked, Timers
  <2>3. CASE tm[u].limit > 0 /\ wait[u] > 0
    <3>1. Elapsed(u) < tm[u].delay
      BY <2>3, <1>a DEF WaitInv, Armed
    <3>. QED  BY <2>1, <3>1, <1>b DEF Marked
  <2>4. CASE ~(tm[u].limit > 0 /\ wait[u] > 0)
    BY <2>1, <2>2, <2>4 DEF Armed
  <2>. QED  BY <2>3, <2>4
<1>9. CASE CallSkip \/ Callback
  <2>1. /\ it \in 1..Len(list) /\ UNCHANGED <<now, wait>>
        /\ tm' = [tm EXCEPT ![list[it]].called = FALSE]
    BY <1>0, <1>9 DEF CallSkip, Callback, clock, history
  <2> DEFINE r == [tm[list[it]] EXCEPT !.called = FALSE]
  <2>2. list[it] \in Ids
    BY <1>0, <2>1
  <2>3. /\ r.prevMillis = tm[list[it]].prevMillis /\ r.delay = tm[list[it]].delay
        /\ r.limit = tm[list[it]].limit
    BY <1>0, <2>2 DEF Timers
  <2>4. tm' = [tm EXCEPT ![list[it]] = r]
    BY <2>1
  <2> HIDE DEF r
  <2>. QED  BY <2>1, <2>2, <2>3, <2>4, <1>e
<1>10. CASE CallbackReturn
  <2>1. /\ it \in 1..Len(list) /\ UNCHANGED <<now, wait>>
        /\ tm' = [tm EXCEPT ![list[it]] = Counted(tm[list[it]])]
    BY <1>0, <1>10 DEF CallbackReturn, clock, history, IInv, FreeInv
  <2> DEFINE r == Counted(tm[list[it]])
  <2>2. list[it] \in Ids
    BY <1>0, <2>1
  <2>3. /\ r.prevMillis = tm[list[it]].prevMillis /\ r.delay = tm[list[it]].delay
        /\ r.limit = tm[list[it]].limit
    BY <1>0, <2>2 DEF Counted, Deleted, Timers
  <2> HIDE DEF r
  <2>. QED  BY <2>1, <2>2, <2>3, <1>e DEF r
<1>11. ASSUME NEW i \in 1..Len(list), Reap(i) PROVE WaitInv'
  <2>0. list[i] \in Ids /\ UNCHANGED <<now, wait>> /\ tm' = [tm EXCEPT ![list[i]] = NoTimer]
    BY <1>0, <1>11 DEF Reap, clock, history
  <2>1. tm'[list[i]].limit = 0
    BY <1>0, <2>0 DEF NoTimer
  <2>2. \A u \in Ids : u # list[i] => Armed(u)'
    BY <2>0, <1>d
  <2>3. \A u \in Ids : u = list[i] => Armed(u)'
    <3>1. ~(tm'[list[i]].limit > 0)
      BY <2>1
    <3>. QED  BY <3>1 DEF Armed
  <2>. QED  BY <2>2, <2>3 DEF WaitInv
<1>12. CASE CallEnd \/ RunEnd \/ UNCHANGED vars
  BY <1>12, <1>b DEF WaitInv, CallEnd, RunEnd, vars, clock, history
<1>13. CASE Run
  BY <1>13, <1>8, <1>9, <1>10, <1>11, <1>12 DEF Run
<1>14. CASE Calm
  BY <1>14, <1>2, <1>5, <1>6, <1>7 DEF Calm
<1>15. CASE Rearm
  BY <1>15, <1>3, <1>4 DEF Rearm
<1>. QED  BY <1>1, <1>12, <1>13, <1>14, <1>15 DEF Next

\* Only the first loop of run() marks a timer.
LEMMA NextCalled ==
  ASSUME IInv, Next, NEW t \in Ids, ~tm[t].called, tm'[t].called
  PROVE  RunMark
<1>0. tm \in [Ids -> Timers] /\ list \in Seq(Ids)
  BY DEF IInv, TypeOK
<1>a. ASSUME NEW u \in Ids, NEW r, tm' = [tm EXCEPT ![u] = r],
             r.called => tm[u].called
      PROVE  FALSE
  BY <1>0, <1>a
<1>1. CASE Tick
  BY <1>1 DEF Tick
<1>2. ASSUME NEW u \in Ids, NEW i, NEW l, NEW o, Setup(u, i, l, o) PROVE FALSE
  <2> DEFINE r == [NoTimer EXCEPT !.prevMillis = (now + o) % M, !.delay = Delay(i),
                                  !.limit = l, !.enable = TRUE]
  <2>1. ~r.called
    BY DEF NoTimer
  <2> HIDE DEF r
  <2>2. tm' = [tm EXCEPT ![u] = r]
    BY <1>2 DEF Setup, r
  <2>. QED  BY <2>1, <2>2, <1>a
<1>3. ASSUME NEW u \in Ids, NEW p, NEW d, tm' = [tm EXCEPT ![u].prevMillis = p, ![u].delay = d]
      PROVE  FALSE
  BY <1>0, <1>3 DEF Timers
<1>4. ASSUME NEW u \in Ids, NEW p, tm' = [tm EXCEPT ![u].prevMillis = p] PROVE FALSE
  BY <1>0, <1>4 DEF Timers
<1>5. ASSUME NEW u \in Ids, NEW b, tm' = [tm EXCEPT ![u].enable = b] PROVE FALSE
  BY <1>0, <1>5 DEF Timers
<1>6. ASSUME NEW u \in Ids, DeleteTimer(u) PROVE FALSE
  BY <1>0, <1>6 DEF DeleteTimer, Deleted, Timers
<1>7. ASSUME NEW b \in BOOLEAN, SetAll(b) PROVE FALSE
  BY <1>0, <1>7 DEF SetAll, Timers
<1>8. CASE CallSkip \/ Callback
  <2>1. tm' = [tm EXCEPT ![list[it]].called = FALSE]
    BY <1>8 DEF CallSkip, Callback
  <2>. QED  BY <1>0, <2>1 DEF Timers
<1>9. CASE CallbackReturn
  <2>1. it \in 1..Len(list) /\ tm' = [tm EXCEPT ![list[it]] = Counted(tm[list[it]])]
    BY <1>0, <1>9 DEF CallbackReturn, IInv, FreeInv, TypeOK
  <2>2. list[it] \in Ids /\ tm[list[it]] \in Timers
    BY <1>0, <2>1
  <2>3. Counted(tm[list[it]]).called => tm[list[it]].called
    BY <2>2 DEF Counted, Deleted, Timers
  <2>. QED  BY <2>1, <2>2, <2>3, <1>a
<1>10. ASSUME NEW i \in 1..Len(list), Reap(i) PROVE FALSE
  <2>1. list[i] \in Ids /\ tm' = [tm EXCEPT ![list[i]] = NoTimer] /\ ~NoTimer.called
    BY <1>0, <1>10 DEF Reap, NoTimer
  <2>. QED  BY <2>1, <1>a
<1>11. CASE CallEnd \/ RunEnd
  BY <1>11 DEF CallEnd, RunEnd
<1>12. CASE Run
  BY <1>12, <1>8, <1>9, <1>10, <1>11 DEF Run
<1>13. CASE Calm
  <2>1. \A u \in Ids : ~ExecuteNow(u) /\ ~Enable(u) /\ ~Disable(u)
    BY <1>4, <1>5 DEF ExecuteNow, Enable, Disable
  <2>. QED  BY <1>13, <2>1, <1>2, <1>6, <1>7 DEF Calm
<1>14. CASE Rearm
  BY <1>14, <1>3, <1>4 DEF Rearm, ChangeInterval, RestartTimer
<1>. QED  BY <1>1, <1>12, <1>13, <1>14 DEF Next

\* run() marks no limited timer before its delay has passed since it was last
\* armed, wherever millis() wraps.
THEOREM TimerLimitedNotEarly == Spec => LimitedNotEarly
<1>1. Init => WaitInv
  BY DEF Init, WaitInv, Armed, NoTimer
<1>2. IInv /\ WaitInv /\ [Next]_vars => WaitInv'
  BY NextWaitInv
<1>3. IInv /\ WaitInv /\ [Next]_vars =>
        [\A t \in Ids : tm[t].limit > 0 /\ ~tm[t].called /\ tm'[t].called => wait[t] = 0]_vars
  <2>. SUFFICES ASSUME IInv, WaitInv, Next, NEW t \in Ids,
                       tm[t].limit > 0, ~tm[t].called, tm'[t].called, wait[t] # 0
                PROVE  FALSE
    OBVIOUS
  <2>0. /\ tm \in [Ids -> Timers] /\ wait[t] \in 0..M /\ tm[t].delay \in 1..M
        /\ list \in Seq(Ids)
    BY DEF IInv, TypeOK, Timers
  <2>1. RunMark
    BY <2>0, NextCalled
  <2>2. Elapsed(t) < tm[t].delay
    BY <2>0 DEF WaitInv, Armed
  <2>. QED  BY <2>0, <2>1, <2>2 DEF RunMark, Marked
<1>. QED  BY <1>1, <1>2, <1>3, TimerInvariant, PTL DEF Spec, LimitedNotEarly
=============================================================================
